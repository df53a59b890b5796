--------------------------- MODULE ProvingProofs ----------------------------
(* What an established or a refuting result of prove means, for all claims, *)
(* contracts and answers of the Bridge.                                     *)
EXTENDS Proving, TLAPS

-----------------------------------------------------------------------------
(* Atoms and their normal forms                                             *)

(* Every atom has one of eight kinds, and none is "and". *)
LEMMA AtomKinds ==
  ASSUME NEW a \in Atom
  PROVE  /\ a.kind \in {"compare", "true", "false", "system", "scalar", "eventual", "integral", "other"}
         /\ a.kind = "compare" <=> a \in Comparison
         /\ a.kind = "true" <=> a = Const(TRUE)
         /\ a.kind = "false" <=> a = Const(FALSE)
  <1>1. CASE a \in Comparison
    BY <1>1 DEF Comparison, Const
  <1>2. CASE a \in Constants
    BY <1>2 DEF Comparison, Constants, Const
  <1>3. CASE a \in SystemRoot \cup ScalarRoot
    BY <1>3 DEF Comparison, Const, SystemRoot, ScalarRoot
  <1>4. CASE a \in Eventual \cup Integral \cup Other
    BY <1>4 DEF Comparison, Const, Eventual, Integral, Other
  <1>5. QED BY <1>1, <1>2, <1>3, <1>4 DEF Atom

LEMMA HoldsConst ==
  ASSUME NEW p PROVE Holds(Const(TRUE), p) /\ ~Holds(Const(FALSE), p)
  BY DEF Holds, Const

LEMMA HoldsCompare ==
  ASSUME NEW a, a.kind = "compare", NEW p
  PROVE  Holds(a, p) <=> Compare(a.lhs.val[p], a.rel, a.rhs.val[p])
  BY DEF Holds

LEMMA ConstIsAtom == Const(TRUE) \in Atom /\ Const(FALSE) \in Atom
  BY DEF Const, Atom, Constants

LEMMA ExprValue ==
  ASSUME NEW e \in Expr, NEW p \in Points
  PROVE  e.val[p] \in Int /\ (e.const => e.val[p] = e.val[Origin])
  BY DEF Expr

LEMMA TurnedMeans ==
  ASSUME NEW a \in Comparison, NEW p \in Points
  PROVE  /\ Turned(a) \in Comparison
         /\ Turned(a).rel \in {"le", "lt", "eq", "ne"}
         /\ Compare(Turned(a).lhs.val[p], Turned(a).rel, Turned(a).rhs.val[p])
              <=> Compare(a.lhs.val[p], a.rel, a.rhs.val[p])
  <1>0. a.lhs.val[p] \in Int /\ a.rhs.val[p] \in Int /\ a.rel \in Relations
    BY ExprValue DEF Comparison
  <1>1. CASE a.rel = "ge"
    <2>1. Turned(a) = [a EXCEPT !.lhs = a.rhs, !.rel = "le", !.rhs = a.lhs]
      BY <1>1 DEF Turned
    <2>2. Turned(a) = [kind |-> "compare", lhs |-> a.rhs, rel |-> "le", rhs |-> a.lhs]
      BY <2>1 DEF Comparison
    <2>3. QED BY <2>2, <1>0, <1>1 DEF Comparison, Relations, Compare
  <1>2. CASE a.rel = "gt"
    <2>1. Turned(a) = [a EXCEPT !.lhs = a.rhs, !.rel = "lt", !.rhs = a.lhs]
      BY <1>2 DEF Turned
    <2>2. Turned(a) = [kind |-> "compare", lhs |-> a.rhs, rel |-> "lt", rhs |-> a.lhs]
      BY <2>1 DEF Comparison
    <2>3. QED BY <2>2, <1>0, <1>2 DEF Comparison, Relations, Compare
  <1>3. CASE a.rel \notin {"ge", "gt"}
    BY <1>0, <1>3 DEF Turned, Relations
  <1>4. QED BY <1>1, <1>2, <1>3

LEMMA DecidedMeans ==
  ASSUME NEW a \in Comparison, a.rel \in {"le", "lt", "eq", "ne"}, NEW p \in Points
  PROVE  Decided(a) \in Atom /\ (Holds(Decided(a), p) <=> Holds(a, p))
  <1>0. a.lhs.val[p] \in Int /\ a.rhs.val[p] \in Int /\ a.kind = "compare" /\ a \in Atom
    BY ExprValue DEF Comparison, Atom
  <1>1. CASE a.lhs = a.rhs
    <2>1. Decided(a) = Const(a.rel \in {"le", "eq"})
      BY <1>1 DEF Decided
    <2>2. Compare(a.lhs.val[p], a.rel, a.rhs.val[p]) <=> a.rel \in {"le", "eq"}
      BY <1>0, <1>1 DEF Compare
    <2>3. CASE a.rel \in {"le", "eq"}
      BY <2>1, <2>2, <2>3, <1>0, HoldsConst, HoldsCompare, ConstIsAtom
    <2>4. CASE a.rel \notin {"le", "eq"}
      <3>1. Decided(a) = Const(FALSE) BY <2>1, <2>4 DEF Const
      <3>2. QED BY <3>1, <2>2, <2>4, <1>0, HoldsConst, HoldsCompare, ConstIsAtom
    <2>5. QED BY <2>3, <2>4
  <1>2. CASE a.lhs # a.rhs /\ a.lhs.const /\ a.rhs.const
    <2>0. a.lhs.val[p] = a.lhs.val[Origin] /\ a.rhs.val[p] = a.rhs.val[Origin]
      BY <1>2, ExprValue DEF Comparison
    <2>1. Decided(a) = Const(Compare(a.lhs.val[p], a.rel, a.rhs.val[p]))
      BY <1>2, <2>0 DEF Decided
    <2>2. Compare(a.lhs.val[p], a.rel, a.rhs.val[p]) \in BOOLEAN
      BY <1>0 DEF Compare
    <2>3. CASE Compare(a.lhs.val[p], a.rel, a.rhs.val[p])
      <3>1. Decided(a) = Const(TRUE) BY <2>1, <2>3 DEF Const
      <3>2. QED BY <3>1, <2>3, <1>0, HoldsConst, HoldsCompare, ConstIsAtom
    <2>4. CASE ~Compare(a.lhs.val[p], a.rel, a.rhs.val[p])
      <3>1. Decided(a) = Const(FALSE) BY <2>1, <2>4 DEF Const
      <3>2. QED BY <3>1, <2>4, <1>0, HoldsConst, HoldsCompare, ConstIsAtom
    <2>5. QED BY <2>3, <2>4
  <1>3. CASE a.lhs # a.rhs /\ ~(a.lhs.const /\ a.rhs.const)
    BY <1>0, <1>3 DEF Decided
  <1>4. QED BY <1>1, <1>2, <1>3

(* The normal form of an atom is an atom that means the same. *)
LEMMA NormalAtomMeans ==
  ASSUME NEW a \in Atom, NEW p \in Points
  PROVE  NormalAtom(a) \in Atom /\ (Holds(NormalAtom(a), p) <=> Holds(a, p))
  <1>1. CASE a.kind = "compare"
    <2>1. a \in Comparison BY <1>1, AtomKinds
    <2>2. Turned(a).kind = "compare" BY <2>1, TurnedMeans DEF Comparison
    <2>3. Holds(Turned(a), p) <=> Holds(a, p)
      BY <2>1, <2>2, <1>1, TurnedMeans, HoldsCompare
    <2>4. QED BY <2>1, <2>3, <1>1, TurnedMeans, DecidedMeans DEF NormalAtom
  <1>2. CASE a.kind # "compare"
    BY <1>2 DEF NormalAtom
  <1>3. QED BY <1>1, <1>2

-----------------------------------------------------------------------------
(* Normal forms of claims                                                   *)

LEMMA ItemsOfAtom == ASSUME NEW a \in Atom PROVE a.kind # "and" /\ Items(a) = {a}
  BY AtomKinds DEF Items

LEMMA BodyKinds ==
  ASSUME NEW b \in Body
  PROVE  /\ b.kind = "and" => b.items \subseteq Atom
         /\ b.kind # "and" => b \in Atom
         /\ Items(b) \subseteq Atom
  <1>1. CASE b \in Atom
    BY <1>1, ItemsOfAtom
  <1>2. CASE b \in [kind : {"and"}, items : SUBSET Atom]
    BY <1>2 DEF Items
  <1>3. QED BY <1>1, <1>2 DEF Body

LEMMA AndBody == ASSUME NEW s \in SUBSET Atom PROVE [kind |-> "and", items |-> s] \in Body
  BY DEF Body

(* The normal form of a conjunction means what its members mean together. *)
LEMMA NormalAndMeans ==
  ASSUME NEW items \in SUBSET Atom, NEW p \in Points
  PROVE  /\ NormalAnd(items) \in Body
         /\ (\A a \in Items(NormalAnd(items)) : Holds(a, p)) <=> (\A a \in items : Holds(a, p))
  <1> DEFINE kept == {NormalAtom(a) : a \in items} \ {Const(TRUE)}
  <1>1. kept \subseteq Atom
    BY NormalAtomMeans
  <1>2. (\A a \in kept : Holds(a, p)) <=> (\A a \in items : Holds(a, p))
    <2>1. \A a \in items : Holds(NormalAtom(a), p) <=> Holds(a, p)
      BY NormalAtomMeans
    <2>2. QED BY <2>1, HoldsConst
  <1>3. CASE Const(FALSE) \in kept
    <2>1. NormalAnd(items) = Const(FALSE)
      BY <1>3 DEF NormalAnd
    <2>2. QED BY <2>1, <1>2, <1>3, ConstIsAtom, ItemsOfAtom, HoldsConst DEF Body
  <1>4. CASE Const(FALSE) \notin kept /\ kept = {}
    <2>1. NormalAnd(items) = Const(TRUE)
      BY <1>4 DEF NormalAnd
    <2>2. QED BY <2>1, <1>2, <1>4, ConstIsAtom, ItemsOfAtom, HoldsConst DEF Body
  <1>5. CASE Const(FALSE) \notin kept /\ kept # {} /\ \E a \in kept : kept = {a}
    <2>1. NormalAnd(items) = CHOOSE a \in kept : kept = {a}
      BY <1>5 DEF NormalAnd
    <2>2. NormalAnd(items) \in kept /\ kept = {NormalAnd(items)}
      BY <2>1, <1>5
    <2>3. QED BY <2>2, <1>1, <1>2, ItemsOfAtom DEF Body
  <1>6. CASE Const(FALSE) \notin kept /\ kept # {} /\ ~\E a \in kept : kept = {a}
    <2>1. NormalAnd(items) = [kind |-> "and", items |-> kept]
      BY <1>6 DEF NormalAnd
    <2>2. Items(NormalAnd(items)) = kept
      BY <2>1 DEF Items
    <2>3. NormalAnd(items) \in Body
      <3> HIDE DEF kept
      <3>1. QED BY <2>1, <1>1, AndBody
    <2>4. QED BY <2>2, <2>3, <1>2
  <1>7. QED BY <1>3, <1>4, <1>5, <1>6

LEMMA BoxPoints == \A binders : Box(binders) \subseteq Points
  BY DEF Box

(* Normalization keeps the meaning of a claim. *)
LEMMA NormalTruth ==
  ASSUME NEW c \in Claim
  PROVE  /\ Normal(c) \in Claim /\ Normal(c).binders = c.binders
         /\ Truth(Normal(c)) <=> Truth(c)
  <1> DEFINE b == IF c.body.kind = "and" THEN NormalAnd(c.body.items) ELSE NormalAtom(c.body)
  <1>1. c = [binders |-> c.binders, body |-> c.body] /\ c.body \in Body
        /\ c.binders \in Seq(Domain) /\ Len(c.binders) <= 2
    BY DEF Claim
  <1>2. Normal(c) = [binders |-> c.binders, body |-> b]
    BY <1>1 DEF Normal
  <1>3. ASSUME NEW p \in Points
        PROVE  (\A a \in Items(b) : Holds(a, p)) <=> (\A a \in Items(c.body) : Holds(a, p))
    <2>1. CASE c.body.kind = "and"
      BY <2>1, <1>1, BodyKinds, NormalAndMeans DEF Items
    <2>2. CASE c.body.kind # "and"
      BY <2>2, <1>1, BodyKinds, NormalAtomMeans, ItemsOfAtom
    <2>3. QED BY <2>1, <2>2
  <1>4. b \in Body
    <2>0. <<0, 0>> \in Points BY ProvingAssumption DEF Points
    <2>1. CASE c.body.kind = "and"
      BY <2>0, <2>1, <1>1, BodyKinds, NormalAndMeans
    <2>2. CASE c.body.kind # "and"
      BY <2>0, <2>2, <1>1, BodyKinds, NormalAtomMeans DEF Body
    <2>3. QED BY <2>1, <2>2
  <1>5. Normal(c) \in Claim
    BY <1>1, <1>2, <1>4 DEF Claim
  <1>6. QED BY <1>2, <1>3, <1>5, BoxPoints DEF Truth

LEMMA EmptyWithin == ASSUME NEW d \in Domain, Empty(d) PROVE Within(d) = {}
  <1>1. d.lo \in Int /\ d.hi \in Int /\ Coords \subseteq Int /\ d.known
    BY ProvingAssumption DEF Domain, Empty
  <1>2. ASSUME NEW w \in Within(d) PROVE FALSE
    BY <1>1, <1>2 DEF Within, Empty
  <1>3. QED BY <1>2

(* A claim that normalization decides to be true is true, also over a       *)
(* domain that is empty.                                                    *)
LEMMA TrueIsTrue ==
  ASSUME NEW c \in Claim, IsTrue(c) PROVE Truth(c)
  <1>0. c.body \in Body /\ Len(c.binders) \in Nat /\ Len(c.binders) <= 2
        /\ DOMAIN c.binders = 1..Len(c.binders)
    BY DEF Claim
  <1>1. CASE c.body.kind = "true"
    <2>1. c.body = Const(TRUE) BY <1>0, <1>1, BodyKinds, AtomKinds
    <2>2. QED BY <2>1, ConstIsAtom, ItemsOfAtom, HoldsConst DEF Truth
  <1>2. CASE \E i \in DOMAIN c.binders : Empty(c.binders[i])
    <2>1. PICK i \in DOMAIN c.binders : Empty(c.binders[i])
      BY <1>2
    <2>2. c.binders[i] \in Domain /\ i \in 1..2 /\ i <= Len(c.binders)
      BY <1>0, <2>1 DEF Claim
    <2>3. Within(c.binders[i]) = {}
      BY <2>1, <2>2, EmptyWithin
    <2>4. Box(c.binders) = {}
      BY <2>2, <2>3 DEF Box
    <2>5. QED BY <2>4 DEF Truth
  <1>3. QED BY <1>1, <1>2 DEF IsTrue

(* Every integer variable has a closed domain. *)
ClosedIntegers(c) == \A i \in DOMAIN c.binders : c.binders[i].sort = "integer" => c.binders[i].closed

LEMMA Inhabited ==
  ASSUME NEW d \in Domain, d.known, ~Empty(d), d.sort = "integer" => d.closed
  PROVE  \E w \in Coords : w \in Within(d)
  <1>0. d.lo \in Coords /\ d.hi \in Coords /\ d.lo \in Int /\ d.hi \in Int /\ d.lo % 2 = 0
        /\ d.hi % 2 = 0 /\ d.lo <= d.hi /\ d.sort \in {"real", "integer"} /\ d.closed \in BOOLEAN
    BY ProvingAssumption DEF Domain
  <1>1. CASE d.closed
    BY <1>0, <1>1 DEF Within
  <1>2. CASE ~d.closed
    <2>1. d.lo < d.hi BY <1>0, <1>2 DEF Empty
    <2>2. d.lo + 1 < d.hi BY <2>1, <1>0
    <2>3. d.lo + 1 \in d.lo..d.hi BY <2>2, <1>0
    <2>4. d.lo + 1 \in Coords BY <2>3, <1>0, ProvingAssumption
    <2>5. QED BY <2>2, <2>4, <1>0, <1>2 DEF Within
  <1>3. QED BY <1>1, <1>2

(* A claim that normalization decides to be false is false, unless an       *)
(* integer ranges over an open interval.                                    *)
LEMMA FalseIsFalse ==
  ASSUME NEW c \in Claim, IsFalse(c), ClosedIntegers(c) PROVE ~Truth(c)
  <1>0. c.body \in Body /\ Len(c.binders) \in Nat /\ Len(c.binders) <= 2
        /\ DOMAIN c.binders = 1..Len(c.binders)
    BY DEF Claim
  <1>1. c.body = Const(FALSE) /\ Items(c.body) = {Const(FALSE)}
    BY <1>0, BodyKinds, AtomKinds, ItemsOfAtom DEF IsFalse
  <1>2. \A i \in DOMAIN c.binders : \E w \in Coords : w \in Within(c.binders[i])
    BY Inhabited DEF IsFalse, ClosedIntegers, Claim
  <1>3. \A i \in 1..2 : \E w \in Coords : IF i <= Len(c.binders) THEN w \in Within(c.binders[i]) ELSE w = 0
    BY <1>0, <1>2, ProvingAssumption
  <1>4. PICK w1 \in Coords : IF 1 <= Len(c.binders) THEN w1 \in Within(c.binders[1]) ELSE w1 = 0
    BY <1>3
  <1>5. PICK w2 \in Coords : IF 2 <= Len(c.binders) THEN w2 \in Within(c.binders[2]) ELSE w2 = 0
    BY <1>3
  <1>6. <<w1, w2>> \in Box(c.binders)
    BY <1>4, <1>5 DEF Box, Points
  <1>7. QED BY <1>1, <1>6, HoldsConst DEF Truth

-----------------------------------------------------------------------------
(* Bound plans                                                              *)

LEMMA DifferenceExpr ==
  ASSUME NEW a \in Expr, NEW b \in Expr, NEW p \in Points
  PROVE  Difference(a, b) \in Expr /\ Difference(a, b).val[p] = a.val[p] - b.val[p]
  <1>1. a.val \in [Points -> Int] /\ b.val \in [Points -> Int]
    BY DEF Expr
  <1>2. [q \in Points |-> a.val[q] - b.val[q]] \in [Points -> Int]
    BY <1>1
  <1>3. a.external \in BOOLEAN /\ b.external \in BOOLEAN /\ a.plain \in BOOLEAN /\ b.plain \in BOOLEAN
    BY DEF Expr
  <1>4. Difference(a, b).val = [q \in Points |-> a.val[q] - b.val[q]]
    BY DEF Difference
  <1>5. Difference(a, b) \in Expr
    BY <1>2, <1>3 DEF Difference, Expr
  <1>6. QED BY <1>4, <1>5

LEMMA GoalIsGoal ==
  ASSUME NEW e \in Expr, NEW dir \in Directions, NEW b \in Int, NEW s \in BOOLEAN
  PROVE  [expr |-> e, dir |-> dir, bound |-> b, strict |-> s] \in Goal
  BY DEF Goal

(* Lowering a comparison keeps its meaning: its strictness, and which side  *)
(* is the bound.                                                            *)
LEMMA LoweredMeans ==
  ASSUME NEW a \in Comparison, a.rel \in {"le", "lt"}, NEW p \in Points
  PROVE  /\ Lowered(a) \in Goal
         /\ Meets(Lowered(a), p) <=> Holds(a, p)
  <1>1. a.lhs \in Expr /\ a.rhs \in Expr /\ a.lhs.val[p] \in Int /\ a.rhs.val[p] \in Int
        /\ a.lhs.const \in BOOLEAN /\ a.rhs.const \in BOOLEAN /\ a.kind = "compare"
    BY ExprValue DEF Comparison, Expr
  <1>2. Holds(a, p) <=> (a.lhs.val[p] < a.rhs.val[p] \/ (a.lhs.val[p] = a.rhs.val[p] /\ a.rel = "le"))
    BY <1>1, HoldsCompare DEF Compare
  <1>3. CASE a.rhs.const
    <2>1. Lowered(a) = [expr |-> a.lhs, dir |-> "upper", bound |-> a.rhs.val[Origin],
                        strict |-> (a.rel = "lt")]
      BY <1>3 DEF Lowered
    <2>2. a.rhs.val[Origin] = a.rhs.val[p] /\ a.rhs.val[Origin] \in Int /\ a.lhs \in Expr
      BY <1>1, <1>3, ExprValue
    <2>3. "upper" \in Directions /\ (a.rel = "lt") \in BOOLEAN
      BY DEF Directions
    <2>4. Lowered(a) \in Goal
      BY <2>1, <2>2, <2>3, GoalIsGoal, Zenon
    <2>7. /\ Lowered(a).expr = a.lhs /\ Lowered(a).dir = "upper"
          /\ Lowered(a).bound = a.rhs.val[Origin] /\ Lowered(a).strict = (a.rel = "lt")
      BY <2>1
    <2>5. Meets(Lowered(a), p)
            <=> (a.lhs.val[p] < a.rhs.val[Origin] \/ (a.lhs.val[p] = a.rhs.val[Origin] /\ ~(a.rel = "lt")))
      BY <2>3, <2>7 DEF Meets
    <2>6. QED BY <2>2, <2>4, <2>5, <1>1, <1>2
  <1>4. CASE ~a.rhs.const /\ a.lhs.const
    <2>1. Lowered(a) = [expr |-> a.rhs, dir |-> "lower", bound |-> a.lhs.val[Origin],
                        strict |-> (a.rel = "lt")]
      BY <1>4 DEF Lowered
    <2>2. a.lhs.val[Origin] = a.lhs.val[p] /\ a.lhs.val[Origin] \in Int /\ a.rhs \in Expr
      BY <1>1, <1>4, ExprValue
    <2>3. "lower" \in Directions /\ (a.rel = "lt") \in BOOLEAN
      BY DEF Directions
    <2>4. Lowered(a) \in Goal
      BY <2>1, <2>2, <2>3, GoalIsGoal, Zenon
    <2>7. /\ Lowered(a).expr = a.rhs /\ Lowered(a).dir = "lower"
          /\ Lowered(a).bound = a.lhs.val[Origin] /\ Lowered(a).strict = (a.rel = "lt")
      BY <2>1
    <2>5. Meets(Lowered(a), p)
            <=> (a.lhs.val[Origin] < a.rhs.val[p] \/ (a.rhs.val[p] = a.lhs.val[Origin] /\ ~(a.rel = "lt")))
      BY <2>3, <2>7 DEF Meets
    <2>6. QED BY <2>2, <2>4, <2>5, <1>1, <1>2
  <1>5. CASE ~a.rhs.const /\ ~a.lhs.const
    <2>1. Lowered(a) = [expr |-> Difference(a.lhs, a.rhs), dir |-> "upper", bound |-> 0,
                        strict |-> (a.rel = "lt")]
      BY <1>5 DEF Lowered
    <2>2. Difference(a.lhs, a.rhs) \in Expr /\ 0 \in Int
          /\ Difference(a.lhs, a.rhs).val[p] = a.lhs.val[p] - a.rhs.val[p]
      BY <1>1, DifferenceExpr
    <2>3. "upper" \in Directions /\ (a.rel = "lt") \in BOOLEAN
      BY DEF Directions
    <2>4. Lowered(a) \in Goal
      BY <2>1, <2>2, <2>3, GoalIsGoal, Zenon
    <2>7. /\ Lowered(a).expr = Difference(a.lhs, a.rhs) /\ Lowered(a).dir = "upper"
          /\ Lowered(a).bound = 0 /\ Lowered(a).strict = (a.rel = "lt")
      BY <2>1
    <2>5. Meets(Lowered(a), p)
            <=> (Difference(a.lhs, a.rhs).val[p] < 0 \/ (Difference(a.lhs, a.rhs).val[p] = 0 /\ ~(a.rel = "lt")))
      BY <2>3, <2>7 DEF Meets
    <2>6. QED BY <2>2, <2>4, <2>5, <1>1, <1>2
  <1>6. QED BY <1>3, <1>4, <1>5

(* The plan of a claim has one goal for each direction asked. *)
LEMMA PlanGoals ==
  ASSUME NEW c \in Claim, Plannable(c), NEW p, p = PlanOf(c)
  PROVE  /\ p.goals \subseteq Goal /\ p.axes \in Seq(Domain)
         /\ \A g, h \in p.goals : g.dir = h.dir => g = h
  <1>0. <<0, 0>> \in Points BY ProvingAssumption DEF Points
  <1>1. c.body \in Body /\ Items(c.body) \subseteq Atom
    BY BodyKinds DEF Claim
  <1>2. \A a \in Items(c.body) : a \in Comparison /\ a.rel \in {"le", "lt"}
    BY <1>1, AtomKinds DEF Plannable
  <1>3. p.goals = {Lowered(a) : a \in Items(c.body)} /\ p.axes = c.binders
    BY DEF PlanOf
  <1>4. p.goals \subseteq Goal
    BY <1>0, <1>2, <1>3, LoweredMeans
  <1>5. \A g, h \in p.goals : g.dir = h.dir => g = h
    BY <1>3 DEF Plannable
  <1>6. QED BY <1>3, <1>4, <1>5 DEF Claim

LEMMA GoalOfIts ==
  ASSUME NEW c \in Claim, Plannable(c), plan = PlanOf(c), NEW d \in Asked
  PROVE  /\ GoalOf(d) \in plan.goals /\ GoalOf(d) \in Goal /\ GoalOf(d).dir = d
         /\ \A g \in plan.goals : g.dir = d => g = GoalOf(d)
  <1>1. \E g \in plan.goals : g.dir = d
    BY DEF Asked
  <1>2. GoalOf(d) \in plan.goals /\ GoalOf(d).dir = d
    BY <1>1 DEF GoalOf
  <1>3. QED BY <1>2, PlanGoals

(* A claim that has a bound plan is true when every goal of it is met. *)
LEMMA PlanTruth ==
  ASSUME NEW c \in Claim, Plannable(c), NEW p, p = PlanOf(c)
  PROVE  /\ p.axes = c.binders
         /\ Truth(c) <=> \A g \in p.goals : \A x \in Box(p.axes) : Meets(g, x)
  <1>1. Items(c.body) \subseteq Atom
    BY BodyKinds DEF Claim
  <1>2. \A a \in Items(c.body) : a \in Comparison /\ a.rel \in {"le", "lt"}
    BY <1>1, AtomKinds DEF Plannable
  <1>3. p.goals = {Lowered(a) : a \in Items(c.body)} /\ p.axes = c.binders
    BY DEF PlanOf
  <1>4. \A x \in Box(c.binders) : \A a \in Items(c.body) : Meets(Lowered(a), x) <=> Holds(a, x)
    BY <1>2, BoxPoints, LoweredMeans
  <1>5. QED BY <1>3, <1>4 DEF Truth

-----------------------------------------------------------------------------
(* Children                                                                 *)

LEMMA WeakIsComparison == ASSUME NEW l \in Expr, NEW r \in Expr PROVE Weak(l, r) \in Comparison
  BY DEF Weak, Comparison, Relations

(* A claim about one atom, over the domains of c. *)
LEMMA WithBody ==
  ASSUME NEW c \in Claim, NEW a \in Atom
  PROVE  /\ [c EXCEPT !.body = a] \in Claim
         /\ [c EXCEPT !.body = a].binders = c.binders
         /\ Truth([c EXCEPT !.body = a]) <=> \A p \in Box(c.binders) : Holds(a, p)
  <1>1. c = [binders |-> c.binders, body |-> c.body] /\ c.binders \in Seq(Domain) /\ Len(c.binders) <= 2
    BY DEF Claim
  <1>2. [c EXCEPT !.body = a] = [binders |-> c.binders, body |-> a]
    BY <1>1
  <1>3. [c EXCEPT !.body = a] \in Claim
    BY <1>1, <1>2 DEF Claim, Body
  <1>4. QED BY <1>2, <1>3, ItemsOfAtom DEF Truth

(* Splitting a conjunction or an equality keeps its meaning. *)
LEMMA SplitTruth ==
  ASSUME NEW c \in Claim, Splits(c)
  PROVE  /\ Children(c) \subseteq Claim
         /\ \A k \in Children(c) : k.binders = c.binders
         /\ Truth(c) <=> \A k \in Children(c) : Truth(k)
  <1>0. c.body \in Body BY DEF Claim
  <1>1. CASE c.body.kind = "and"
    <2>1. c.body.items \subseteq Atom /\ Items(c.body) = c.body.items
      BY <1>0, <1>1, BodyKinds DEF Items
    <2>2. Children(c) = {Normal([c EXCEPT !.body = a]) : a \in c.body.items}
      BY <1>1 DEF Children
    <2>3. \A a \in c.body.items :
            /\ Normal([c EXCEPT !.body = a]) \in Claim
            /\ Normal([c EXCEPT !.body = a]).binders = c.binders
            /\ Truth(Normal([c EXCEPT !.body = a])) <=> \A p \in Box(c.binders) : Holds(a, p)
      BY <2>1, WithBody, NormalTruth
    <2>4. Truth(c) <=> \A a \in c.body.items : \A p \in Box(c.binders) : Holds(a, p)
      BY <2>1 DEF Truth
    <2>5. Truth(c) <=> \A a \in c.body.items : Truth(Normal([c EXCEPT !.body = a]))
      BY <2>3, <2>4
    <2>6. Children(c) \subseteq Claim
      BY <2>2, <2>3
    <2>7. ASSUME NEW k \in Children(c) PROVE k.binders = c.binders
      <3>1. PICK a \in c.body.items : k = Normal([c EXCEPT !.body = a])
        BY <2>2
      <3>2. QED BY <3>1, <2>3
    <2>8. Truth(c) <=> \A k \in Children(c) : Truth(k)
      BY <2>2, <2>5
    <2>9. QED BY <2>6, <2>7, <2>8
  <1>2. CASE c.body.kind # "and"
    <2> DEFINE le == Weak(c.body.lhs, c.body.rhs)
               ge == Weak(c.body.rhs, c.body.lhs)
    <2>1. c.body \in Comparison /\ c.body.rel = "eq" /\ Items(c.body) = {c.body}
      BY <1>0, <1>2, BodyKinds, AtomKinds, ItemsOfAtom DEF Splits, Equality
    <2>2. Children(c) = {Normal([c EXCEPT !.body = le]), Normal([c EXCEPT !.body = ge])}
      BY <1>2 DEF Children
    <2>3. c.body.lhs \in Expr /\ c.body.rhs \in Expr
      BY <2>1 DEF Comparison
    <2>4. le \in Atom /\ ge \in Atom
      BY <2>3, WeakIsComparison DEF Atom
    <2>5. ASSUME NEW p \in Points PROVE Holds(c.body, p) <=> (Holds(le, p) /\ Holds(ge, p))
      <3>1. c.body.lhs.val[p] \in Int /\ c.body.rhs.val[p] \in Int
        BY <2>3, ExprValue
      <3>2. QED BY <3>1, <2>1, HoldsCompare DEF Weak, Compare, Comparison
    <2>6. \A a \in {le, ge} :
            /\ Normal([c EXCEPT !.body = a]) \in Claim
            /\ Normal([c EXCEPT !.body = a]).binders = c.binders
            /\ Truth(Normal([c EXCEPT !.body = a])) <=> \A p \in Box(c.binders) : Holds(a, p)
      BY <2>4, WithBody, NormalTruth
    <2>7. Truth(c) <=> \A p \in Box(c.binders) : Holds(c.body, p)
      BY <2>1 DEF Truth
    <2>8. QED BY <2>2, <2>5, <2>6, <2>7, BoxPoints
  <1>3. QED BY <1>1, <1>2

-----------------------------------------------------------------------------
(* The inductive invariant                                                  *)

(* A conjunction whose children are being proved: those that have a result  *)
(* are true as long as the conjunction is sound.  busy: children under way. *)
FrameOK(fr, busy) ==
    /\ Splits(fr.of) /\ fr.todo \subseteq Children(fr.of)
    /\ fr.sound => \A c \in Children(fr.of) \ (fr.todo \cup busy) : Truth(c)

(* What is under way inside the i-th frame. *)
Under(i) == IF i > 1 THEN {frames[i - 1].of} ELSE IF pc = "children" THEN {} ELSE {current}

(* What the whole call is proving. *)
Root == IF frames = << >> THEN current ELSE frames[Len(frames)].of

AllClosed == \A c \in Claims : ClosedIntegers(c)

Stack ==
    /\ pc = "idle" => frames = << >>
    /\ \A i \in 1..Len(frames) : FrameOK(frames[i], Under(i))
    /\ pc # "idle" => (Truth(Root) <=> Truth(claim))
    /\ AllClosed => /\ ClosedIntegers(current)
                    /\ \A i \in 1..Len(frames) : ClosedIntegers(frames[i].of)

Answered == pc = "done" /\ answer.kind # "raised" => frames = << >> /\ answer.of = current

InPlan == pc \in {"check", "point", "probe", "refute"}

(* The plan is of the current claim, and what its checks verified holds. *)
Planned ==
    /\ InPlan => /\ Plannable(current) /\ plan = PlanOf(current)
                 /\ \A g \in plan.goals : checks[g.dir] = "verified" =>
                      \A x \in Box(plan.axes) : Meets(g, x)
    /\ pc \in {"point", "probe", "refute"} => plan.goals # {}

(* b is twice a bound that, checked in the other direction at a point,      *)
(* shows that g fails there.                                                *)
Against(g, b) ==
    IF g.dir = "upper" THEN 2 * g.bound < b \/ (g.strict /\ 2 * g.bound = b)
    ELSE b < 2 * g.bound \/ (g.strict /\ 2 * g.bound = b)

Searching ==
    /\ pc \in {"probe", "refute"} =>
         tried \in 1..GridSize /\ \E g \in plan.goals : g.dir = probing
    /\ pc = "refute" =>
         opposite # {} /\ \A g \in plan.goals : g.dir = probing => \A b \in opposite : Against(g, b)

Meaning == ProvedTrue /\ (AllClosed => RefutedFalse)

IInv == TypeOK /\ Stack /\ Answered /\ Planned /\ Searching /\ Meaning

-----------------------------------------------------------------------------
(* Steps of the stack                                                       *)

Marked(fs, b) == [fs EXCEPT ![1].sound = @ /\ b]

OnlyMarked(fs, new, b) ==
    /\ new \in Seq(Frame) /\ Len(new) = Len(fs)
    /\ \A i \in 1..Len(fs) : new[i].of = fs[i].of
    /\ new[1].todo = fs[1].todo
    /\ new[1].sound <=> (fs[1].sound /\ b)
    /\ \A i \in 2..Len(fs) : new[i] = fs[i]

LEMMA ReplaceFirst ==
  ASSUME NEW fs \in Seq(Frame), fs # << >>, NEW f \in Frame, f.of = fs[1].of
  PROVE  LET new == [fs EXCEPT ![1] = f] IN
         /\ new \in Seq(Frame) /\ Len(new) = Len(fs) /\ new[1] = f
         /\ \A i \in 1..Len(fs) : new[i].of = fs[i].of
         /\ \A i \in 2..Len(fs) : new[i] = fs[i]
  <1>1. Len(fs) \in Nat /\ 1 \in 1..Len(fs) /\ DOMAIN fs = 1..Len(fs)
    OBVIOUS
  <1> DEFINE new == [fs EXCEPT ![1] = f]
  <1>2. new \in Seq(Frame) /\ Len(new) = Len(fs)
    BY <1>1
  <1>3. new[1] = f /\ \A i \in 2..Len(fs) : new[i] = fs[i]
    BY <1>1
  <1>4. \A i \in 1..Len(fs) : new[i].of = fs[i].of
    <2>1. \A i \in 1..Len(fs) : i = 1 \/ i \in 2..Len(fs)
      BY <1>1
    <2> HIDE DEF new
    <2>2. QED BY <2>1, <1>3
  <1>5. QED BY <1>2, <1>3, <1>4

(* Marking the innermost frame changes its soundness only. *)
LEMMA MarkFrame ==
  ASSUME NEW fs \in Seq(Frame), fs # << >>, NEW b \in BOOLEAN
  PROVE  OnlyMarked(fs, Marked(fs, b), b)
  <1>1. fs[1] \in Frame
    OBVIOUS
  <1> DEFINE f == [fs[1] EXCEPT !.sound = @ /\ b]
  <1>2. f \in Frame /\ f.of = fs[1].of /\ f.todo = fs[1].todo /\ f.sound = (fs[1].sound /\ b)
    BY <1>1 DEF Frame
  <1> DEFINE new == [fs EXCEPT ![1] = f]
  <1>3. Marked(fs, b) = new
    BY DEF Marked
  <1> HIDE DEF f
  <1>4. /\ new \in Seq(Frame) /\ Len(new) = Len(fs) /\ new[1] = f
        /\ \A i \in 1..Len(fs) : new[i].of = fs[i].of
        /\ \A i \in 2..Len(fs) : new[i] = fs[i]
    BY <1>2, ReplaceFirst
  <1> HIDE DEF new
  <1>5. QED BY <1>2, <1>3, <1>4 DEF OnlyMarked

(* A result for the current claim that it deserves. *)
GiveWell ==
    \E kind \in Kinds :
      /\ Give(kind)
      /\ kind \in Established => Truth(current)
      /\ kind \in {"rejected", "false"} /\ AllClosed => ~Truth(current)

LEMMA GiveKeeps ==
  ASSUME IInv, GiveWell, Kept, pc \notin {"idle", "done", "children"},
         UNCHANGED <<plan, checks, search>>
  PROVE  IInv'
  <1> USE DEF IInv
  <1> PICK kind \in Kinds :
        /\ Give(kind)
        /\ kind \in Established => Truth(current)
        /\ kind \in {"rejected", "false"} /\ AllClosed => ~Truth(current)
    BY DEF GiveWell
  <1>0. /\ current \in Claim /\ claim \in Claim /\ frames \in Seq(Frame)
        /\ current' = current /\ claim' = claim
        /\ answer' = [of |-> current, kind |-> kind]
    BY DEF TypeOK, Kept, Give
  <1>1. CASE frames = << >>
    <2>1. pc' = "done" /\ frames' = frames
      BY <1>1 DEF Give
    <2>2. TypeOK'
      BY <2>1, <1>0 DEF TypeOK, Kept, search
    <2>3. Stack'
      BY <2>1, <1>0, <1>1 DEF Stack, Root, Under
    <2>4. (Answered /\ Planned /\ Searching)'
      BY <2>1, <1>0, <1>1 DEF Answered, Planned, Searching, InPlan
    <2>5. Meaning'
      BY <1>0 DEF Meaning, ProvedTrue, RefutedFalse
    <2>6. QED BY <2>2, <2>3, <2>4, <2>5
  <1>2. CASE frames # << >>
    <2>1. /\ pc' = "children" /\ Len(frames) \in Nat /\ Len(frames) >= 1
          /\ frames' = [frames EXCEPT ![1].sound = @ /\ kind \in Established]
      BY <1>0, <1>2 DEF Give
    <2>3. /\ frames' \in Seq(Frame) /\ Len(frames') = Len(frames)
          /\ \A i \in 1..Len(frames) : frames'[i].of = frames[i].of
          /\ frames'[1].todo = frames[1].todo
          /\ frames'[1].sound <=> (frames[1].sound /\ kind \in Established)
          /\ \A i \in 2..Len(frames) : frames'[i] = frames[i]
      <3>1. (kind \in Established) \in BOOLEAN
        OBVIOUS
      <3>2. frames \in Seq(Frame) /\ frames # << >>
        BY <1>0, <1>2
      <3>3. frames' = Marked(frames, kind \in Established)
        BY <2>1 DEF Marked
      <3>4. OnlyMarked(frames, frames', kind \in Established)
        BY <3>1, <3>2, <3>3, MarkFrame, Zenon
      <3>5. QED BY <3>4 DEF OnlyMarked
    <2>4. TypeOK'
      BY <2>1, <2>3, <1>0 DEF TypeOK, Kept, search
    <2>5. 1 \in 1..Len(frames) /\ \A i \in 1..Len(frames) : frames'[i].of = frames[i].of
      BY <2>3, <2>1
    <2>6. \A i \in 1..Len(frames') : FrameOK(frames'[i], Under(i)')
      <3>0. Under(1) = {current} /\ \A i \in 2..Len(frames) : Under(i) = {frames[i - 1].of}
        BY DEF Under
      <3>1. FrameOK(frames[1], {current})
        BY <3>0, <2>5 DEF Stack
      <3>2. FrameOK(frames'[1], {})
        BY <3>1, <2>3, <2>5 DEF FrameOK
      <3>3. \A i \in 2..Len(frames) : Under(i)' = {frames[i - 1].of}
        BY <2>1, <2>5 DEF Under
      <3>4. ASSUME NEW i \in 2..Len(frames) PROVE FrameOK(frames[i], {frames[i - 1].of})
        <4>1. Under(i) = {frames[i - 1].of} /\ i \in 1..Len(frames)
          BY <3>0, <2>1
        <4>2. FrameOK(frames[i], Under(i))
          BY <4>1 DEF Stack
        <4>3. QED BY <4>1, <4>2
      <3>5. Under(1)' = {}
        BY <2>1 DEF Under
      <3>6. \A i \in 2..Len(frames') : FrameOK(frames'[i], Under(i)')
        BY <3>3, <3>4, <2>3
      <3>7. \A i \in 1..Len(frames') : i = 1 \/ i \in 2..Len(frames')
        BY <2>1, <2>3
      <3>8. QED BY <3>2, <3>5, <3>6, <3>7
    <2>7. Root' = Root
      BY <1>2, <2>1, <2>3, <2>5 DEF Root
    <2>8. Stack'
      BY <2>1, <2>3, <2>5, <2>6, <2>7, <1>0 DEF Stack
    <2>9. (Answered /\ Planned /\ Searching)'
      BY <2>1 DEF Answered, Planned, Searching, InPlan
    <2>10. Meaning'
      BY <1>0 DEF Meaning, ProvedTrue, RefutedFalse
    <2>11. QED BY <2>4, <2>8, <2>9, <2>10
  <1>3. QED BY <1>1, <1>2

LEMMA RaiseKeeps ==
  ASSUME IInv, Raise, Kept, pc \notin {"idle", "done", "children"},
         UNCHANGED <<plan, checks, search>>
  PROVE  IInv'
  <1> USE DEF IInv
  <1>1. /\ pc' = "done" /\ UNCHANGED <<frames, current, claim>>
        /\ answer' = [of |-> claim, kind |-> "raised"]
    BY DEF Raise, Kept
  <1>2. TypeOK'
    BY <1>1 DEF TypeOK, Kept, search, Kinds
  <1>3. Stack'
    BY <1>1 DEF Stack, Root, Under
  <1>4. (Answered /\ Planned /\ Searching)'
    BY <1>1 DEF Answered, Planned, Searching, InPlan
  <1>5. Meaning'
    BY <1>1 DEF Meaning, ProvedTrue, RefutedFalse, Established
  <1>6. QED BY <1>2, <1>3, <1>4, <1>5

(* Steps within the plan that leave the stack and the answer alone. *)
LEMMA StackKept ==
  ASSUME Stack, Answered, Meaning, Kept, UNCHANGED <<frames, answer>>,
         pc \notin {"idle", "done", "children"}, pc' \notin {"idle", "done", "children"}
  PROVE  (Stack /\ Answered /\ Meaning)'
  <1>1. UNCHANGED <<current, claim>>
    BY DEF Kept
  <1>2. Stack'
    BY <1>1 DEF Stack, Root, Under
  <1>3. Answered' /\ Meaning'
    BY <1>1 DEF Answered, Meaning, ProvedTrue, RefutedFalse
  <1>4. QED BY <1>2, <1>3

-----------------------------------------------------------------------------
(* Refutation                                                               *)

LEMMA AxisPointsWithin ==
  ASSUME TypeOK, Plannable(current), plan = PlanOf(current), NEW i \in 1..2
  PROVE  /\ Len(AxisPoints(i)) \in {1, 3}
         /\ \A j \in 1..Len(AxisPoints(i)) :
              IF i <= Len(plan.axes) THEN AxisPoints(i)[j] \in Within(plan.axes[i])
              ELSE AxisPoints(i)[j] = 0
  <1>0. plan.axes = current.binders /\ plan.axes \in Seq(Domain) /\ Len(plan.axes) \in Nat
    BY DEF PlanOf, TypeOK, Claim
  <1>1. CASE i > Len(plan.axes)
    <2>1. AxisPoints(i) = <<0>>
      BY <1>1 DEF AxisPoints
    <2>2. QED BY <2>1, <1>0, <1>1
  <1>2. CASE i <= Len(plan.axes)
    <2> DEFINE d == plan.axes[i]
    <2>1. d \in Domain /\ d.sort = "real" /\ d.known /\ d.closed
      BY <1>0, <1>2 DEF Plannable
    <2>2. d.lo \in Int /\ d.hi \in Int /\ d.lo \in Coords /\ d.hi \in Coords /\ d.lo <= d.hi
          /\ d.lo..d.hi \subseteq Coords
      BY <2>1, ProvingAssumption DEF Domain
    <2>3. d.lo..d.hi \subseteq Within(d)
      BY <2>1, <2>2 DEF Within
    <2>4. AxisPoints(i) = IF d.lo = d.hi THEN <<d.lo>> ELSE <<(d.lo + d.hi) \div 2, d.lo, d.hi>>
      BY <1>0, <1>2 DEF AxisPoints
    <2> HIDE DEF d
    <2>5. CASE d.lo = d.hi
      <3>1. AxisPoints(i) = <<d.lo>> BY <2>4, <2>5
      <3>2. d.lo \in Within(d) BY <2>2, <2>3
      <3>3. QED BY <3>1, <3>2, <1>2 DEF d
    <2>6. CASE d.lo # d.hi
      <3>1. AxisPoints(i) = <<(d.lo + d.hi) \div 2, d.lo, d.hi>> BY <2>4, <2>6
      <3>2. (d.lo + d.hi) \div 2 \in d.lo..d.hi BY <2>2
      <3>3. d.lo \in Within(d) /\ d.hi \in Within(d) /\ (d.lo + d.hi) \div 2 \in Within(d)
        BY <2>2, <2>3, <3>2
      <3>4. QED BY <3>1, <3>3, <1>2 DEF d
    <2>7. QED BY <2>5, <2>6
  <1>3. QED BY <1>0, <1>1, <1>2

(* Every point that the search visits lies in the box of the plan. *)
LEMMA GridPointInBox ==
  ASSUME TypeOK, Plannable(current), plan = PlanOf(current), tried \in 1..GridSize
  PROVE  GridPoint(tried) \in Box(plan.axes)
  <1> DEFINE m == Len(AxisPoints(1))
             n == Len(AxisPoints(2))
             i == ((tried - 1) \div n) + 1
             j == ((tried - 1) % n) + 1
  <1>1. m \in {1, 3} /\ n \in {1, 3} /\ tried \in 1..(m * n)
    BY AxisPointsWithin DEF GridSize
  <1>2. i \in 1..m /\ j \in 1..n
    <2> HIDE DEF m, n
    <2>1. CASE n = 1 BY <1>1, <2>1
    <2>2. CASE n = 3 /\ m = 1 BY <1>1, <2>2
    <2>3. CASE n = 3 /\ m = 3 BY <1>1, <2>3
    <2>4. QED BY <1>1, <2>1, <2>2, <2>3
  <1>3. GridPoint(tried) = <<AxisPoints(1)[i], AxisPoints(2)[j]>>
    BY DEF GridPoint
  <1> DEFINE u == AxisPoints(1)[i]
             v == AxisPoints(2)[j]
  <1>4. IF 1 <= Len(plan.axes) THEN u \in Within(plan.axes[1]) ELSE u = 0
    BY <1>2, AxisPointsWithin
  <1>5. IF 2 <= Len(plan.axes) THEN v \in Within(plan.axes[2]) ELSE v = 0
    BY <1>2, AxisPointsWithin
  <1>6. u \in Coords /\ v \in Coords
    BY <1>4, <1>5, ProvingAssumption DEF Within
  <1>7. GridPoint(tried) = <<u, v>>
    BY <1>3
  <1> HIDE DEF u, v
  <1>8. QED BY <1>4, <1>5, <1>6, <1>7 DEF Box, Points

(* A bound that is passed in the other direction at a point fails there. *)
LEMMA AgainstFails ==
  ASSUME NEW g \in Goal, NEW x \in Points, NEW b \in Int, Against(g, b),
         IF g.dir = "upper" THEN b <= 2 * g.expr.val[x] ELSE 2 * g.expr.val[x] <= b
  PROVE  ~Meets(g, x)
  <1>1. g.expr.val[x] \in Int /\ g.bound \in Int
    BY ExprValue DEF Goal
  <1>2. QED BY <1>1 DEF Against, Meets

(* The opposite bound that an enclosure suggests is against the goal. *)
LEMMA OppositeAgainst ==
  ASSUME NEW g \in Goal, NEW lo \in Int, NEW hi \in Int
  PROVE  Opposite(g, lo, hi) \subseteq Int /\ \A b \in Opposite(g, lo, hi) : Against(g, b)
  <1>1. g.bound \in Int /\ g.dir \in Directions /\ g.strict \in BOOLEAN
    BY DEF Goal
  <1>2. CASE g.dir = "upper"
    BY <1>1, <1>2 DEF Opposite, Against
  <1>3. CASE g.dir # "upper"
    BY <1>1, <1>3 DEF Opposite, Against
  <1>4. QED BY <1>2, <1>3

-----------------------------------------------------------------------------
(* Routes                                                                   *)

LEMMA RaisedIsKind == "raised" \in Kinds /\ "raised" \notin Established /\ Established \subseteq Kinds
  BY DEF Kinds, Established

LEMMA ProveKeeps == ASSUME IInv, Prove PROVE IInv'
  <1> USE DEF IInv
  <1>1. /\ claim' \in Claim /\ current' = Normal(claim') /\ frames = << >> /\ frames' = << >>
        /\ pc' \in {"route", "done"} /\ UNCHANGED <<caps, refuting, plan, checks, search>>
        /\ AllClosed => ClosedIntegers(claim')
        /\ \/ pc' = "route" /\ UNCHANGED answer
           \/ pc' = "done" /\ answer' = [of |-> claim', kind |-> "raised"]
    BY ProvingAssumption DEF Prove, Stack, AllClosed
  <1>2. current' \in Claim /\ (Truth(current') <=> Truth(claim')) /\ current'.binders = claim'.binders
    BY <1>1, NormalTruth
  <1>3. TypeOK'
    BY <1>1, <1>2, RaisedIsKind DEF TypeOK, search
  <1>4. AllClosed => ClosedIntegers(current')
    BY <1>1, <1>2 DEF ClosedIntegers
  <1>5. Stack'
    BY <1>1, <1>2, <1>4 DEF Stack, Root
  <1>6. (Answered /\ Planned /\ Searching)'
    BY <1>1 DEF Answered, Planned, Searching, InPlan
  <1>7. Meaning'
    BY <1>1, RaisedIsKind DEF Meaning, ProvedTrue, RefutedFalse
  <1>8. QED BY <1>3, <1>5, <1>6, <1>7

LEMMA DecideKeeps == ASSUME IInv, DecideConstant PROVE IInv'
  <1>1. /\ pc = "route" /\ Kept /\ UNCHANGED <<plan, checks, search>>
        /\ (IsTrue(current) /\ Give("true")) \/ (IsFalse(current) /\ Give("false"))
    BY DEF DecideConstant
  <1>2. current \in Claim /\ (AllClosed => ClosedIntegers(current))
    BY DEF IInv, TypeOK, Stack
  <1>3. GiveWell
    <2>1. CASE IsTrue(current) /\ Give("true")
      BY <1>2, <2>1, TrueIsTrue DEF GiveWell, Kinds, Established
    <2>2. CASE IsFalse(current) /\ Give("false")
      BY <1>2, <2>2, FalseIsFalse DEF GiveWell, Kinds, Established
    <2>3. QED BY <1>1, <2>1, <2>2
  <1>4. QED BY <1>1, <1>3, GiveKeeps

Undecided == {"candidate_rejected", "inconclusive", "obstructed", "unsupported", "incomplete"}

LEMMA UndecidedKinds ==
  Undecided \subseteq Kinds /\ Undecided \cap (Established \cup {"rejected", "false"}) = {}
  BY DEF Undecided, Kinds, Established

(* A route that establishes a claim only when it is true. *)
LEMMA AskKeeps ==
  ASSUME IInv, pc = "route", Kept, UNCHANGED <<plan, checks, search>>,
         \/ \E kind \in Undecided : Give(kind)
         \/ \E kind \in Established : Give(kind) /\ Truth(current)
         \/ Raise
  PROVE  IInv'
  <1>1. CASE \E kind \in Undecided : Give(kind)
    <2>1. GiveWell BY <1>1, UndecidedKinds DEF GiveWell
    <2>2. QED BY <2>1, GiveKeeps
  <1>2. CASE \E kind \in Established : Give(kind) /\ Truth(current)
    <2>1. GiveWell BY <1>2, RaisedIsKind DEF GiveWell, Established
    <2>2. QED BY <2>1, GiveKeeps
  <1>3. CASE Raise
    BY <1>3, RaiseKeeps
  <1>4. QED BY <1>1, <1>2, <1>3

(* A claim of one atom other than a comparison, true by itself. *)
LEMMA OneAtomTruth ==
  ASSUME NEW c \in Claim, NEW kind, c.body.kind = kind, kind # "and", \A p : Holds(c.body, p)
  PROVE  Truth(c)
  BY DEF Items, Truth

LEMMA SystemKeeps == ASSUME IInv, ProveSystemRoot PROVE IInv'
  <1>1. current \in Claim /\ pc = "route" /\ current.body.kind = "system"
    BY DEF IInv, TypeOK, ProveSystemRoot, At
  <1>2. current.body.roots = 1 => Truth(current)
    BY <1>1, OneAtomTruth DEF Holds
  <1>3. QED BY <1>1, <1>2, AskKeeps DEF ProveSystemRoot, Ask, If, Undecided, Established

LEMMA ScalarKeeps == ASSUME IInv, ProveScalarRoot PROVE IInv'
  <1>1. current \in Claim /\ pc = "route" /\ current.body.kind = "scalar"
    BY DEF IInv, TypeOK, ProveScalarRoot, At
  <1>2. RootClaim(current.body) => Truth(current)
    BY <1>1, OneAtomTruth DEF Holds
  <1>3. QED BY <1>1, <1>2, AskKeeps DEF ProveScalarRoot, Ask, If, Undecided, Established

LEMMA EventualKeeps == ASSUME IInv, ProveEventual PROVE IInv'
  <1>1. current \in Claim /\ pc = "route" /\ current.body.kind = "eventual"
    BY DEF IInv, TypeOK, ProveEventual, At
  <1>2. current.body.holds => Truth(current)
    BY <1>1, OneAtomTruth DEF Holds
  <1>3. QED BY <1>1, <1>2, AskKeeps DEF ProveEventual, Ask, If, Undecided, Established

LEMMA IntegralKeeps == ASSUME IInv, ProveIntegral PROVE IInv'
  <1>1. current \in Claim /\ pc = "route"
    BY DEF IInv, TypeOK, ProveIntegral
  <1>2. IntegralPlan(current) /\ IntegralClaim(current.body) => Truth(current)
    BY <1>1, OneAtomTruth DEF Holds, Compare, IntegralPlan, IntegralClaim, IntegralRelation
  <1>3. QED BY <1>1, <1>2, AskKeeps DEF ProveIntegral, Ask, If, Undecided, Established

-----------------------------------------------------------------------------
(* Bounds                                                                   *)

LEMMA BeginKeeps == ASSUME IInv, BeginBounds PROVE IInv'
  <1> DEFINE p == PlanOf(current)
  <1>0. /\ current \in Claim /\ Plannable(current) /\ pc = "route" /\ Kept
        /\ \/ /\ plan' = p /\ checks' = NoChecks /\ tried' = 0 /\ opposite' = {}
              /\ pc' = "check" /\ UNCHANGED <<frames, answer, probing>>
           \/ Give("unsupported") /\ UNCHANGED <<plan, checks, search>>
           \/ Raise /\ UNCHANGED <<plan, checks, search>>
    BY DEF IInv, TypeOK, BeginBounds, Own
  <1>1. CASE Give("unsupported") /\ UNCHANGED <<plan, checks, search>>
    BY <1>0, <1>1, AskKeeps DEF Undecided
  <1>2. CASE Raise /\ UNCHANGED <<plan, checks, search>>
    BY <1>0, <1>2, AskKeeps
  <1>3. CASE /\ plan' = p /\ checks' = NoChecks /\ tried' = 0 /\ opposite' = {}
             /\ pc' = "check" /\ UNCHANGED <<frames, answer, probing>>
    <2>1. p.goals \subseteq Goal /\ p.axes \in Seq(Domain)
      BY <1>0, PlanGoals
    <2> HIDE DEF p
    <2>2. NoChecks \in [Directions -> Statuses \cup {"none"}]
          /\ \A d \in Directions : NoChecks[d] = "none"
      BY DEF NoChecks
    <2>3. TypeOK'
      BY <1>0, <1>3, <2>1, <2>2, ProvingAssumption DEF IInv, TypeOK, Kept
    <2>4. (Stack /\ Answered /\ Meaning)'
      BY <1>0, <1>3, StackKept DEF IInv
    <2>5. \A g \in p.goals : NoChecks[g.dir] # "verified"
      BY <2>1, <2>2 DEF Goal
    <2>6. Planned'
      BY <1>0, <1>3, <2>5 DEF Planned, Kept, p
    <2>7. Searching'
      BY <1>3 DEF Searching
    <2>8. QED BY <2>3, <2>4, <2>6, <2>7 DEF IInv
  <1>4. QED BY <1>0, <1>1, <1>2, <1>3

LEMMA CheckKeeps == ASSUME IInv, CheckBound PROVE IInv'
  <1>1. PICK d \in Unchecked, s \in Statuses :
          /\ s = "verified" => \A x \in Box(plan.axes) : Meets(GoalOf(d), x)
          /\ checks' = [checks EXCEPT ![d] = s]
    BY DEF CheckBound
  <1>2. /\ current \in Claim /\ Plannable(current) /\ plan = PlanOf(current) /\ d \in Asked
        /\ pc = "check" /\ pc' = "check" /\ Kept /\ UNCHANGED <<frames, plan, answer>>
        /\ UNCHANGED <<tried, probing, opposite>> /\ UNCHANGED current
    BY DEF IInv, TypeOK, Planned, InPlan, CheckBound, Unchecked, search, Kept
  <1>3. checks \in [Directions -> Statuses \cup {"none"}] /\ plan.goals \subseteq Goal
    BY DEF IInv, TypeOK
  <1>4. checks' \in [Directions -> Statuses \cup {"none"}]
    BY <1>1, <1>3
  <1>5. TypeOK'
    BY <1>2, <1>4 DEF IInv, TypeOK, Kept
  <1>6. (Stack /\ Answered /\ Meaning)'
    BY <1>2, StackKept DEF IInv
  <1>7. ASSUME NEW g \in plan.goals, checks'[g.dir] = "verified"
        PROVE  \A x \in Box(plan.axes) : Meets(g, x)
    <2>1. CASE g.dir = d
      <3>1. g = GoalOf(d) BY <1>2, <2>1, GoalOfIts
      <3>2. d \in Directions BY <2>1, <1>3 DEF Goal
      <3>3. checks'[d] = s BY <1>1, <1>3, <3>2
      <3>4. QED BY <1>1, <1>7, <2>1, <3>1, <3>3
    <2>2. CASE g.dir # d
      <3>1. g.dir \in Directions BY <1>3 DEF Goal
      <3>2. checks'[g.dir] = checks[g.dir] BY <1>1, <1>3, <2>2, <3>1
      <3>3. QED BY <1>2, <1>7, <3>2 DEF IInv, Planned, InPlan
    <2>3. QED BY <2>1, <2>2
  <1>8. Planned'
    BY <1>2, <1>7 DEF Planned
  <1>9. Searching'
    BY <1>2 DEF Searching
  <1>10. QED BY <1>5, <1>6, <1>8, <1>9 DEF IInv

LEMMA VerdictKinds ==
  ASSUME NEW have
  PROVE  /\ Verdict(have) \in {"verified", "obstructed", "unsupported", "inconclusive"}
         /\ Verdict(have) = "verified" => have \subseteq {"verified"}
         /\ Verdict(have) = "inconclusive" => have # {}
  BY DEF Verdict

LEMMA JudgeKeeps == ASSUME IInv, Judge PROVE IInv'
  <1>1. /\ current \in Claim /\ Plannable(current) /\ plan = PlanOf(current)
        /\ pc = "check" /\ Kept /\ UNCHANGED <<plan, checks, search>> /\ UNCHANGED current
    BY DEF IInv, TypeOK, Planned, InPlan, Judge, Kept
  <1>2. CASE Reached = "inconclusive" /\ refuting /\ ~External(plan)
    <2>1. pc' = "point" /\ UNCHANGED <<frames, answer>>
      BY <1>2 DEF Judge
    <2>2. TypeOK'
      BY <1>1, <2>1 DEF IInv, TypeOK, Kept, search
    <2>3. (Stack /\ Answered /\ Meaning)'
      BY <1>1, <2>1, StackKept DEF IInv
    <2>4. plan.goals # {}
      BY <1>2, VerdictKinds DEF Reached, Asked
    <2>5. Planned'
      BY <1>1, <2>1, <2>4 DEF IInv, Planned, InPlan
    <2>6. Searching'
      BY <2>1 DEF Searching
    <2>7. QED BY <2>2, <2>3, <2>5, <2>6 DEF IInv
  <1>3. CASE ~(Reached = "inconclusive" /\ refuting /\ ~External(plan))
    <2>1. Give(IF Reached = "verified" /\ External(plan) THEN "verified_enclosure" ELSE Reached)
      BY <1>3 DEF Judge
    <2>2. CASE Reached = "verified"
      <3>1. {checks[d] : d \in Asked} \subseteq {"verified"}
        BY <2>2, VerdictKinds DEF Reached
      <3>2. \A g \in plan.goals : checks[g.dir] = "verified"
        BY <3>1 DEF Asked
      <3>3. Truth(current)
        BY <1>1, <3>2, PlanTruth DEF IInv, Planned, InPlan
      <3>4. Give("verified") \/ Give("verified_enclosure")
        BY <2>1, <2>2
      <3>5. GiveWell
        BY <3>3, <3>4 DEF GiveWell, Kinds, Established
      <3>6. QED BY <1>1, <3>5, GiveKeeps
    <2>3. CASE Reached # "verified"
      <3>1. Reached \in {"obstructed", "unsupported", "inconclusive"}
        BY <2>3, VerdictKinds DEF Reached
      <3>2. Give("obstructed") \/ Give("unsupported") \/ Give("inconclusive")
        BY <2>1, <2>3, <3>1
      <3>3. GiveWell
        BY <3>2 DEF GiveWell, Kinds, Established
      <3>4. QED BY <1>1, <3>3, GiveKeeps
    <2>4. QED BY <2>2, <2>3
  <1>4. QED BY <1>2, <1>3

LEMMA NextPointKeeps == ASSUME IInv, NextPoint PROVE IInv'
  <1>1. /\ pc = "point" /\ Kept /\ UNCHANGED <<plan, checks>> /\ UNCHANGED current
        /\ Plannable(current) /\ plan = PlanOf(current) /\ plan.goals # {}
        /\ plan.goals \subseteq Goal /\ tried \in 0..MaxCandidates
    BY DEF IInv, TypeOK, Planned, InPlan, NextPoint, Kept
  <1>2. CASE MorePoints(tried)
    <2>1. /\ tried' = tried + 1 /\ probing' = First /\ opposite' = {} /\ pc' = "probe"
          /\ UNCHANGED <<frames, answer>>
      BY <1>2 DEF NextPoint
    <2>2. First \in Directions /\ \E g \in plan.goals : g.dir = First
      BY <1>1 DEF First, Asked, Goal, Directions
    <2>3. Len(AxisPoints(1)) \in {1, 3} /\ Len(AxisPoints(2)) \in {1, 3}
      BY <1>1, AxisPointsWithin DEF IInv
    <2>4. tried' \in 0..MaxCandidates /\ tried' \in 1..GridSize
      BY <1>1, <1>2, <2>1, <2>3, ProvingAssumption DEF MorePoints, GridSize
    <2>5. GridSize' = GridSize
      BY <1>1 DEF GridSize, AxisPoints
    <2>6. TypeOK'
      BY <1>1, <2>1, <2>2, <2>4 DEF IInv, TypeOK, Kept
    <2>7. (Stack /\ Answered /\ Meaning)'
      BY <1>1, <2>1, StackKept DEF IInv
    <2>8. Planned'
      BY <1>1, <2>1 DEF IInv, Planned, InPlan
    <2>9. Searching'
      BY <1>1, <2>1, <2>2, <2>4, <2>5 DEF Searching
    <2>10. QED BY <2>6, <2>7, <2>8, <2>9 DEF IInv
  <1>3. CASE ~MorePoints(tried)
    <2>1. Give("inconclusive") /\ UNCHANGED search
      BY <1>3 DEF NextPoint
    <2>2. GiveWell
      BY <2>1, UndecidedKinds DEF GiveWell, Undecided
    <2>3. QED BY <1>1, <2>1, <2>2, GiveKeeps
  <1>4. QED BY <1>2, <1>3

(* On to the next direction at the same point, or to the next point. *)
LEMMA AfterProbeKeeps ==
  ASSUME IInv, pc \in {"probe", "refute"}, pc' = AfterProbe, probing' = "upper",
         opposite' \subseteq Int, Kept, UNCHANGED <<frames, plan, checks, tried, answer>>
  PROVE  IInv'
  <1>1. pc' \in {"probe", "point"} /\ (pc' = "probe" => "upper" \in Asked) /\ UNCHANGED current
    BY DEF AfterProbe, Kept
  <1>2. TypeOK'
    BY <1>1 DEF IInv, TypeOK, Kept, Directions
  <1>3. (Stack /\ Answered /\ Meaning)'
    BY <1>1, StackKept DEF IInv
  <1>4. Planned'
    BY <1>1 DEF IInv, Planned, InPlan
  <1>5. GridSize' = GridSize
    BY DEF GridSize, AxisPoints
  <1>6. Searching'
    BY <1>1, <1>5 DEF IInv, Searching, Asked
  <1>7. QED BY <1>2, <1>3, <1>4, <1>6 DEF IInv

LEMMA ProbeKeeps == ASSUME IInv, Probe PROVE IInv'
  <1>1. /\ current \in Claim /\ pc = "probe" /\ Kept /\ UNCHANGED current
        /\ Plannable(current) /\ plan = PlanOf(current) /\ probing \in Asked
        /\ UNCHANGED <<frames, plan, checks, tried, answer>>
    BY DEF IInv, TypeOK, Planned, Searching, InPlan, Probe, Kept, Asked
  <1>2. PICK lo \in Numbers, hi \in Numbers :
          /\ opposite' = Opposite(GoalOf(probing), lo, hi)
          /\ IF opposite' # {} THEN pc' = "refute" /\ UNCHANGED probing
                               ELSE pc' = AfterProbe /\ probing' = "upper"
    BY DEF Probe
  <1> DEFINE g == GoalOf(probing)
  <1>3. g \in Goal /\ lo \in Int /\ hi \in Int /\ \A h \in plan.goals : h.dir = probing => h = g
    BY <1>1, GoalOfIts, ProvingAssumption
  <1>4. opposite' \subseteq Int /\ \A b \in opposite' : Against(g, b)
    BY <1>2, <1>3, OppositeAgainst
  <1>5. CASE opposite' = {}
    BY <1>1, <1>2, <1>4, <1>5, AfterProbeKeeps
  <1>6. CASE opposite' # {}
    <2>1. pc' = "refute" /\ probing' = probing
      BY <1>2, <1>6
    <2> HIDE DEF g
    <2>2. TypeOK'
      BY <1>1, <1>4, <2>1 DEF IInv, TypeOK, Kept
    <2>3. (Stack /\ Answered /\ Meaning)'
      BY <1>1, <2>1, StackKept DEF IInv
    <2>4. Planned'
      BY <1>1, <2>1 DEF IInv, Planned, InPlan
    <2>5. GridSize' = GridSize
      BY <1>1 DEF GridSize, AxisPoints
    <2>6. Searching'
      BY <1>1, <1>3, <1>4, <1>6, <2>1, <2>5 DEF IInv, Searching
    <2>7. QED BY <2>2, <2>3, <2>4, <2>6 DEF IInv
  <1>7. QED BY <1>5, <1>6

LEMMA RefuteKeeps == ASSUME IInv, Refute PROVE IInv'
  <1> DEFINE g == GoalOf(probing)
             x == GridPoint(tried)
  <1>1. /\ current \in Claim /\ pc = "refute" /\ Kept /\ UNCHANGED <<plan, checks>>
        /\ Plannable(current) /\ plan = PlanOf(current) /\ probing \in Asked
        /\ tried \in 1..GridSize /\ opposite \subseteq Int
    BY DEF IInv, TypeOK, Planned, Searching, InPlan, Refute, Asked
  <1>2. g \in plan.goals /\ g \in Goal /\ g.dir = probing
    BY <1>1, GoalOfIts
  <1>3. CASE /\ \A b \in opposite : IF g.dir = "upper" THEN b <= 2 * Here(g) ELSE 2 * Here(g) <= b
             /\ Give("rejected") /\ UNCHANGED search
    <2>1. x \in Box(plan.axes) /\ x \in Points
      BY <1>1, GridPointInBox, BoxPoints DEF IInv
    <2>2. PICK b \in opposite : Against(g, b)
      BY <1>1, <1>2 DEF IInv, Searching
    <2>3. IF g.dir = "upper" THEN b <= 2 * g.expr.val[x] ELSE 2 * g.expr.val[x] <= b
      BY <1>3 DEF Here
    <2> HIDE DEF g, x
    <2>4. ~Meets(g, x)
      BY <1>1, <1>2, <2>1, <2>2, <2>3, AgainstFails
    <2>5. ~Truth(current)
      BY <1>1, <1>2, <2>1, <2>4, PlanTruth
    <2>6. GiveWell
      BY <1>3, <2>5 DEF GiveWell, Kinds, Established
    <2>7. QED BY <1>1, <1>3, <2>6, GiveKeeps
  <1>4. CASE /\ pc' = AfterProbe /\ probing' = "upper" /\ opposite' = {}
             /\ UNCHANGED <<frames, answer, tried>>
    BY <1>1, <1>4, AfterProbeKeeps
  <1>5. QED BY <1>3, <1>4 DEF Refute

LEMMA BridgeRaisesKeeps == ASSUME IInv, BridgeRaises PROVE IInv'
  BY RaiseKeeps DEF BridgeRaises

-----------------------------------------------------------------------------
(* Conjunctions and equalities                                              *)

LEMMA UnplannedKeeps == ASSUME IInv, Unplanned PROVE IInv'
  BY AskKeeps DEF Unplanned, Own, Undecided

LEMMA SplitKeeps == ASSUME IInv, Split PROVE IInv'
  <1> DEFINE f == [of |-> current, todo |-> Children(current), sound |-> TRUE]
  <1>1. /\ current \in Claim /\ Splits(current) /\ pc = "route" /\ pc' = "children"
        /\ frames' = <<f>> \o frames /\ frames \in Seq(Frame) /\ Len(frames) \in Nat
        /\ Kept /\ UNCHANGED <<plan, checks, search, answer, current, claim>>
    BY DEF IInv, TypeOK, Split, Own, Kept
  <1>2. f \in Frame /\ f.of = current /\ FrameOK(f, {})
    BY <1>1, SplitTruth DEF Frame, FrameOK
  <1> HIDE DEF f
  <1>3. /\ frames' \in Seq(Frame) /\ Len(frames') = Len(frames) + 1 /\ frames'[1] = f
        /\ \A i \in 1..Len(frames) : frames'[i + 1] = frames[i]
    BY <1>1, <1>2
  <1>4. TypeOK'
    BY <1>1, <1>3 DEF IInv, TypeOK, Kept, search
  <1>5. \A i \in 1..Len(frames') : FrameOK(frames'[i], Under(i)')
    <2>1. ASSUME NEW i \in 1..Len(frames) PROVE FrameOK(frames'[i + 1], Under(i + 1)')
      <3>1. FrameOK(frames[i], Under(i))
        BY DEF IInv, Stack
      <3>2. Under(i + 1)' = {frames'[i].of}
        BY <1>1, <1>3 DEF Under
      <3>3. CASE i = 1
        <4>1. Under(i) = {current} /\ Under(i + 1)' = {current} /\ frames'[i + 1] = frames[i]
          BY <1>1, <1>2, <1>3, <3>2, <3>3 DEF Under
        <4>2. QED BY <3>1, <4>1
      <3>4. CASE i > 1
        <4>1. i - 1 \in 1..Len(frames) /\ frames'[i] = frames[i - 1]
          BY <1>1, <1>3, <3>4
        <4>2. Under(i) = {frames[i - 1].of} /\ Under(i + 1)' = {frames[i - 1].of}
              /\ frames'[i + 1] = frames[i]
          BY <1>1, <1>3, <3>2, <3>4, <4>1 DEF Under
        <4>3. QED BY <3>1, <4>2
      <3>5. QED BY <1>1, <3>3, <3>4
    <2>2. FrameOK(frames'[1], Under(1)')
      BY <1>1, <1>2, <1>3 DEF Under
    <2>3. \A i \in 1..Len(frames') : i = 1 \/ (i - 1 \in 1..Len(frames) /\ i = (i - 1) + 1)
      BY <1>1, <1>3
    <2>4. QED BY <2>1, <2>2, <2>3
  <1>6. Root' = Root
    <2>1. CASE frames = << >> BY <1>1, <1>2, <1>3, <2>1 DEF Root
    <2>2. CASE frames # << >> BY <1>1, <1>3, <2>2 DEF Root
    <2>3. QED BY <2>1, <2>2
  <1>7. \A i \in 1..Len(frames') : i = 1 \/ (i - 1 \in 1..Len(frames) /\ frames'[i] = frames[i - 1])
    BY <1>1, <1>3
  <1>8. Stack'
    BY <1>1, <1>2, <1>3, <1>5, <1>6, <1>7 DEF IInv, Stack
  <1>9. (Answered /\ Planned /\ Searching /\ Meaning)'
    BY <1>1 DEF IInv, Answered, Planned, Searching, InPlan, Meaning, ProvedTrue, RefutedFalse
  <1>10. QED BY <1>4, <1>8, <1>9 DEF IInv

LEMMA NextChildKeeps == ASSUME IInv, NextChild PROVE IInv'
  <1>1. PICK c \in frames[1].todo :
          /\ current' = c /\ pc' = "route"
          /\ frames' = [frames EXCEPT ![1].todo = @ \ {c}]
    BY DEF NextChild, Rest
  <1>2. /\ pc = "children" /\ frames \in Seq(Frame) /\ frames # << >> /\ Len(frames) \in Nat
        /\ Len(frames) >= 1 /\ frames[1] \in Frame
        /\ UNCHANGED <<caps, refuting, claim, plan, checks, answer>>
        /\ UNCHANGED <<tried, probing, opposite>>
    BY DEF IInv, TypeOK, NextChild, search
  <1> DEFINE f == [frames[1] EXCEPT !.todo = @ \ {c}]
  <1>3. /\ f \in Frame /\ f.of = frames[1].of /\ f.todo = frames[1].todo \ {c}
        /\ f.sound = frames[1].sound
    BY <1>2 DEF Frame
  <1> DEFINE new == [frames EXCEPT ![1] = f]
  <1>4. frames' = new
    BY <1>1, <1>2
  <1> HIDE DEF f
  <1>5. /\ new \in Seq(Frame) /\ Len(new) = Len(frames) /\ new[1] = f
        /\ \A i \in 1..Len(frames) : new[i].of = frames[i].of
        /\ \A i \in 2..Len(frames) : new[i] = frames[i]
    BY <1>2, <1>3, ReplaceFirst
  <1> HIDE DEF new
  <1>6. FrameOK(frames[1], {})
    <2>1. Under(1) = {} /\ 1 \in 1..Len(frames) BY <1>2 DEF Under
    <2>2. FrameOK(frames[1], Under(1)) BY <2>1 DEF IInv, Stack
    <2>3. QED BY <2>1, <2>2
  <1>7. c \in Children(frames[1].of) /\ c \in Claim /\ c.binders = frames[1].of.binders
    BY <1>2, <1>6, SplitTruth DEF FrameOK, Frame
  <1>8. TypeOK'
    BY <1>1, <1>2, <1>4, <1>5, <1>7 DEF IInv, TypeOK
  <1>9. \A i \in 1..Len(frames') : FrameOK(frames'[i], Under(i)')
    <2>1. FrameOK(f, {c})
      BY <1>3, <1>6 DEF FrameOK
    <2>2. FrameOK(frames'[1], Under(1)')
      <3>1. Under(1)' = {current'}
        BY <1>1 DEF Under
      <3>2. current' = c /\ frames'[1] = f
        BY <1>1, <1>4, <1>5
      <3>3. QED BY <2>1, <3>1, <3>2
    <2>3. ASSUME NEW i \in 2..Len(frames) PROVE FrameOK(frames'[i], Under(i)')
      <3>1. Under(i) = {frames[i - 1].of} /\ i \in 1..Len(frames) /\ i - 1 \in 1..Len(frames)
        BY <1>2 DEF Under
      <3>2. Under(i)' = {frames[i - 1].of}
        BY <1>2, <1>4, <1>5, <3>1 DEF Under
      <3>3. FrameOK(frames[i], Under(i))
        BY <3>1 DEF IInv, Stack
      <3>4. QED BY <1>4, <1>5, <3>1, <3>2, <3>3
    <2>4. \A i \in 1..Len(frames') : i = 1 \/ i \in 2..Len(frames)
      BY <1>2, <1>4, <1>5
    <2>5. QED BY <2>2, <2>3, <2>4
  <1>10. Root' = Root
    BY <1>2, <1>4, <1>5 DEF Root
  <1>11. AllClosed => ClosedIntegers(c)
    BY <1>2, <1>7 DEF IInv, Stack, ClosedIntegers
  <1>12. Stack'
    BY <1>1, <1>2, <1>4, <1>5, <1>9, <1>10, <1>11 DEF IInv, Stack
  <1>13. (Answered /\ Planned /\ Searching /\ Meaning)'
    BY <1>1, <1>2 DEF IInv, Answered, Planned, Searching, InPlan, Meaning, ProvedTrue, RefutedFalse
  <1>14. QED BY <1>8, <1>12, <1>13 DEF IInv

LEMMA AggregateKeeps == ASSUME IInv, Aggregate PROVE IInv'
  <1> DEFINE kind == IF frames[1].sound THEN "conjunction" ELSE "incomplete"
             outer == Tail(frames)
  <1>1. /\ pc = "children" /\ frames[1].todo = {}
        /\ answer' = [of |-> frames[1].of, kind |-> kind]
        /\ frames' = (IF outer = << >> THEN outer
                      ELSE [outer EXCEPT ![1].sound = @ /\ kind \in Established])
        /\ pc' = (IF outer = << >> THEN "done" ELSE "children")
        /\ current' = frames[1].of
        /\ UNCHANGED <<caps, refuting, claim, plan, checks>>
        /\ UNCHANGED <<tried, probing, opposite>>
    BY DEF Aggregate, search
  <1>2. /\ frames \in Seq(Frame) /\ frames # << >> /\ Len(frames) \in Nat
        /\ Len(frames) >= 1 /\ frames[1] \in Frame /\ frames[1].of \in Claim
    <2>1. frames \in Seq(Frame) /\ frames # << >>
      BY <1>1 DEF IInv, TypeOK
    <2>2. Len(frames) \in Nat /\ Len(frames) >= 1 /\ frames[1] \in Frame
      BY <2>1
    <2>3. QED BY <2>1, <2>2 DEF Frame
  <1>3. /\ outer \in Seq(Frame) /\ Len(outer) = Len(frames) - 1
        /\ \A i \in 1..Len(outer) : outer[i] = frames[i + 1]
    BY <1>2
  <1>4. kind \in Kinds /\ kind \notin {"rejected", "false", "raised"} /\ (kind \in Established => frames[1].sound)
    BY DEF Kinds, Established
  <1>5. kind \in Established => Truth(frames[1].of)
    <2>0. Under(1) = {} /\ 1 \in 1..Len(frames) BY <1>1, <1>2 DEF Under
    <2>1. FrameOK(frames[1], Under(1)) BY <2>0 DEF IInv, Stack
    <2>2. FrameOK(frames[1], {}) BY <2>0, <2>1
    <2>3. QED BY <1>1, <1>2, <1>4, <2>2, SplitTruth DEF FrameOK
  <1>6. Meaning'
    BY <1>1, <1>4, <1>5 DEF Meaning, ProvedTrue, RefutedFalse
  <1>7. (Planned /\ Searching)'
    BY <1>1 DEF Planned, Searching, InPlan
  <1> HIDE DEF kind, outer
  <1>8. CASE outer = << >>
    <2>1. frames' = << >> /\ pc' = "done" /\ Len(frames) = 1
      BY <1>1, <1>2, <1>3, <1>8
    <2>2. TypeOK'
      <3>1. << >> \in Seq(Frame) OBVIOUS
      <3>2. QED BY <1>1, <1>2, <1>4, <2>1, <3>1 DEF IInv, TypeOK
    <2>3. Root' = Root
      BY <1>1, <1>2, <2>1 DEF Root
    <2>4. Stack'
      BY <1>1, <1>2, <2>1, <2>3 DEF IInv, Stack
    <2>5. Answered'
      BY <1>1, <2>1 DEF Answered
    <2>6. QED BY <1>6, <1>7, <2>2, <2>4, <2>5 DEF IInv
  <1>9. CASE outer # << >>
    <2> DEFINE sound == kind \in Established
    <2>1. frames' = Marked(outer, sound) /\ pc' = "children" /\ Len(outer) >= 1
      BY <1>1, <1>3, <1>9 DEF Marked
    <2>2. OnlyMarked(outer, frames', sound)
      <3>1. sound \in BOOLEAN OBVIOUS
      <3> HIDE DEF sound
      <3>2. OnlyMarked(outer, Marked(outer, sound), sound)
        BY <1>3, <1>9, <3>1, MarkFrame
      <3>3. QED BY <2>1, <3>2
    <2>3. /\ frames' \in Seq(Frame) /\ Len(frames') = Len(outer)
          /\ \A i \in 1..Len(outer) : frames'[i].of = frames[i + 1].of
          /\ frames'[1].todo = frames[2].todo
          /\ frames'[1].sound <=> (frames[2].sound /\ sound)
          /\ \A i \in 2..Len(outer) : frames'[i] = frames[i + 1]
      BY <1>3, <2>1, <2>2 DEF OnlyMarked
    <2>4. TypeOK'
      BY <1>1, <1>2, <1>3, <1>4, <2>1, <2>3 DEF IInv, TypeOK
    <2>5. Root' = Root
      BY <1>2, <1>3, <1>9, <2>1, <2>3 DEF Root
    <2>6. FrameOK(frames[2], {frames[1].of})
      <3>1. Under(2) = {frames[1].of} /\ 2 \in 1..Len(frames)
        BY <1>2, <1>3, <2>1 DEF Under
      <3>2. FrameOK(frames[2], Under(2))
        BY <3>1 DEF IInv, Stack
      <3>3. QED BY <3>1, <3>2
    <2>7. FrameOK(frames'[1], Under(1)')
      <3>1. Under(1)' = {} /\ frames'[1].of = frames[2].of
        BY <2>1, <2>3 DEF Under
      <3>2. FrameOK(frames'[1], {})
        BY <1>5, <2>3, <2>6, <3>1 DEF FrameOK
      <3>3. QED BY <3>1, <3>2
    <2>8. ASSUME NEW i \in 2..Len(outer) PROVE FrameOK(frames'[i], Under(i)')
      <3>1. i + 1 \in 1..Len(frames) /\ i - 1 \in 1..Len(outer) /\ (i - 1) + 1 = i /\ i > 1
        BY <1>2, <1>3
      <3>2. Under(i + 1) = {frames[i].of} /\ Under(i)' = {frames[i].of}
        BY <2>3, <3>1 DEF Under
      <3>3. FrameOK(frames[i + 1], Under(i + 1))
        BY <3>1 DEF IInv, Stack
      <3>4. QED BY <2>3, <3>2, <3>3
    <2>9. \A i \in 1..Len(frames') : i = 1 \/ i \in 2..Len(outer)
      BY <1>2, <1>3, <2>3
    <2>10. \A i \in 1..Len(frames') : FrameOK(frames'[i], Under(i)')
      BY <2>7, <2>8, <2>9
    <2>11. \A i \in 1..Len(frames') : i + 1 \in 1..Len(frames) /\ frames'[i].of = frames[i + 1].of
      BY <1>2, <1>3, <2>3
    <2>12. Stack'
      <3>1. pc # "idle" /\ pc' # "idle" /\ claim' = claim
        BY <1>1, <2>1
      <3>2. (Truth(Root) <=> Truth(claim))'
        BY <2>5, <3>1 DEF IInv, Stack
      <3>3. 1 \in 1..Len(frames) BY <1>2
      <3>4. (AllClosed => /\ ClosedIntegers(current)
                          /\ \A i \in 1..Len(frames) : ClosedIntegers(frames[i].of))'
        BY <1>1, <2>11, <3>3 DEF IInv, Stack
      <3>5. QED BY <2>10, <3>1, <3>2, <3>4 DEF Stack
    <2>13. Answered'
      BY <2>1 DEF Answered
    <2>14. QED BY <1>6, <1>7, <2>4, <2>12, <2>13 DEF IInv
  <1>10. QED BY <1>8, <1>9

-----------------------------------------------------------------------------
LEMMA NoClaimIsClaim == NoClaim \in Claim /\ NoClaim.binders = << >>
  <1>1. Const(TRUE) \in Body BY ConstIsAtom DEF Body
  <1>2. << >> \in Seq(Domain) /\ Len(<< >>) <= 2 OBVIOUS
  <1>3. QED BY <1>1, <1>2 DEF NoClaim, Claim

LEMMA InitIInv == Init => IInv
  <1> SUFFICES ASSUME Init PROVE IInv
    OBVIOUS
  <1>1. TypeOK
    BY NoClaimIsClaim, ProvingAssumption
    DEF Init, TypeOK, NoPlan, NoChecks, Trivial, Directions, Kinds
  <1>2. Stack
    BY NoClaimIsClaim DEF Init, Stack, ClosedIntegers
  <1>3. (Answered /\ Planned /\ Searching /\ Meaning)
    BY DEF Init, Trivial, Answered, Planned, Searching, InPlan, Meaning, ProvedTrue, RefutedFalse,
           Established
  <1>4. QED BY <1>1, <1>2, <1>3 DEF IInv

LEMMA NextIInv == IInv /\ [Next]_vars => IInv'
  <1> SUFFICES ASSUME IInv, [Next]_vars PROVE IInv'
    OBVIOUS
  <1>1. CASE UNCHANGED vars
    <2>1. TypeOK' BY <1>1 DEF vars, search, IInv, TypeOK
    <2>2. Stack' BY <1>1 DEF vars, IInv, Stack, Under, Root
    <2>3. (Answered /\ Planned /\ Meaning)'
      BY <1>1 DEF vars, IInv, Answered, Planned, InPlan, Meaning, ProvedTrue, RefutedFalse
    <2>4. GridSize' = GridSize BY <1>1 DEF vars, GridSize, AxisPoints
    <2>5. Searching' BY <1>1, <2>4 DEF vars, search, IInv, Searching
    <2>6. QED BY <2>1, <2>2, <2>3, <2>5 DEF IInv
  <1>2. CASE Prove
    BY <1>2, ProveKeeps
  <1>3. CASE Working
    BY <1>3, DecideKeeps, SystemKeeps, ScalarKeeps, EventualKeeps, IntegralKeeps, BeginKeeps,
       CheckKeeps, JudgeKeeps, NextPointKeeps, ProbeKeeps, RefuteKeeps, BridgeRaisesKeeps,
       SplitKeeps, UnplannedKeeps, NextChildKeeps, AggregateKeeps DEF Working
  <1>4. QED BY <1>1, <1>2, <1>3 DEF Next, Finished

(* Every behaviour keeps the invariant. *)
THEOREM Invariance == Spec => []IInv
  BY InitIInv, NextIInv, PTL DEF Spec

(* The state of prove is always of its types. *)
THEOREM TypeCorrect == Spec => []TypeOK
  <1>1. IInv => TypeOK BY DEF IInv
  <1>2. QED BY <1>1, Invariance, PTL

(* An established result is of a true claim, whatever the claims, the       *)
(* contract and the answers of the Bridge.                                  *)
THEOREM ProvedTrueAlways == Spec => []ProvedTrue
  <1>1. IInv => ProvedTrue BY DEF IInv, Meaning
  <1>2. QED BY <1>1, Invariance, PTL

(* A rejected claim, and one decided to be false, is false, provided that   *)
(* no integer variable ranges over an open interval: such an interval may   *)
(* be empty although its ends differ, and _logical_constant misses that.    *)
THEOREM RefutedFalseAlways ==
  ASSUME \A c \in Claims : ClosedIntegers(c)
  PROVE  Spec => []RefutedFalse
  <1>1. IInv => RefutedFalse BY DEF IInv, Meaning, AllClosed
  <1>2. QED BY <1>1, Invariance, PTL

(* The caller's result is about the caller's claim. *)
THEOREM AnswersTheClaimAlways == Spec => []AnswersTheClaim
  <1>1. IInv => AnswersTheClaim
    BY DEF IInv, Answered, Stack, Root, AnswersTheClaim
  <1>2. QED BY <1>1, Invariance, PTL
=============================================================================
