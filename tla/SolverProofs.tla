---------------------------- MODULE SolverProofs ----------------------------
(* What the solver and the patterns built on it return is true of f, for    *)
(* every domain, expression, call and pattern, and whatever the Bridge      *)
(* answers as long as it is true.                                           *)
EXTENDS Quantifier, TLAPS

-----------------------------------------------------------------------------
(* Where an operation may be and what it may return                         *)

Optima == {"min_witness", "max_witness"}

(* Steps of a witness operation. *)
OptimumPCs == {"optimise", "race", "leave", "fallback", "witness", "refine", "certify"}

Route(op) ==
  CASE op = "eval_interval"    -> {"eval"}
    [] op = "find_bounds"      -> {"min", "max"}
    [] op = "verify_bound"     -> {"check"}
    [] op = "discover"         -> {"search", "point"}
    [] op = "find_roots"       -> {"signs"}
    [] op = "find_unique_root" -> {"newton"}
    [] op = "root_witness"     -> {"newton", "signs"}
    [] op \in Optima           -> OptimumPCs
    [] op = "diagnose"         -> {"diagnose"}
    [] op = "lipschitz"        -> {"derive"}

Yields(op) ==
  CASE op = "eval_interval"    -> {"enclosure"}
    [] op = "find_bounds"      -> {"bounds"}
    [] op = "verify_bound"     -> {"verified", "obstructed", "unsupported", "inconclusive"}
    [] op = "discover"         -> {"rejected", "inconclusive"}
    [] op = "find_roots"       -> {"roots"}
    [] op = "find_unique_root" -> {"unique", "not_unique"}
    [] op = "root_witness"     -> {"root"}
    [] op = "min_witness"      -> {"min"}
    [] op = "max_witness"      -> {"max"}
    [] op = "diagnose"         -> {"diagnosis", "no_diagnosis"}
    [] op = "lipschitz"        -> {"lipschitz"}

BusyPCs == SolverPCs \ {"idle"}

(* Where the caller of an operation goes on. *)
Returns == {"done", "bounded", "claimed", "signed", "optimum", "rooted", "sloped", "tried"}
PCs     == SolverPCs \cup Returns \cup {"epsilon", "try"}

Busy == pc \in BusyPCs

Flow ==
  /\ pc \in PCs /\ back \in Returns
  /\ Busy => pc \in Route(call.op) /\ result.kind = "none"
  /\ pc \in Returns \ {"done"} => pc = back /\ result.kind \in Yields(call.op) \cup {"raised"}

(* No strategy is running but during the race and until it is left; the     *)
(* strategies that were taken have failed, but the one that is used.        *)
Failed == \A s \in Strategies : race[s] = "failed"
ByRace(s) == race[s] = "ok" \/ (s = "dyadic" /\ Failed)

Racing ==
  /\ pc \notin {"race", "leave"} => Quiet
  /\ pc = "race" => by = "none" /\ \A s \in taken : race[s] = "failed"
  /\ pc = "leave" => IF by = "none" THEN \A s \in taken : race[s] = "failed" ELSE race[by] = "ok"
  /\ pc = "fallback" => Failed
  /\ pc = "optimise" => ~call.racing
  /\ pc \in {"witness", "refine", "certify"} /\ call.racing => ByRace(by)

(* What is known in the middle of an operation. *)
Margin == low <= current - 2 * pace /\ current + 2 * pace <= high

Partial ==
  /\ pc = "max" => Holds("lower", low)
  /\ pc = "check" =>
       \A d \in Directions : checks[d] = "verified" => \A v \in Bound(d) : Holds(d, v)
  /\ pc = "point" => point \in Cells
  /\ pc = "witness" \/ (pc = "leave" /\ by # "none") => low <= high
  /\ pc \in {"refine", "certify"} => Margin /\ (sure => Holds(BoundKind, current))

(* What is true of the result. *)
ByWhom == result.kind \in {"min", "max"} /\ call.racing => ByRace(result.by)
Steep  == result.kind = "lipschitz" =>
            /\ result.value >= 0
            /\ \A c, e \in call.box : Abs(f[c] - f[e]) <= result.value * Abs(c - e)

Truth == AnswersTrue /\ RefinedInside /\ RefinedChecked /\ ByWhom /\ Steep

SolverInv == SolverTypeOK /\ Flow /\ Racing /\ Partial /\ Truth

-----------------------------------------------------------------------------
(* Numbers                                                                  *)

LEMMA Ints ==
  ASSUME SolverTypeOK
  PROVE  /\ \A c \in Cells : c \in Int /\ f[c] \in Int
         /\ call.box \subseteq Cells
         /\ \A d \in Directions : Bound(d) \subseteq Int
         /\ \A e \in Enclosure : e.lo \in Int /\ e.hi \in Int
  <1>1. f \in [Cells -> Int]
    BY SolverAssumption DEF SolverTypeOK
  <1>2. call.box \subseteq Cells /\ call.lower \subseteq Int /\ call.upper \subseteq Int
    BY DEF SolverTypeOK, Call, Optional
  <1>3. \A e \in Enclosure : e.lo \in Int /\ e.hi \in Int
    BY SolverAssumption DEF Enclosure
  <1>4. QED BY <1>1, <1>2, <1>3, SolverAssumption DEF Bound

(* No operation is under way on a step that is its caller's. *)
LEMMA ReturnsApart == /\ Returns \cap BusyPCs = {} /\ {"epsilon", "try", "idle"} \cap BusyPCs = {}
                      /\ \A op \in Operations : Route(op) \subseteq BusyPCs
  BY DEF Returns, BusyPCs, SolverPCs, Operations, Route, Optima, OptimumPCs

(* An operation returns. *)
LEMMA Returned ==
  ASSUME SolverInv, NEW r, Return(r), pc \in BusyPCs,
         r \in [kind : Kinds, low : Int, high : Int, value : Int, point : Cells \cup {0},
                by : Strategies \cup {"none"}, roots : Seq(Root)],
         r.kind \in Yields(call.op) \cup {"raised"},
         SolverTypeOK', Quiet', Truth'
  PROVE  SolverInv'
  <1>1. pc' = back /\ result' = r /\ back' = back /\ call' = call /\ pc' \in Returns
    BY DEF Return, SolverInv, Flow
  <1>2. Flow'
    BY <1>1, ReturnsApart DEF Flow, PCs, Busy
  <1>3. Racing'
    BY <1>1 DEF Racing, Returns
  <1>4. Partial'
    BY <1>1 DEF Partial, Returns
  <1>5. QED BY <1>2, <1>3, <1>4 DEF SolverInv

(* An operation goes on. *)
LEMMA WentOn ==
  ASSUME SolverInv, NEW where \in Route(call.op), Goto(where), pc \in BusyPCs,
         SolverTypeOK', Racing', Partial'
  PROVE  SolverInv'
  <1>1. pc' = where /\ UNCHANGED <<f, call, back, result>>
    BY DEF Goto
  <1>2. call.op \in Operations
    BY DEF SolverInv, SolverTypeOK, Call
  <1>3. result'.kind = "none" /\ pc' \in BusyPCs
    BY <1>1, <1>2, ReturnsApart DEF SolverInv, Flow, Busy
  <1>4. Flow'
    BY <1>1, <1>3, ReturnsApart DEF Flow, PCs, Busy, SolverInv, BusyPCs
  <1>5. Truth'
    BY <1>3 DEF Truth, AnswersTrue, RefinedInside, RefinedChecked, ByWhom, Steep
  <1>6. QED BY <1>4, <1>5 DEF SolverInv

(* The operation under way is known from where it is. *)
LEMMA RouteOf ==
  ASSUME NEW op \in Operations, NEW p \in Route(op)
  PROVE  /\ p = "eval" => op = "eval_interval"
         /\ p \in {"min", "max"} => op = "find_bounds"
         /\ p = "check" => op = "verify_bound"
         /\ p \in {"search", "point"} => op = "discover"
         /\ p = "signs" => op \in {"find_roots", "root_witness"}
         /\ p = "newton" => op \in {"find_unique_root", "root_witness"}
         /\ p \in OptimumPCs => op \in Optima
         /\ p = "diagnose" => op = "diagnose"
         /\ p = "derive" => op = "lipschitz"
  <1>1. CASE op \in Optima
    BY <1>1 DEF Route, Optima, OptimumPCs
  <1>2. CASE op \in {"eval_interval", "find_bounds", "verify_bound", "discover"}
    BY <1>2 DEF Route, Optima, OptimumPCs
  <1>3. CASE op \in {"find_roots", "find_unique_root", "root_witness", "diagnose", "lipschitz"}
    BY <1>3 DEF Route, Optima, OptimumPCs
  <1>4. QED BY <1>1, <1>2, <1>3 DEF Operations, Optima

LEMMA RouteHas ==
  /\ Route("find_bounds") = {"min", "max"} /\ Route("verify_bound") = {"check"}
  /\ Route("discover") = {"search", "point"} /\ Route("root_witness") = {"newton", "signs"}
  /\ \A op \in Optima : Route(op) = OptimumPCs
  <1>1. \A op \in Optima : Route(op) = OptimumPCs
    BY DEF Route, Optima
  <1>2. QED BY <1>1 DEF Route, Optima

-----------------------------------------------------------------------------
(* One lemma for each step of an operation                                  *)

LEMMA EmptyResult ==
  /\ NoResult \in [kind : Kinds, low : Int, high : Int, value : Int, point : Cells \cup {0},
                   by : Strategies \cup {"none"}, roots : Seq(Root)]
  /\ <<>> \in Seq(Root)
  <1>1. <<>> \in Seq(Root)
    OBVIOUS
  <1>2. QED BY <1>1 DEF NoResult, Kinds

(* A result with some of its fields given. *)
Answer == [kind : Kinds, low : Int, high : Int, value : Int, point : Cells \cup {0},
           by : Strategies \cup {"none"}, roots : Seq(Root)]

LEMMA Raised ==
  ASSUME SolverInv, Raise, pc \in BusyPCs, SolverTypeOK', Quiet'
  PROVE  SolverInv'
  <1> DEFINE r == [NoResult EXCEPT !.kind = "raised"]
  <1>1. r \in Answer /\ r.kind = "raised"
    BY EmptyResult DEF Answer, Kinds, NoResult
  <1>2. Return(r) /\ result' = r
    BY DEF Raise, Return
  <1> HIDE DEF r
  <1>3. Truth'
    BY <1>1, <1>2 DEF Truth, AnswersTrue, RefinedInside, RefinedChecked, ByWhom, Steep
  <1>4. QED BY <1>1, <1>2, <1>3, Returned DEF Answer

(* Raising changes nothing but the result. *)
LEMMA RaisedType ==
  ASSUME SolverTypeOK, Raise, UNCHANGED <<verdicts, reply, taken, by, refining>>,
         race' \in [Strategies -> Futures]
  PROVE  SolverTypeOK'
  <1>1. [NoResult EXCEPT !.kind = "raised"] \in Answer
    BY EmptyResult DEF Answer, Kinds, NoResult
  <1>2. result' \in Answer /\ UNCHANGED <<f, call>>
    BY <1>1 DEF Raise, Return
  <1>3. UNCHANGED <<checks, point, low, high, taken, by, current, pace, sense, round, sure>>
    BY DEF verdicts, reply, refining
  <1>4. QED BY <1>2, <1>3 DEF SolverTypeOK, Answer

LEMMA RejectStep ==
  ASSUME SolverInv, Reject PROVE SolverInv'
  <1>1. pc \in BusyPCs
    BY DEF Reject, BusyPCs, SolverPCs
  <1>2. race' = NoRace
    BY DEF Reject
  <1>3. race' \in [Strategies -> Futures] /\ Quiet'
    BY <1>2 DEF NoRace, Futures, Quiet
  <1>4. SolverTypeOK'
    BY <1>3, RaisedType DEF Reject, SolverInv
  <1>5. QED BY <1>1, <1>3, <1>4, Raised DEF Reject

LEMMA BridgeRaisesStep ==
  ASSUME SolverInv, BridgeRaises PROVE SolverInv'
  <1>1. pc \in BusyPCs /\ pc \notin {"race", "leave"}
    BY DEF BridgeRaises, BusyPCs, SolverPCs
  <1>2. UNCHANGED <<verdicts, reply, taken, by, refining, race>>
    BY DEF BridgeRaises, locals, contest
  <1>3. Quiet'
    BY <1>1, <1>2 DEF SolverInv, Racing, Quiet
  <1>4. race' \in [Strategies -> Futures]
    BY <1>2 DEF SolverInv, SolverTypeOK
  <1>5. SolverTypeOK'
    BY <1>2, <1>4, RaisedType DEF BridgeRaises, SolverInv
  <1>6. QED BY <1>1, <1>3, <1>5, Raised DEF BridgeRaises

(* An operation whose race is not under way returns an answer. *)
LEMMA AnswerReturned ==
  ASSUME SolverInv, NEW r \in Answer, Return(r), pc \in BusyPCs \ {"race", "leave"},
         r.kind \in Yields(call.op), UNCHANGED <<verdicts, reply, contest, refining>>, Truth'
  PROVE  SolverInv'
  <1>1. UNCHANGED <<checks, point, low, high, race, taken, by, current, pace, sense, round, sure, f, call>>
    BY DEF verdicts, reply, contest, refining, Return
  <1>2. SolverTypeOK'
    BY <1>1 DEF SolverInv, SolverTypeOK, Return, Answer
  <1>3. Quiet'
    BY <1>1 DEF SolverInv, Racing, Quiet
  <1>4. QED BY <1>2, <1>3, Returned DEF Answer

LEMMA YieldsHas ==
  /\ Yields("eval_interval") = {"enclosure"} /\ Yields("find_bounds") = {"bounds"}
  /\ Yields("verify_bound") = {"verified", "obstructed", "unsupported", "inconclusive"}
  /\ Yields("discover") = {"rejected", "inconclusive"} /\ Yields("find_roots") = {"roots"}
  /\ Yields("find_unique_root") = {"unique", "not_unique"} /\ Yields("root_witness") = {"root"}
  /\ Yields("min_witness") = {"min"} /\ Yields("max_witness") = {"max"}
  /\ Yields("diagnose") = {"diagnosis", "no_diagnosis"} /\ Yields("lipschitz") = {"lipschitz"}
  BY DEF Yields

(* Where an operation is, it is busy with it. *)
LEMMA AtStep ==
  ASSUME SolverInv, pc \in BusyPCs
  PROVE  call.op \in Operations /\ pc \in Route(call.op) /\ result.kind = "none"
  BY DEF SolverInv, SolverTypeOK, Call, Flow, Busy

LEMMA BackendTyped == ASSUME SolverTypeOK PROVE Backend \in Strategies
  BY DEF SolverTypeOK, Call, Backend, Strategies

LEMMA EvalIntervalStep ==
  ASSUME SolverInv, EvalInterval PROVE SolverInv'
  <1>1. pc = "eval" /\ pc \in BusyPCs \ {"race", "leave"}
    BY DEF EvalInterval, BusyPCs, SolverPCs
  <1>2. call.op = "eval_interval"
    BY <1>1, AtStep, RouteOf
  <1>3. PICK e \in Enclosure :
             /\ \A c \in call.box : e.lo <= f[c] /\ f[c] <= e.hi
             /\ Return([NoResult EXCEPT !.kind = "enclosure", !.low = e.lo, !.high = e.hi, !.by = Backend])
    BY DEF EvalInterval
  <1> DEFINE r == [NoResult EXCEPT !.kind = "enclosure", !.low = e.lo, !.high = e.hi, !.by = Backend]
  <1>4. e.lo \in Int /\ e.hi \in Int /\ Backend \in Strategies
    BY Ints, BackendTyped DEF SolverInv
  <1>5. r \in Answer /\ r.kind = "enclosure" /\ r.low = e.lo /\ r.high = e.hi
    BY <1>4, EmptyResult DEF Answer, Kinds, NoResult
  <1> HIDE DEF r
  <1>6. result' = r /\ UNCHANGED <<f, call>> /\ Return(r)
    BY <1>3 DEF Return, r
  <1>7. Truth'
    BY <1>3, <1>5, <1>6 DEF Truth, AnswersTrue, RefinedInside, RefinedChecked, ByWhom, Steep, Holds
  <1>8. UNCHANGED <<verdicts, reply, contest, refining>>
    BY DEF EvalInterval, locals
  <1>9. r.kind \in Yields(call.op)
    BY <1>2, <1>5, YieldsHas
  <1>10. QED BY <1>1, <1>5, <1>6, <1>7, <1>8, <1>9, AnswerReturned

LEMMA FindMinStep ==
  ASSUME SolverInv, FindMin PROVE SolverInv'
  <1>1. pc = "min" /\ pc \in BusyPCs /\ pc \notin {"race", "leave"}
    BY DEF FindMin, BusyPCs, SolverPCs
  <1>2. call.op = "find_bounds"
    BY <1>1, AtStep, RouteOf
  <1>3. PICK e \in OfLeast(call.box) : low' = e.lo
    BY DEF FindMin
  <1>4. e \in Enclosure /\ \A c \in call.box : e.lo <= f[c]
    BY <1>3 DEF OfLeast
  <1>5. Goto("max") /\ "max" \in Route(call.op)
    BY <1>2, RouteHas DEF FindMin
  <1>6. UNCHANGED <<checks, point, high, race, taken, by, current, pace, sense, round, sure, f, call, result>>
        /\ pc' = "max"
    BY <1>5 DEF FindMin, verdicts, contest, refining, Goto
  <1>7. SolverTypeOK'
    BY <1>3, <1>4, <1>6, Ints DEF SolverInv, SolverTypeOK
  <1>8. Racing'
    BY <1>1, <1>6 DEF SolverInv, Racing, Quiet
  <1>9. Partial'
    BY <1>3, <1>4, <1>6 DEF Partial, Holds
  <1>10. QED BY <1>1, <1>5, <1>7, <1>8, <1>9, WentOn

LEMMA FindMaxStep ==
  ASSUME SolverInv, FindMax PROVE SolverInv'
  <1>1. pc = "max" /\ pc \in BusyPCs /\ pc \notin {"race", "leave"}
    BY DEF FindMax, BusyPCs, SolverPCs
  <1>2. call.op = "find_bounds"
    BY <1>1, AtStep, RouteOf
  <1>3. PICK e \in OfGreatest(call.box) :
             /\ high' = e.hi
             /\ Return([NoResult EXCEPT !.kind = "bounds", !.low = low, !.high = e.hi, !.by = Backend])
    BY DEF FindMax
  <1> DEFINE r == [NoResult EXCEPT !.kind = "bounds", !.low = low, !.high = e.hi, !.by = Backend]
  <1>4. e \in Enclosure /\ \A c \in call.box : f[c] <= e.hi
    BY <1>3 DEF OfGreatest
  <1>5. e.hi \in Int /\ low \in Int /\ Backend \in Strategies
    BY <1>4, Ints, BackendTyped DEF SolverInv, SolverTypeOK
  <1>6. r \in Answer /\ r.kind = "bounds" /\ r.low = low /\ r.high = e.hi
    BY <1>5, EmptyResult DEF Answer, Kinds, NoResult
  <1> HIDE DEF r
  <1>7. UNCHANGED <<checks, point, low, race, taken, by, current, pace, sense, round, sure, f, call>>
        /\ result' = r /\ Return(r)
    BY <1>3 DEF FindMax, verdicts, contest, refining, Return, r
  <1>8. SolverTypeOK'
    BY <1>3, <1>5, <1>6, <1>7 DEF SolverInv, SolverTypeOK, Answer
  <1>9. Quiet'
    BY <1>1, <1>7 DEF SolverInv, Racing, Quiet
  <1>10. \A c \in call.box : low <= f[c]
    BY <1>1 DEF SolverInv, Partial, Holds
  <1>11. Truth'
    BY <1>4, <1>6, <1>7, <1>10 DEF Truth, AnswersTrue, RefinedInside, RefinedChecked, ByWhom, Steep, Holds
  <1>12. r.kind \in Yields(call.op)
    BY <1>2, <1>6, YieldsHas
  <1>13. QED BY <1>1, <1>6, <1>7, <1>8, <1>9, <1>11, <1>12, Returned DEF Answer

LEMMA DiagnoseStep ==
  ASSUME SolverInv, Diagnose PROVE SolverInv'
  <1>1. pc = "diagnose" /\ pc \in BusyPCs \ {"race", "leave"}
    BY DEF Diagnose, BusyPCs, SolverPCs
  <1>2. call.op = "diagnose"
    BY <1>1, AtStep, RouteOf
  <1>3. UNCHANGED <<verdicts, reply, contest, refining>>
    BY DEF Diagnose, locals
  <1>4. PICK e \in OfGreatest(call.box), g \in OfLeast(call.box) :
             Return(IF \E v \in call.upper : e.hi > v
                THEN [NoResult EXCEPT !.kind = "diagnosis", !.value = SuggestUpper(e.hi), !.high = e.hi]
                ELSE IF \E v \in call.lower : g.lo < v
                THEN [NoResult EXCEPT !.kind = "diagnosis", !.value = (g.lo * 99) \div 100,
                                      !.low = g.lo]
                ELSE [NoResult EXCEPT !.kind = "no_diagnosis"])
    BY DEF Diagnose
  <1>5. /\ e.hi \in Int /\ \A c \in call.box : f[c] <= e.hi
        /\ g.lo \in Int /\ \A c \in call.box : g.lo <= f[c]
        /\ \A c \in call.box : f[c] \in Int
        /\ call.upper \subseteq Int /\ call.lower \subseteq Int
    BY Ints DEF OfGreatest, OfLeast, SolverInv, SolverTypeOK, Call, Optional
  <1>6. CASE \E v \in call.upper : e.hi > v
    <2> DEFINE r == [NoResult EXCEPT !.kind = "diagnosis", !.value = SuggestUpper(e.hi), !.high = e.hi]
    <2>1. SuggestUpper(e.hi) \in Int /\ (e.hi > 0 => e.hi <= SuggestUpper(e.hi))
      BY <1>5 DEF SuggestUpper
    <2>2. r \in Answer /\ r.kind = "diagnosis" /\ r.value = SuggestUpper(e.hi) /\ r.high = e.hi /\ r.low = 0
      BY <1>5, <2>1, EmptyResult DEF Answer, Kinds, NoResult
    <2> HIDE DEF r
    <2>3. result' = r /\ UNCHANGED <<f, call>> /\ Return(r)
      BY <1>4, <1>6 DEF Return, r
    <2>4. e.hi > 0 => \A c \in call.box : f[c] <= SuggestUpper(e.hi)
      BY <1>5, <2>1
    <2>5. Truth'
      BY <2>2, <2>3, <2>4 DEF Truth, AnswersTrue, RefinedInside, RefinedChecked, ByWhom, Steep, Holds
    <2>6. r.kind \in Yields(call.op)
      BY <1>2, <2>2, YieldsHas
    <2>7. QED BY <1>1, <1>3, <2>2, <2>3, <2>5, <2>6, AnswerReturned
  <1>7. CASE ~(\E v \in call.upper : e.hi > v) /\ \E v \in call.lower : g.lo < v
    <2> DEFINE r == [NoResult EXCEPT !.kind = "diagnosis", !.value = (g.lo * 99) \div 100, !.low = g.lo]
    <2>1. (g.lo * 99) \div 100 \in Int /\ (g.lo > 0 => (g.lo * 99) \div 100 <= g.lo)
      BY <1>5
    <2>2. r \in Answer /\ r.kind = "diagnosis" /\ r.value = (g.lo * 99) \div 100 /\ r.low = g.lo /\ r.high = 0
      BY <1>5, <2>1, EmptyResult DEF Answer, Kinds, NoResult
    <2> HIDE DEF r
    <2>3. result' = r /\ UNCHANGED <<f, call>> /\ Return(r)
      BY <1>4, <1>7 DEF Return, r
    <2>4. g.lo > 0 => \A c \in call.box : (g.lo * 99) \div 100 <= f[c]
      BY <1>5, <2>1
    <2>5. Truth'
      BY <2>2, <2>3, <2>4 DEF Truth, AnswersTrue, RefinedInside, RefinedChecked, ByWhom, Steep, Holds
    <2>6. r.kind \in Yields(call.op)
      BY <1>2, <2>2, YieldsHas
    <2>7. QED BY <1>1, <1>3, <2>2, <2>3, <2>5, <2>6, AnswerReturned
  <1>8. CASE ~(\E v \in call.upper : e.hi > v) /\ ~(\E v \in call.lower : g.lo < v)
    <2> DEFINE r == [NoResult EXCEPT !.kind = "no_diagnosis"]
    <2>1. r \in Answer /\ r.kind = "no_diagnosis"
      BY EmptyResult DEF Answer, Kinds, NoResult
    <2> HIDE DEF r
    <2>2. result' = r /\ UNCHANGED <<f, call>> /\ Return(r)
      BY <1>4, <1>8 DEF Return, r
    <2>3. \A c \in call.box : (\A v \in call.upper : f[c] <= v) /\ (\A v \in call.lower : v <= f[c])
      BY <1>5, <1>8
    <2>4. \A d \in Directions : \A v \in Bound(d) : Holds(d, v)
      BY <2>3 DEF Directions, Bound, Holds
    <2>5. Truth'
      BY <2>1, <2>2, <2>4 DEF Truth, AnswersTrue, RefinedInside, RefinedChecked, ByWhom, Steep, Holds, Bound
    <2>6. r.kind \in Yields(call.op)
      BY <1>2, <2>1, YieldsHas
    <2>7. QED BY <1>1, <1>3, <2>1, <2>2, <2>5, <2>6, AnswerReturned
  <1>9. QED BY <1>6, <1>7, <1>8

LEMMA LipschitzStep ==
  ASSUME SolverInv, Lipschitz PROVE SolverInv'
  <1>1. pc = "derive" /\ pc \in BusyPCs \ {"race", "leave"}
    BY DEF Lipschitz, BusyPCs, SolverPCs
  <1>2. call.op = "lipschitz"
    BY <1>1, AtStep, RouteOf
  <1>3. UNCHANGED <<verdicts, reply, contest, refining>>
    BY DEF Lipschitz, locals
  <1>4. PICK L \in Slopes(call.box) : Return([NoResult EXCEPT !.kind = "lipschitz", !.value = L])
    BY DEF Lipschitz
  <1>5. /\ L \in Int /\ L >= 0
        /\ \A c, e \in call.box : Abs(f[c] - f[e]) <= L * Abs(c - e)
    BY SolverAssumption DEF Slopes
  <1> DEFINE r == [NoResult EXCEPT !.kind = "lipschitz", !.value = L]
  <1>6. r \in Answer /\ r.kind = "lipschitz" /\ r.value = L
    BY <1>5, EmptyResult DEF Answer, Kinds, NoResult
  <1> HIDE DEF r
  <1>7. result' = r /\ UNCHANGED <<f, call>> /\ Return(r)
    BY <1>4 DEF Return, r
  <1>8. Steep'
    BY <1>5, <1>6, <1>7 DEF Steep
  <1>9. Truth'
    BY <1>6, <1>7, <1>8 DEF Truth, AnswersTrue, RefinedInside, RefinedChecked, ByWhom
  <1>10. r.kind \in Yields(call.op)
    BY <1>2, <1>6, YieldsHas
  <1>11. QED BY <1>1, <1>3, <1>6, <1>7, <1>9, <1>10, AnswerReturned

LEMMA CheckBoundStep ==
  ASSUME SolverInv, CheckBound PROVE SolverInv'
  <1>1. pc = "check" /\ pc \in BusyPCs /\ pc \notin {"race", "leave"} /\ Goto("check")
    BY DEF CheckBound, BusyPCs, SolverPCs
  <1>2. PICK d \in Directions, s \in Statuses :
             /\ s = "verified" => \A v \in Bound(d) : Holds(d, v)
             /\ checks' = [checks EXCEPT ![d] = s]
    BY DEF CheckBound
  <1>3. UNCHANGED <<point, low, high, race, taken, by, current, pace, sense, round, sure, f, call, result>>
        /\ pc' = "check"
    BY <1>1 DEF CheckBound, reply, contest, refining, Goto
  <1>4. SolverTypeOK'
    BY <1>2, <1>3 DEF SolverInv, SolverTypeOK
  <1>5. Racing'
    BY <1>1, <1>3 DEF SolverInv, Racing, Quiet
  <1>6. \A x \in Directions : checks'[x] = IF x = d THEN s ELSE checks[x]
    BY <1>2 DEF SolverInv, SolverTypeOK
  <1>7. \A x \in Directions : checks'[x] = "verified" => \A v \in Bound(x) : Holds(x, v)
    BY <1>1, <1>2, <1>6 DEF SolverInv, Partial
  <1>8. \A x \in Directions : Bound(x)' = Bound(x) /\ \A v : Holds(x, v)' <=> Holds(x, v)
    BY <1>3 DEF Bound, Holds
  <1>9. Partial'
    BY <1>3, <1>7, <1>8 DEF Partial
  <1>10. "check" \in Route(call.op)
    BY <1>1, AtStep
  <1>11. QED BY <1>1, <1>4, <1>5, <1>9, <1>10, WentOn

LEMMA JudgeStep ==
  ASSUME SolverInv, Judge PROVE SolverInv'
  <1> DEFINE have == {checks[d] : d \in Asked}
             r == [NoResult EXCEPT !.kind = Verdict(have)]
  <1>1. pc = "check" /\ pc \in BusyPCs \ {"race", "leave"} /\ UNCHANGED <<verdicts, reply, contest, refining>>
    BY DEF Judge, locals, BusyPCs, SolverPCs
  <1>2. call.op = "verify_bound"
    BY <1>1, AtStep, RouteOf
  <1>3. /\ Verdict(have) \in {"verified", "obstructed", "unsupported", "inconclusive"}
        /\ Verdict(have) = "verified" => have \subseteq {"verified"}
    BY DEF Verdict
  <1>4. Return(r)
    BY DEF Judge
  <1> HIDE DEF have
  <1>5. r \in Answer /\ r.kind = Verdict(have)
    BY <1>3, EmptyResult DEF Answer, Kinds, NoResult
  <1> HIDE DEF r
  <1>6. result' = r /\ UNCHANGED <<f, call>>
    BY <1>4 DEF Return
  <1>7. r.kind = "verified" => \A d \in Directions : \A v \in Bound(d) : Holds(d, v)
    <2>1. SUFFICES ASSUME r.kind = "verified", NEW d \in Directions, NEW v \in Bound(d)
                   PROVE  Holds(d, v)
      OBVIOUS
    <2>2. d \in Asked
      BY <2>1 DEF Asked
    <2>3. checks[d] = "verified"
      BY <1>3, <1>5, <2>1, <2>2 DEF have
    <2>4. QED BY <1>1, <2>1, <2>3 DEF SolverInv, Partial
  <1>8. Truth'
    BY <1>3, <1>5, <1>6, <1>7
       DEF Truth, AnswersTrue, RefinedInside, RefinedChecked, ByWhom, Steep, Holds, Bound
  <1>9. r.kind \in Yields(call.op)
    BY <1>2, <1>3, <1>5, YieldsHas
  <1>10. QED BY <1>1, <1>4, <1>5, <1>8, <1>9, AnswerReturned

LEMMA SearchStep ==
  ASSUME SolverInv, Search PROVE SolverInv'
  <1>1. pc = "search" /\ pc \in BusyPCs /\ pc \notin {"race", "leave"}
    BY DEF Search, BusyPCs, SolverPCs
  <1>2. PICK d \in Directions, b \in BestBox :
             /\ checks' = [checks EXCEPT ![d] = "inconclusive"]
             /\ \/ b = 0 /\ UNCHANGED point /\ Goto("search")
                \/ b # 0 /\ point' \in Rounded(call.box) /\ Goto("point")
    BY DEF Search
  <1>3. PICK where \in {"search", "point"} : Goto(where)
    BY <1>2
  <1>4. point' \in Cells \cup {0}
    BY <1>2 DEF SolverInv, SolverTypeOK, Rounded
  <1>5. UNCHANGED <<low, high, race, taken, by, current, pace, sense, round, sure, f, call, result>>
        /\ pc' = where
    BY <1>3 DEF Search, reply, contest, refining, Goto
  <1>6. checks' \in [Directions -> Statuses \cup {"none", "rejected"}]
    BY <1>2 DEF SolverInv, SolverTypeOK, Statuses
  <1>7. SolverTypeOK'
    BY <1>4, <1>5, <1>6 DEF SolverInv, SolverTypeOK
  <1>8. Racing'
    BY <1>1, <1>5 DEF SolverInv, Racing, Quiet
  <1>9. Partial'
    BY <1>2, <1>5 DEF Partial, Goto, Rounded
  <1>10. where \in Route(call.op)
    BY <1>1, AtStep, RouteOf, RouteHas
  <1>11. QED BY <1>1, <1>3, <1>7, <1>8, <1>9, <1>10, WentOn

LEMMA TestPointStep ==
  ASSUME SolverInv, TestPoint PROVE SolverInv'
  <1>1. pc = "point" /\ pc \in BusyPCs /\ pc \notin {"race", "leave"}
    BY DEF TestPoint, BusyPCs, SolverPCs
  <1>2. call.op = "discover"
    BY <1>1, AtStep, RouteOf
  <1>3. UNCHANGED <<point, low, high, race, taken, by, current, pace, sense, round, sure>>
    BY DEF TestPoint, reply, contest, refining
  <1>4. PICK e \in Enclosure, v \in Bound(Searched) :
             /\ e.lo <= f[point] /\ f[point] <= e.hi
             /\ IF Violates(Searched, e, v)
                  THEN /\ Return([NoResult EXCEPT !.kind = "rejected", !.point = point])
                       /\ checks' = [checks EXCEPT ![Searched] = "rejected"]
                  ELSE Goto("search") /\ UNCHANGED checks
    BY DEF TestPoint
  <1>5. Searched \in Directions
    BY DEF Searched, Directions
  <1>6. CASE ~Violates(Searched, e, v)
    <2>1. Goto("search") /\ UNCHANGED <<checks, f, call, result>> /\ pc' = "search"
      BY <1>4, <1>6 DEF Goto
    <2>2. SolverTypeOK'
      BY <1>3, <2>1 DEF SolverInv, SolverTypeOK
    <2>3. Racing'
      BY <1>1, <1>3, <2>1 DEF SolverInv, Racing, Quiet
    <2>4. Partial'
      BY <2>1 DEF Partial
    <2>5. "search" \in Route(call.op)
      BY <1>2, RouteHas
    <2>6. QED BY <1>1, <2>1, <2>2, <2>3, <2>4, <2>5, WentOn
  <1>7. CASE Violates(Searched, e, v)
    <2> DEFINE r == [NoResult EXCEPT !.kind = "rejected", !.point = point]
    <2>1. point \in Cells \cup {0}
      BY DEF SolverInv, SolverTypeOK
    <2>2. r \in Answer /\ r.kind = "rejected" /\ r.point = point
      BY <2>1, EmptyResult DEF Answer, Kinds, NoResult
    <2>3. Return(r) /\ checks' = [checks EXCEPT ![Searched] = "rejected"]
      BY <1>4, <1>7
    <2> HIDE DEF r
    <2>4. result' = r /\ UNCHANGED <<f, call>>
      BY <2>3 DEF Return
    <2>5. SolverTypeOK'
      BY <1>3, <1>5, <2>2, <2>3, <2>4 DEF SolverInv, SolverTypeOK, Answer
    <2>6. Quiet'
      BY <1>1, <1>3 DEF SolverInv, Racing, Quiet
    <2>7. point \in Cells /\ f[point] \in Int /\ e.lo \in Int /\ e.hi \in Int /\ v \in Int
      BY <1>1, <1>5, Ints DEF SolverInv, Partial
    <2>8. IF Searched = "lower" THEN f[point] < v ELSE f[point] > v
      BY <1>4, <1>7, <2>7 DEF Violates
    <2>9. \E d \in Directions : \E w \in Bound(d) : IF d = "lower" THEN f[r.point] < w ELSE f[r.point] > w
      BY <1>5, <2>2, <2>8
    <2>10. Truth'
      BY <2>2, <2>4, <2>9 DEF Truth, AnswersTrue, RefinedInside, RefinedChecked, ByWhom, Steep, Bound
    <2>11. r.kind \in Yields(call.op)
      BY <1>2, <2>2, YieldsHas
    <2>12. QED BY <1>1, <2>2, <2>3, <2>5, <2>6, <2>10, <2>11, Returned DEF Answer
  <1>8. QED BY <1>6, <1>7

LEMMA GiveUpSearchStep ==
  ASSUME SolverInv, GiveUpSearch PROVE SolverInv'
  <1> DEFINE r == [NoResult EXCEPT !.kind = "inconclusive", !.point = point]
  <1>1. pc = "search" /\ pc \in BusyPCs \ {"race", "leave"} /\ Return(r)
        /\ UNCHANGED <<verdicts, reply, contest, refining>>
    BY DEF GiveUpSearch, locals, BusyPCs, SolverPCs
  <1>2. call.op = "discover"
    BY <1>1, AtStep, RouteOf
  <1>3. point \in Cells \cup {0}
    BY DEF SolverInv, SolverTypeOK
  <1>4. r \in Answer /\ r.kind = "inconclusive"
    BY <1>3, EmptyResult DEF Answer, Kinds, NoResult
  <1> HIDE DEF r
  <1>5. Truth'
    BY <1>1, <1>4 DEF Return, Truth, AnswersTrue, RefinedInside, RefinedChecked, ByWhom, Steep
  <1>6. r.kind \in Yields(call.op)
    BY <1>2, <1>4, YieldsHas
  <1>7. QED BY <1>1, <1>4, <1>5, <1>6, AnswerReturned

LEMMA NewtonStep ==
  ASSUME SolverInv, Newton PROVE SolverInv'
  <1>1. pc = "newton" /\ pc \in BusyPCs /\ pc \notin {"race", "leave"} /\ UNCHANGED locals
        /\ UNCHANGED <<verdicts, reply, contest, refining>>
    BY DEF Newton, locals, BusyPCs, SolverPCs
  <1>2. PICK seg \in Segments, unique \in BOOLEAN :
             /\ unique => HasZero(seg)
             /\ LET answer(kind) == [NoResult EXCEPT !.kind = kind,
                                                     !.roots = <<[seg |-> seg, status |-> "confirmed"]>>]
                IN  \/ call.op = "find_unique_root"
                         /\ Return(IF unique THEN answer("unique")
                                             ELSE [NoResult EXCEPT !.kind = "not_unique"])
                    \/ call.op = "root_witness" /\ unique /\ Return(answer("root"))
                    \/ call.op = "root_witness" /\ ~unique /\ Goto("signs")
    BY DEF Newton
  <1> DEFINE roots == <<[seg |-> seg, status |-> "confirmed"]>>
             answer(kind) == [NoResult EXCEPT !.kind = kind, !.roots = roots]
  <1>3. [seg |-> seg, status |-> "confirmed"] \in Root
    BY SolverAssumption DEF Root
  <1>4. roots \in Seq(Root) /\ roots[1].seg = seg
    BY <1>3
  <1> HIDE DEF roots
  <1>5. ASSUME NEW kind \in {"unique", "root"}
        PROVE  answer(kind) \in Answer /\ answer(kind).kind = kind /\ answer(kind).roots = roots
    BY <1>4, EmptyResult DEF Answer, Kinds, NoResult
  <1>6. [NoResult EXCEPT !.kind = "not_unique"] \in Answer /\ [NoResult EXCEPT !.kind = "not_unique"].kind = "not_unique"
    BY EmptyResult DEF Answer, Kinds, NoResult
  <1> HIDE DEF answer
  <1>7. CASE call.op = "find_unique_root" /\ unique /\ Return(answer("unique"))
    <2>1. Truth'
      BY <1>5, <1>7 DEF Return, Truth, AnswersTrue, RefinedInside, RefinedChecked, ByWhom, Steep
    <2>2. QED BY <1>1, <1>5, <1>7, <2>1, YieldsHas, AnswerReturned
  <1>8. CASE call.op = "find_unique_root" /\ Return([NoResult EXCEPT !.kind = "not_unique"])
    <2>1. Truth'
      BY <1>6, <1>8 DEF Return, Truth, AnswersTrue, RefinedInside, RefinedChecked, ByWhom, Steep
    <2>2. QED BY <1>1, <1>6, <1>8, <2>1, YieldsHas, AnswerReturned
  <1>9. CASE call.op = "root_witness" /\ unique /\ Return(answer("root"))
    <2>1. HasZero(seg)
      BY <1>2, <1>9
    <2>2. result' = answer("root") /\ UNCHANGED <<f, call>>
      BY <1>9 DEF Return
    <2>3. result'.kind = "root" /\ result'.roots[1].seg = seg
      BY <1>4, <1>5, <2>2
    <2>4. HasZero(result.roots[1].seg)'
      BY <2>1, <2>2, <2>3 DEF HasZero
    <2>5. Truth'
      BY <2>3, <2>4 DEF Truth, AnswersTrue, RefinedInside, RefinedChecked, ByWhom, Steep
    <2>6. QED BY <1>1, <1>5, <1>9, <2>5, YieldsHas, AnswerReturned
  <1>10. CASE call.op = "root_witness" /\ Goto("signs")
    <2>1. UNCHANGED <<checks, point, low, high, race, taken, by, current, pace, sense, round, sure, f, call, result>>
          /\ pc' = "signs"
      BY <1>1, <1>10 DEF Goto, verdicts, reply, contest, refining
    <2>2. SolverTypeOK'
      BY <2>1 DEF SolverInv, SolverTypeOK
    <2>3. Racing'
      BY <1>1, <2>1 DEF SolverInv, Racing, Quiet
    <2>4. Partial'
      BY <2>1 DEF Partial
    <2>5. "signs" \in Route(call.op)
      BY <1>10, RouteHas
    <2>6. QED BY <1>1, <1>10, <2>2, <2>3, <2>4, <2>5, WentOn
  <1>11. QED BY <1>2, <1>7, <1>8, <1>9, <1>10 DEF answer, roots

LEMMA HonestTyped ==
  ASSUME NEW roots \in RootLists
  PROVE  /\ roots \in Seq(Root)
         /\ \A k \in 1..Len(roots) : roots[k] \in Root /\ (Confirmed(roots[k]) => HasZero(roots[k].seg))
  <1>1. \A r \in HonestRoots : r \in Root /\ (Confirmed(r) => HasZero(r.seg))
    BY SolverAssumption DEF HonestRoots, Root, Confirmed
  <1>2. roots \in Seq(HonestRoots)
    <2>1. CASE roots = <<>>
      BY <2>1
    <2>2. CASE \E r \in HonestRoots : roots = <<r>>
      BY <2>2
    <2>3. CASE \E q \in HonestRoots \X HonestRoots : roots = <<q[1], q[2]>>
      BY <2>3
    <2>4. QED BY <2>1, <2>2, <2>3 DEF RootLists
  <1>3. \A k \in 1..Len(roots) : roots[k] \in HonestRoots
    BY <1>2
  <1>4. roots \in Seq(Root)
    BY <1>1, <1>2
  <1>5. QED BY <1>1, <1>3, <1>4

LEMMA FindRootsStep ==
  ASSUME SolverInv, FindRoots PROVE SolverInv'
  <1>1. pc = "signs" /\ pc \in BusyPCs \ {"race", "leave"} /\ UNCHANGED <<verdicts, reply, contest, refining>>
    BY DEF FindRoots, locals, BusyPCs, SolverPCs
  <1>2. PICK roots \in RootLists :
         \/ call.op = "find_roots"
              /\ Return([NoResult EXCEPT !.kind = "roots", !.roots = roots])
         \/ call.op = "root_witness" /\ \E k \in 1..Len(roots) :
              FirstConfirmed(roots, k)
                /\ Return([NoResult EXCEPT !.kind = "root", !.roots = <<roots[k]>>])
         \/ call.op = "root_witness" /\ Raise
    BY DEF FindRoots
  <1>3. CASE call.op = "find_roots" /\ Return([NoResult EXCEPT !.kind = "roots", !.roots = roots])
    <2> DEFINE r == [NoResult EXCEPT !.kind = "roots", !.roots = roots]
    <2>1. r \in Answer /\ r.kind = "roots"
      BY HonestTyped, EmptyResult DEF Answer, Kinds, NoResult
    <2> HIDE DEF r
    <2>2. Return(r)
      BY <1>3 DEF r
    <2>3. Truth'
      BY <2>1, <2>2 DEF Return, Truth, AnswersTrue, RefinedInside, RefinedChecked, ByWhom, Steep
    <2>4. QED BY <1>1, <1>3, <2>1, <2>2, <2>3, YieldsHas, AnswerReturned
  <1>4. ASSUME call.op = "root_witness", NEW k \in 1..Len(roots), FirstConfirmed(roots, k),
               Return([NoResult EXCEPT !.kind = "root", !.roots = <<roots[k]>>])
        PROVE  SolverInv'
    <2> DEFINE found_ == <<roots[k]>>
               r == [NoResult EXCEPT !.kind = "root", !.roots = found_]
    <2>1. roots[k] \in Root /\ HasZero(roots[k].seg)
      BY <1>4, HonestTyped DEF FirstConfirmed
    <2>2. found_ \in Seq(Root) /\ found_[1] = roots[k]
      BY <2>1
    <2>3. Return(r)
      BY <1>4
    <2> HIDE DEF found_
    <2>4. r \in Answer /\ r.kind = "root" /\ r.roots = found_
      BY <2>2, EmptyResult DEF Answer, Kinds, NoResult
    <2> HIDE DEF r
    <2>5. result' = r /\ UNCHANGED <<f, call>>
      BY <2>3 DEF Return
    <2>6. result'.kind = "root" /\ result'.roots[1].seg = roots[k].seg
      BY <2>2, <2>4, <2>5
    <2>7. HasZero(result.roots[1].seg)'
      BY <2>1, <2>5, <2>6 DEF HasZero
    <2>8. Truth'
      BY <2>6, <2>7 DEF Truth, AnswersTrue, RefinedInside, RefinedChecked, ByWhom, Steep
    <2>9. QED BY <1>1, <1>4, <2>3, <2>4, <2>8, YieldsHas, AnswerReturned
  <1>5. CASE Raise
    <2>1. race' \in [Strategies -> Futures] /\ Quiet'
      BY <1>1 DEF SolverInv, SolverTypeOK, Racing, Quiet, contest
    <2>2. SolverTypeOK'
      BY <1>1, <1>5, <2>1, RaisedType DEF SolverInv, contest
    <2>3. QED BY <1>1, <1>5, <2>1, <2>2, Raised
  <1>6. QED BY <1>2, <1>3, <1>4, <1>5

-----------------------------------------------------------------------------
(* Witnesses                                                                *)

(* The optimum is enclosed by an interval whose ends are in order. *)
LEMMA OptimumOrdered ==
  ASSUME SolverTypeOK, NEW e \in OfOptimum(call.op, call.box)
  PROVE  e.lo \in Int /\ e.hi \in Int /\ e.lo <= e.hi
  <1>1. e \in OfLeast(call.box) \/ e \in OfGreatest(call.box)
    BY DEF OfOptimum
  <1>2. \A c \in call.box : f[c] \in Int
    BY Ints
  <1>3. e \in Enclosure /\ \E c \in call.box : e.lo <= f[c] /\ f[c] <= e.hi
    BY <1>1 DEF OfLeast, OfGreatest
  <1>4. e.lo \in Int /\ e.hi \in Int
    BY <1>3, Ints
  <1>5. QED BY <1>2, <1>3, <1>4

LEMMA AtOptimum ==
  ASSUME SolverInv, pc \in OptimumPCs
  PROVE  pc \in BusyPCs /\ call.op \in Optima /\ Route(call.op) = OptimumPCs /\ result.kind = "none"
  <1>1. pc \in BusyPCs
    BY DEF OptimumPCs, BusyPCs, SolverPCs
  <1>2. QED BY <1>1, AtStep, RouteOf, RouteHas

LEMMA TakeFutureStep ==
  ASSUME SolverInv, NEW s \in Strategies, TakeFuture(s) PROVE SolverInv'
  <1>1. pc = "race" /\ pc \in OptimumPCs /\ s \notin taken /\ taken' = taken \cup {s}
    BY DEF TakeFuture, OptimumPCs
  <1>2. pc \in BusyPCs /\ Route(call.op) = OptimumPCs /\ by = "none"
        /\ \A t \in taken : race[t] = "failed"
    BY <1>1, AtOptimum DEF SolverInv, Racing
  <1>3. UNCHANGED <<checks, point, current, pace, sense, round, sure>>
    BY DEF TakeFuture, verdicts, refining
  <1>4. CASE /\ race[s] = "ok"
             /\ \E e \in OfOptimum(call.op, call.box) : low' = e.lo /\ high' = e.hi
             /\ by' = s /\ race' = Cancelled /\ Goto("leave")
    <2>1. PICK e \in OfOptimum(call.op, call.box) : low' = e.lo /\ high' = e.hi
      BY <1>4
    <2>2. low' \in Int /\ high' \in Int /\ low' <= high'
      BY <2>1, OptimumOrdered DEF SolverInv
    <2>3. race' \in [Strategies -> Futures] /\ race'[s] = "ok"
      BY <1>4 DEF Cancelled, SolverInv, SolverTypeOK, Futures
    <2>4. pc' = "leave" /\ by' = s /\ UNCHANGED <<f, call, result>>
      BY <1>4 DEF Goto
    <2>5. SolverTypeOK'
      BY <1>1, <1>3, <2>2, <2>3, <2>4 DEF SolverInv, SolverTypeOK
    <2>6. s # "none"
      BY DEF Strategies
    <2>7. Racing'
      BY <2>3, <2>4, <2>6 DEF Racing
    <2>8. Partial'
      BY <2>2, <2>4 DEF Partial
    <2>9. QED BY <1>2, <1>4, <2>5, <2>7, <2>8, WentOn DEF OptimumPCs
  <1>5. CASE race[s] = "failed" /\ Goto("race") /\ UNCHANGED <<reply, by, race>>
    <2>1. pc' = "race" /\ UNCHANGED <<f, call, result, low, high, by, race>>
      BY <1>5 DEF Goto, reply
    <2>2. SolverTypeOK'
      BY <1>1, <1>3, <2>1 DEF SolverInv, SolverTypeOK
    <2>3. Racing'
      BY <1>1, <1>2, <1>5, <2>1 DEF Racing
    <2>4. Partial'
      BY <2>1 DEF Partial
    <2>5. QED BY <1>2, <1>5, <2>2, <2>3, <2>4, WentOn DEF OptimumPCs
  <1>6. QED BY <1>4, <1>5 DEF TakeFuture

LEMMA EndOfRaceSteps ==
  ASSUME SolverInv, TimeOut \/ AllFailed PROVE SolverInv'
  <1>1. pc = "race" /\ pc \in OptimumPCs /\ Goto("leave") /\ UNCHANGED locals
    BY DEF TimeOut, AllFailed, OptimumPCs
  <1>2. pc \in BusyPCs /\ Route(call.op) = OptimumPCs
    BY <1>1, AtOptimum
  <1>3. pc' = "leave" /\ UNCHANGED <<checks, point, low, high, race, taken, by, current, pace, sense, round, sure,
                                     f, call, result>>
    BY <1>1 DEF Goto, locals, verdicts, reply, contest, refining
  <1>4. SolverTypeOK'
    BY <1>3 DEF SolverInv, SolverTypeOK
  <1>5. Racing'
    BY <1>1, <1>3 DEF SolverInv, Racing
  <1>6. Partial'
    BY <1>1, <1>3 DEF SolverInv, Racing, Partial
  <1>7. QED BY <1>1, <1>2, <1>4, <1>5, <1>6, WentOn DEF OptimumPCs

LEMMA LeaveStep ==
  ASSUME SolverInv, Leave PROVE SolverInv'
  <1>1. pc = "leave" /\ pc \in OptimumPCs /\ Quiet /\ UNCHANGED locals
    BY DEF Leave, OptimumPCs
  <1>2. pc \in BusyPCs /\ Route(call.op) = OptimumPCs
    BY <1>1, AtOptimum
  <1>3. UNCHANGED <<checks, point, low, high, race, taken, by, current, pace, sense, round, sure>>
    BY <1>1 DEF locals, verdicts, reply, contest, refining
  <1>4. Quiet'
    BY <1>1, <1>3 DEF Quiet
  <1>5. CASE by # "none" /\ Goto("witness")
    <2>1. pc' = "witness" /\ UNCHANGED <<f, call, result>>
      BY <1>5 DEF Goto
    <2>2. SolverTypeOK'
      BY <1>3, <2>1 DEF SolverInv, SolverTypeOK
    <2>3. Racing'
      BY <1>1, <1>3, <1>4, <1>5, <2>1 DEF SolverInv, Racing, ByRace
    <2>4. Partial'
      BY <1>1, <1>3, <1>5, <2>1 DEF SolverInv, Partial
    <2>5. QED BY <1>2, <1>5, <2>2, <2>3, <2>4, WentOn DEF OptimumPCs
  <1>6. CASE by = "none" /\ taken = Strategies /\ Goto("fallback")
    <2>1. pc' = "fallback" /\ UNCHANGED <<f, call, result>>
      BY <1>6 DEF Goto
    <2>2. SolverTypeOK'
      BY <1>3, <2>1 DEF SolverInv, SolverTypeOK
    <2>3. Racing'
      BY <1>1, <1>3, <1>4, <1>6, <2>1 DEF SolverInv, Racing, Failed
    <2>4. Partial'
      BY <2>1 DEF Partial
    <2>5. QED BY <1>2, <1>6, <2>2, <2>3, <2>4, WentOn DEF OptimumPCs
  <1>7. CASE Raise
    <2>1. race' \in [Strategies -> Futures]
      BY <1>3 DEF SolverInv, SolverTypeOK
    <2>2. SolverTypeOK'
      BY <1>3, <1>7, <2>1, RaisedType DEF SolverInv, verdicts, reply, refining
    <2>3. QED BY <1>2, <1>4, <1>7, <2>2, Raised
  <1>8. QED BY <1>5, <1>6, <1>7 DEF Leave

LEMMA OptimiseStep ==
  ASSUME SolverInv, Optimise PROVE SolverInv'
  <1>1. pc \in {"optimise", "fallback"} /\ pc \in OptimumPCs /\ Goto("witness")
        /\ by' = IF pc = "fallback" THEN "dyadic" ELSE Backend
    BY DEF Optimise, OptimumPCs
  <1>2. pc \in BusyPCs /\ Route(call.op) = OptimumPCs
    BY <1>1, AtOptimum
  <1>3. pc' = "witness" /\ UNCHANGED <<checks, point, race, taken, current, pace, sense, round, sure,
                                       f, call, result>>
    BY <1>1 DEF Optimise, Goto, verdicts, refining
  <1>4. low' \in Int /\ high' \in Int /\ low' <= high'
    BY OptimumOrdered DEF SolverInv, Optimise
  <1>5. by' \in Strategies
    BY <1>1, BackendTyped DEF SolverInv, Strategies
  <1>6. SolverTypeOK'
    BY <1>3, <1>4, <1>5 DEF SolverInv, SolverTypeOK
  <1>7. Racing'
    BY <1>1, <1>3 DEF SolverInv, Racing, Quiet, ByRace, Failed
  <1>8. Partial'
    BY <1>3, <1>4 DEF Partial
  <1>9. QED BY <1>1, <1>2, <1>6, <1>7, <1>8, WentOn DEF OptimumPCs

LEMMA ExtractWitnessStep ==
  ASSUME SolverInv, ExtractWitness PROVE SolverInv'
  <1>1. pc = "witness" /\ pc \in OptimumPCs
    BY DEF ExtractWitness, OptimumPCs
  <1>2. pc \in BusyPCs /\ Route(call.op) = OptimumPCs
    BY <1>1, AtOptimum
  <1>3. PICK where \in {"refine", "certify"} : Goto(where)
    BY DEF ExtractWitness
  <1>4. pc' = where /\ UNCHANGED <<checks, low, high, race, taken, by, f, call, result>>
    BY <1>3 DEF ExtractWitness, Goto, reply, contest
  <1>5. /\ point' \in BestBox /\ current' = (low + high) \div 2 /\ pace' = (high - low) \div 4
        /\ sense' = 1 /\ round' = 0 /\ sure' = FALSE
    BY DEF ExtractWitness
  <1>6. low \in Int /\ high \in Int /\ low <= high
    BY <1>1 DEF SolverInv, SolverTypeOK, Partial
  <1>7. current' \in Int /\ pace' \in Nat /\ low <= current' - 2 * pace' /\ current' + 2 * pace' <= high
    BY <1>5, <1>6
  <1>8. point' \in Cells \cup {0}
    BY <1>5, Ints DEF BestBox, SolverInv
  <1>9. SolverTypeOK'
    BY <1>4, <1>5, <1>7, <1>8 DEF SolverInv, SolverTypeOK
  <1>10. Racing'
    BY <1>1, <1>4 DEF SolverInv, Racing, Quiet, ByRace, Failed
  <1>11. Partial'
    BY <1>4, <1>5, <1>7 DEF Partial, Margin
  <1>12. QED BY <1>2, <1>3, <1>9, <1>10, <1>11, WentOn DEF OptimumPCs

(* A step, and half of it twice, stay within the margin of two steps. *)
LEMMA Halved ==
  ASSUME NEW l \in Int, NEW h \in Int, NEW c \in Int, NEW p \in Nat, NEW q \in Nat, 2 * q <= p,
         l <= c - 2 * p, c + 2 * p <= h, NEW x \in {c, c + p, c - p}
  PROVE  x \in Int /\ l <= x - 2 * q /\ x + 2 * q <= h
  OBVIOUS

LEMMA RefineStep ==
  ASSUME SolverInv, Refine PROVE SolverInv'
  <1>1. pc = "refine" /\ pc \in OptimumPCs
    BY DEF Refine, OptimumPCs
  <1>2. pc \in BusyPCs /\ Route(call.op) = OptimumPCs
    BY <1>1, AtOptimum
  <1>3. PICK where \in {"refine", "certify"} : Goto(where)
    BY DEF Refine
  <1>4. pc' = where /\ UNCHANGED <<checks, point, low, high, race, taken, by, f, call, result>>
    BY <1>3 DEF Refine, Goto, verdicts, reply, contest
  <1>5. /\ current \in Int /\ pace \in Nat /\ low \in Int /\ high \in Int /\ round' = round + 1
        /\ low <= current - 2 * pace /\ current + 2 * pace <= high
        /\ sure => Holds(BoundKind, current)
    BY <1>1 DEF SolverInv, SolverTypeOK, Partial, Margin, Refine
  <1>6. /\ pace' = pace \div 2 /\ sense' \in {-1, 1}
        /\ \/ current' = Candidate /\ sure' = TRUE /\ Holds(BoundKind, Candidate)
           \/ current' = current /\ sure' = sure
    BY DEF Refine, Accept, BackOff, SolverInv, SolverTypeOK
  <1>7. Candidate \in {current + pace, current - pace}
    BY DEF Candidate
  <1>8. current' \in Int /\ pace' \in Nat /\ low <= current' - 2 * pace' /\ current' + 2 * pace' <= high
    <2>1. pace' \in Nat /\ 2 * pace' <= pace
      BY <1>5, <1>6
    <2>2. current' \in {current, current + pace, current - pace}
      BY <1>6, <1>7
    <2>3. QED BY <1>5, <2>1, <2>2, Halved
  <1>9. sure' \in BOOLEAN /\ (sure' => Holds(BoundKind, current'))
    <2>1. CASE current' = Candidate /\ sure' = TRUE /\ Holds(BoundKind, Candidate)
      <3>1. Holds(BoundKind, current')
        BY <2>1
      <3>2. QED BY <2>1, <3>1
    <2>2. CASE current' = current /\ sure' = sure
      <3>1. sure \in BOOLEAN
        BY DEF SolverInv, SolverTypeOK
      <3>2. sure => Holds(BoundKind, current')
        BY <1>5, <2>2
      <3>3. QED BY <2>2, <3>1, <3>2
    <2>3. QED BY <1>6, <2>1, <2>2
  <1>10. Holds(BoundKind, current)' <=> Holds(BoundKind, current')
    BY <1>4 DEF Holds, BoundKind, Least
  <1>11. SolverTypeOK'
    BY <1>4, <1>5, <1>6, <1>8, <1>9 DEF SolverInv, SolverTypeOK
  <1>12. Racing'
    BY <1>1, <1>4 DEF SolverInv, Racing, Quiet, ByRace, Failed
  <1>13. Partial'
    BY <1>4, <1>8, <1>9, <1>10 DEF Partial, Margin
  <1>14. QED BY <1>2, <1>3, <1>11, <1>12, <1>13, WentOn DEF OptimumPCs

LEMMA StopRefiningStep ==
  ASSUME SolverInv, StopRefining PROVE SolverInv'
  <1>1. pc = "refine" /\ pc \in OptimumPCs /\ Goto("certify") /\ UNCHANGED locals
    BY DEF StopRefining, OptimumPCs
  <1>2. pc \in BusyPCs /\ Route(call.op) = OptimumPCs
    BY <1>1, AtOptimum
  <1>3. pc' = "certify" /\ UNCHANGED <<checks, point, low, high, race, taken, by, current, pace, sense, round, sure,
                                       f, call, result>>
    BY <1>1 DEF Goto, locals, verdicts, reply, contest, refining
  <1>4. SolverTypeOK'
    BY <1>3 DEF SolverInv, SolverTypeOK
  <1>5. Racing'
    BY <1>1, <1>3 DEF SolverInv, Racing, Quiet, ByRace, Failed
  <1>6. Partial'
    BY <1>1, <1>3 DEF SolverInv, Partial, Margin, Holds, BoundKind, Least
  <1>7. QED BY <1>1, <1>2, <1>4, <1>5, <1>6, WentOn DEF OptimumPCs

LEMMA CertifyStep ==
  ASSUME SolverInv, Certify PROVE SolverInv'
  <1> DEFINE kind == IF Least(call.op) THEN "min" ELSE "max"
             r == [NoResult EXCEPT !.kind = kind, !.low = low, !.high = high, !.value = current,
                                   !.point = point, !.by = by]
  <1>1. pc = "certify" /\ pc \in OptimumPCs /\ pc \notin {"race", "leave"} /\ Return(r)
        /\ UNCHANGED <<verdicts, reply, contest, refining>>
    BY DEF Certify, OptimumPCs, locals
  <1>2. pc \in BusyPCs /\ call.op \in Optima
    BY <1>1, AtOptimum
  <1>3. kind \in {"min", "max"} /\ kind \in Yields(call.op)
    BY <1>2, YieldsHas DEF Optima, Least
  <1> HIDE DEF kind
  <1>4. low \in Int /\ high \in Int /\ current \in Int /\ pace \in Nat /\ point \in Cells \cup {0}
        /\ by \in Strategies \cup {"none"}
    BY DEF SolverInv, SolverTypeOK
  <1>5. r \in Answer /\ r.kind = kind /\ r.low = low /\ r.high = high /\ r.value = current /\ r.by = by
    BY <1>3, <1>4, EmptyResult DEF Answer, Kinds, NoResult
  <1> HIDE DEF r
  <1>6. result' = r /\ UNCHANGED <<f, call, sure, race>>
    BY <1>1 DEF Return, refining, contest
  <1>7. Margin /\ (sure => Holds(BoundKind, current))
    BY <1>1 DEF SolverInv, Partial
  <1>8. low <= current /\ current <= high
    BY <1>4, <1>7 DEF Margin
  <1>9. RefinedInside'
    BY <1>5, <1>6, <1>8 DEF RefinedInside
  <1>10. RefinedChecked'
    BY <1>5, <1>6, <1>7 DEF RefinedChecked, Holds, BoundKind, Least
  <1>11. ByWhom'
    BY <1>1, <1>5, <1>6 DEF SolverInv, Racing, ByWhom, ByRace, Failed
  <1>12. Truth'
    BY <1>3, <1>5, <1>6, <1>9, <1>10, <1>11 DEF Truth, AnswersTrue, Steep
  <1>13. QED BY <1>1, <1>2, <1>3, <1>5, <1>12, AnswerReturned

-----------------------------------------------------------------------------
(* An operation begins, and its threads run                                 *)

LEMMA FirstStepOf ==
  ASSUME NEW c \in Call
  PROVE  /\ FirstStep(c) \in Route(c.op) /\ FirstStep(c) \in BusyPCs
         /\ FirstStep(c) \notin {"max", "point", "leave", "fallback", "witness", "refine", "certify"}
         /\ FirstStep(c) = "optimise" => ~c.racing
  <1>1. c.op \in Operations /\ c.racing \in BOOLEAN
    BY DEF Call
  <1>2. CASE c.op \in Optima
    BY <1>1, <1>2, RouteHas DEF FirstStep, Optima, OptimumPCs, BusyPCs, SolverPCs
  <1>3. CASE c.op \in {"eval_interval", "find_bounds", "verify_bound", "discover"}
    BY <1>3 DEF FirstStep, Route, Optima, BusyPCs, SolverPCs
  <1>4. CASE c.op \in {"find_roots", "find_unique_root", "root_witness", "diagnose", "lipschitz"}
    BY <1>4 DEF FirstStep, Route, Optima, BusyPCs, SolverPCs
  <1>5. QED BY <1>1, <1>2, <1>3, <1>4 DEF Operations, Optima

LEMMA EnterStep ==
  ASSUME SolverTypeOK, NEW c \in Call, NEW where \in Returns, Enter(c, where)
  PROVE  SolverInv' /\ Busy' /\ call' = c /\ back' = where /\ f' = f /\ pc' \in Route(c.op)
  <1>1. /\ call' = c /\ back' = where /\ pc' = FirstStep(c)
        /\ checks' = NoChecks /\ point' = 0 /\ low' = 0 /\ high' = 0
        /\ race' = IF FirstStep(c) = "race" THEN [s \in Strategies |-> "pending"] ELSE NoRace
        /\ taken' = {} /\ by' = "none"
        /\ current' = 0 /\ pace' = 0 /\ sense' = 1 /\ round' = 0 /\ sure' = FALSE
        /\ result' = NoResult /\ f' = f
    BY DEF Enter
  <1>2. race' \in [Strategies -> Futures]
    BY <1>1 DEF NoRace, Futures
  <1>3. checks' \in [Directions -> Statuses \cup {"none", "rejected"}] /\ \A d \in Directions : checks'[d] = "none"
    BY <1>1 DEF NoChecks
  <1>4. result' \in Answer /\ result'.kind = "none"
    BY <1>1, EmptyResult DEF Answer, NoResult
  <1>5. SolverTypeOK'
    <2>1. f' \in Functions /\ call' \in Call /\ taken' \subseteq Strategies /\ by' \in Strategies \cup {"none"}
      BY <1>1 DEF SolverTypeOK
    <2>2. /\ point' \in Cells \cup {0} /\ low' \in Int /\ high' \in Int
          /\ current' \in Int /\ pace' \in Nat /\ sense' \in {-1, 1} /\ round' \in Nat
      BY <1>1
    <2>3. sure' \in BOOLEAN
      BY <1>1
    <2>4. QED BY <1>2, <1>3, <1>4, <2>1, <2>2, <2>3 DEF SolverTypeOK, Answer
  <1>6. Flow' /\ Busy'
    BY <1>1, <1>4, FirstStepOf, ReturnsApart DEF Flow, Busy, PCs, BusyPCs
  <1>7. Quiet' \/ pc' = "race"
    BY <1>1 DEF Quiet, NoRace
  <1>8. Racing'
    BY <1>1, <1>7, FirstStepOf DEF Racing
  <1>9. Partial'
    BY <1>1, <1>3, FirstStepOf DEF Partial
  <1>10. Truth'
    BY <1>4 DEF Truth, AnswersTrue, RefinedInside, RefinedChecked, ByWhom, Steep
  <1>11. QED BY <1>1, <1>5, <1>6, <1>8, <1>9, <1>10, FirstStepOf DEF SolverInv

LEMMA ExecutorStep ==
  ASSUME SolverInv, NEW s \in Strategies, Executor(s)
  PROVE  SolverInv' /\ UNCHANGED <<f, call, pc, back, result>> /\ pc \in {"race", "leave"}
  <1>1. /\ race[s] \in {"pending", "started", "calling"}
        /\ \E end \in Futures : race' = [race EXCEPT ![s] = end]
        /\ UNCHANGED <<f, call, pc, back, result, checks, point, low, high, taken, by, current, pace, sense,
                       round, sure>>
    BY DEF Executor, StartFuture, CallBridge, EndFuture, Futures, verdicts, reply, refining
  <1>2. pc \in {"race", "leave"}
    BY <1>1 DEF SolverInv, Racing, Quiet
  <1>3. /\ race' \in [Strategies -> Futures]
        /\ \A t \in Strategies : t # s => race'[t] = race[t]
    BY <1>1 DEF SolverInv, SolverTypeOK
  <1>4. SolverTypeOK'
    BY <1>1, <1>3 DEF SolverInv, SolverTypeOK
  <1>5. Flow'
    BY <1>1 DEF SolverInv, Flow, Busy
  <1>6. taken \subseteq Strategies /\ by \in Strategies \cup {"none"}
    BY DEF SolverInv, SolverTypeOK
  <1>7. Racing'
    <2>1. CASE pc = "race"
      <3>1. \A t \in taken : t # s
        BY <1>1, <2>1 DEF SolverInv, Racing
      <3>2. \A t \in taken : race'[t] = "failed"
        BY <1>3, <1>6, <2>1, <3>1 DEF SolverInv, Racing
      <3>3. QED BY <1>1, <2>1, <3>2 DEF SolverInv, Racing
    <2>2. CASE pc = "leave" /\ by = "none"
      <3>1. \A t \in taken : t # s
        BY <1>1, <2>2 DEF SolverInv, Racing
      <3>2. \A t \in taken : race'[t] = "failed"
        BY <1>3, <1>6, <2>2, <3>1 DEF SolverInv, Racing
      <3>3. QED BY <1>1, <2>2, <3>2 DEF Racing
    <2>3. CASE pc = "leave" /\ by # "none"
      <3>1. race[by] = "ok" /\ by \in Strategies
        BY <1>6, <2>3 DEF SolverInv, Racing
      <3>2. by # s
        BY <1>1, <3>1
      <3>3. race'[by] = "ok"
        BY <1>3, <3>1, <3>2
      <3>4. QED BY <1>1, <2>3, <3>3 DEF Racing
    <2>4. QED BY <1>2, <2>1, <2>2, <2>3
  <1>8. Partial'
    BY <1>1 DEF SolverInv, Partial, Margin, Holds, Bound, BoundKind, Least
  <1>9. Truth'
    BY <1>1, <1>2 DEF SolverInv, Flow, Busy, BusyPCs, SolverPCs, Truth, AnswersTrue, RefinedInside,
                      RefinedChecked, ByWhom, Steep
  <1>10. QED BY <1>1, <1>2, <1>4, <1>5, <1>7, <1>8, <1>9 DEF SolverInv

LEMMA OperationStep ==
  ASSUME SolverInv, Operation
  PROVE  SolverInv' /\ Busy /\ pc' \in BusyPCs \cup {back} /\ UNCHANGED <<f, call, back>>
  <1>1. SolverInv'
    BY RejectStep, BridgeRaisesStep, EvalIntervalStep, FindMinStep, FindMaxStep, CheckBoundStep, JudgeStep,
       SearchStep, TestPointStep, GiveUpSearchStep, NewtonStep, FindRootsStep, TakeFutureStep,
       EndOfRaceSteps, LeaveStep, OptimiseStep, ExtractWitnessStep, RefineStep, StopRefiningStep,
       CertifyStep, DiagnoseStep, LipschitzStep
       DEF Operation
  <1>2. Busy
    BY DEF Operation, Reject, BridgeRaises, EvalInterval, FindMin, FindMax, CheckBound, Judge, Search,
       TestPoint, GiveUpSearch, Newton, FindRoots, TakeFuture, TimeOut, AllFailed, Leave, Optimise,
       ExtractWitness, Refine, StopRefining, Certify, Diagnose, Lipschitz, Busy, BusyPCs, SolverPCs
  <1>3. UNCHANGED <<f, call, back>>
    BY DEF Operation, Reject, BridgeRaises, EvalInterval, FindMin, FindMax, CheckBound, Judge, Search,
       TestPoint, GiveUpSearch, Newton, FindRoots, TakeFuture, TimeOut, AllFailed, Leave, Optimise,
       ExtractWitness, Refine, StopRefining, Certify, Diagnose, Lipschitz, Goto, Return, Raise
  <1>4. pc' \in BusyPCs \cup {back}
    <2>1. /\ \A r : Return(r) => pc' = back
          /\ \A where : Goto(where) => pc' = where
          /\ Raise => pc' = back
      BY DEF Return, Goto, Raise
    <2>2. BusyPCs = {"eval", "min", "max", "check", "search", "point", "signs", "newton", "optimise",
                     "race", "leave", "fallback", "witness", "refine", "certify", "diagnose", "derive"}
      BY DEF BusyPCs, SolverPCs
    <2>3. CASE Reject \/ BridgeRaises \/ EvalInterval \/ FindMin \/ FindMax
      BY <2>1, <2>2, <2>3 DEF Reject, BridgeRaises, EvalInterval, FindMin, FindMax
    <2>4. CASE CheckBound \/ Judge \/ Search \/ TestPoint \/ GiveUpSearch
      BY <2>1, <2>2, <2>4 DEF CheckBound, Judge, Search, TestPoint, GiveUpSearch
    <2>5. CASE Newton \/ FindRoots
      BY <2>1, <2>2, <2>5 DEF Newton, FindRoots
    <2>6. CASE (\E s \in Strategies : TakeFuture(s)) \/ TimeOut \/ AllFailed \/ Leave \/ Optimise
      BY <2>1, <2>2, <2>6 DEF TakeFuture, TimeOut, AllFailed, Leave, Optimise
    <2>7. CASE ExtractWitness \/ Refine \/ StopRefining \/ Certify \/ Lipschitz
      <3>1. CASE ExtractWitness \/ Refine \/ StopRefining
        <4>1. PICK where \in {"refine", "certify"} : Goto(where)
          BY <3>1 DEF ExtractWitness, Refine, StopRefining
        <4>2. QED BY <2>1, <2>2, <4>1
      <3>2. CASE Certify \/ Lipschitz
        <4>1. PICK r : Return(r)
          BY <3>2 DEF Certify, Lipschitz
        <4>2. QED BY <2>1, <4>1
      <3>3. QED BY <2>7, <3>1, <3>2
    <2>8. CASE Diagnose
      BY <2>1, <2>8 DEF Diagnose
    <2>9. QED BY <2>3, <2>4, <2>5, <2>6, <2>7, <2>8 DEF Operation
  <1>5. QED BY <1>1, <1>2, <1>3, <1>4

-----------------------------------------------------------------------------
(* The patterns                                                             *)

PatternTypes ==
  /\ task \in Task
  /\ index \in Nat \ {0} /\ delta \in Int /\ lo \in Int /\ hi \in Int
  /\ tries \in 0..MaxTries
  /\ found \in Seq([epsilon : Int, value : Int])
  /\ outcome \in {"none", "success", "failed"}

Searches == {"asymptotic", "searched_delta"}

(* A search is under way for some epsilon. *)
Searching ==
  task.pattern \in Searches /\ index \in 1..Len(task.epsilons) /\ tries < MaxTries

(* What the operation that returns to a pattern was asked for. *)
Purpose ==
  /\ back = "bounded" => task.pattern = "exists_forall_bound" /\ call.op = "find_bounds"
  /\ back = "claimed" => /\ task.pattern = "exists_forall_bound" /\ call.op = "verify_bound"
                         /\ call.box = task.box /\ call.upper = {delta}
                         /\ call.lower = IF task.abs THEN {-delta} ELSE {}
  /\ back = "signed" => task.pattern = "forall_sign" /\ call.op = "find_bounds" /\ call.box = task.box
  /\ back = "optimum" => task.pattern \in {"minimum_witness", "maximum_witness"} /\ call.op \in Optima
  /\ back = "rooted" => task.pattern = "exists_root"
  /\ back = "sloped" => /\ task.pattern = "lipschitz_delta" /\ call.op = "lipschitz"
                        /\ call.box = Ball(task.at, Radius)
  /\ back = "tried" => /\ Searching /\ call.op = "find_bounds"
                       /\ call.box = IF task.pattern = "asymptotic" THEN Window(Middle)
                                     ELSE Ball(task.at, delta)

(* Whoever waits for an operation, or looks at what it returned. *)
Waiting == Busy \/ pc \in Returns \ {"done"}

PatternFlow ==
  /\ Waiting => Purpose
  /\ pc = "try" => Searching
  /\ pc = "epsilon" => task.pattern \in Searches
  /\ pc = "idle" => found = <<>>
  /\ outcome # "none" => pc = "done"

(* Beyond hi, f is known to be small. *)
Small(from) ==
  \/ from = Last /\ Abs(f[Last]) <= Eps
  \/ \A c \in Window(from) : Abs(f[c]) <= Eps
Beyond == task.pattern = "asymptotic" /\ (pc = "try" \/ (Waiting /\ back = "tried")) => Small(hi)

Claims == ForAllWitness /\ DeltaTruth /\ ThresholdWindow /\ WitnessKept

PatternInv == PatternTypes /\ PatternFlow /\ Beyond /\ Claims

Inv == SolverInv /\ PatternInv

patternVars == <<task, search, outcome>>

(* What does not matter to a claim: steps of an operation. *)
LEMMA OperationKeepsPattern ==
  ASSUME Inv, Busy, UNCHANGED patternVars, UNCHANGED <<f, call, back>>,
         pc' \in BusyPCs \cup {back}
  PROVE  PatternInv'
  <1>1. UNCHANGED <<task, index, delta, lo, hi, tries, found, outcome, f, call, back>>
    BY DEF patternVars, search
  <1>2. Waiting /\ outcome = "none" /\ back \in Returns /\ pc # "done" /\ Purpose
    BY ReturnsApart DEF Inv, PatternInv, PatternFlow, Waiting, Busy, SolverInv, Flow, BusyPCs, SolverPCs
  <1>3. pc' \in BusyPCs \cup Returns /\ pc' \notin {"idle", "try", "epsilon"}
    BY <1>2 DEF BusyPCs, SolverPCs, Returns
  <1>4. PatternTypes'
    BY <1>1 DEF Inv, PatternInv, PatternTypes
  <1>5. Purpose'
    BY <1>1, <1>2 DEF Purpose, Searching, Ball, Window, Middle
  <1>6. PatternFlow'
    BY <1>1, <1>2, <1>3, <1>5 DEF PatternFlow
  <1>7. Beyond'
    BY <1>1, <1>2, <1>3 DEF Inv, PatternInv, Beyond, Small, Window, Eps
  <1>8. Claims'
    BY <1>1, <1>2 DEF Inv, PatternInv, Claims, ForAllWitness, DeltaTruth, ThresholdWindow, WitnessKept,
                      Ball, Window
  <1>9. QED BY <1>4, <1>6, <1>7, <1>8 DEF PatternInv

(* A step of the pattern itself, while no operation is under way. *)
LEMMA StepKeeps ==
  ASSUME SolverInv, NEW where \in {"done", "epsilon", "try"}, Step(where), ~Busy
  PROVE  SolverInv' /\ pc' = where /\ UNCHANGED <<f, call, back, result>>
  <1>1. pc' = where /\ UNCHANGED <<f, call, back, result, checks, point, low, high, race, taken, by,
                                  current, pace, sense, round, sure>>
    BY DEF Step, locals, verdicts, reply, contest, refining
  <1>2. SolverTypeOK'
    BY <1>1 DEF SolverInv, SolverTypeOK
  <1>3. Flow'
    BY <1>1 DEF SolverInv, Flow, PCs, Returns, Busy, BusyPCs, SolverPCs
  <1>4. pc \notin {"race", "leave"}
    BY DEF Busy, BusyPCs, SolverPCs
  <1>5. Racing'
    BY <1>1, <1>4 DEF SolverInv, Racing, Quiet
  <1>6. Partial'
    BY <1>1 DEF Partial
  <1>7. Truth'
    BY <1>1 DEF SolverInv, Truth, AnswersTrue, RefinedInside, RefinedChecked, ByWhom, ByRace, Failed, Steep,
                Holds, HasZero, Bound, BoundKind, Least
  <1>8. QED BY <1>1, <1>2, <1>3, <1>5, <1>6, <1>7 DEF SolverInv

(* A pattern concludes. *)
LEMMA Concluded ==
  ASSUME Inv, ~Busy, NEW success \in BOOLEAN, Conclude(success),
         PatternTypes', Claims'
  PROVE  Inv'
  <1>1. Step("done")
    BY DEF Conclude
  <1>2. SolverInv' /\ pc' = "done" /\ UNCHANGED <<f, call, back, result>>
    BY <1>1, StepKeeps DEF Inv
  <1>3. ~Busy' /\ ~Waiting'
    BY <1>2 DEF Busy, Waiting, BusyPCs, SolverPCs
  <1>4. PatternFlow' /\ Beyond'
    BY <1>2, <1>3 DEF PatternFlow, Beyond
  <1>5. QED BY <1>2, <1>4 DEF Inv, PatternInv

(* A pattern that waits was asked for, and has not concluded. *)
LEMMA AtReturn ==
  ASSUME Inv, pc \in Returns \ {"done"}
  PROVE  ~Busy /\ back = pc /\ Purpose /\ outcome = "none" /\ result.kind \in Yields(call.op) \cup {"raised"}
  <1>1. ~Busy
    BY ReturnsApart DEF Busy
  <1>2. QED BY <1>1 DEF Inv, SolverInv, Flow, PatternInv, PatternFlow, Waiting

(* Bounds of f on the box of a call that returned them. *)
LEMMA BoundsKnown ==
  ASSUME Inv, pc \in Returns \ {"done"}, call.op = "find_bounds", Answered
  PROVE  /\ result.low \in Int /\ result.high \in Int /\ call.box \subseteq Cells
         /\ \A c \in call.box : f[c] \in Int /\ result.low <= f[c] /\ f[c] <= result.high
  <1>1. result.kind = "bounds"
    BY AtReturn, YieldsHas DEF Answered
  <1>2. \A c \in call.box : result.low <= f[c] /\ f[c] <= result.high
    BY <1>1 DEF Inv, SolverInv, Truth, AnswersTrue, Holds
  <1>3. QED BY <1>2, Ints DEF Inv, SolverInv, SolverTypeOK

LEMMA GivesUpKeeps ==
  ASSUME Inv, pc \in Returns \ {"done"}, GivesUp
  PROVE  Inv'
  <1>1. /\ UNCHANGED <<task, index, delta, lo, hi, tries, found>> /\ outcome' = "failed"
        /\ UNCHANGED <<f, result>> /\ result.kind = "raised" /\ Conclude(FALSE)
    BY DEF GivesUp, search, Conclude, Step
  <1>2. PatternTypes'
    BY <1>1 DEF Inv, PatternInv, PatternTypes
  <1>3. Claims'
    BY <1>1 DEF Inv, PatternInv, Claims, ForAllWitness, DeltaTruth, ThresholdWindow, WitnessKept, Ball, Window
  <1>4. QED BY <1>1, <1>2, <1>3, AtReturn, Concluded

-----------------------------------------------------------------------------
(* One lemma for each step of a pattern                                     *)

(* Nothing is claimed before a pattern has found something. *)
LEMMA NothingClaimed ==
  ASSUME outcome' = "none", found' = <<>>
  PROVE  Claims'
  BY DEF Claims, ForAllWitness, DeltaTruth, ThresholdWindow, WitnessKept

(* A pattern, or its caller, calls the solver. *)
LEMMA Entered ==
  ASSUME Inv, NEW c \in Call, NEW where \in Returns, Enter(c, where), outcome = "none",
         UNCHANGED <<outcome, found>>, task' = task \/ found = <<>>,
         PatternTypes', Purpose', where = "tried" => Beyond'
  PROVE  Inv'
  <1>1. SolverInv' /\ Busy' /\ back' = where /\ f' = f
    BY EnterStep DEF Inv, SolverInv
  <1>2. pc' \notin {"idle", "done", "epsilon", "try"}
    BY <1>1 DEF Busy, BusyPCs, SolverPCs
  <1>3. PatternFlow'
    BY <1>2 DEF PatternFlow
  <1>4. Beyond'
    BY <1>1, <1>2 DEF Beyond
  <1>5. Claims'
    <2>1. CASE found = <<>>
      BY <2>1, NothingClaimed
    <2>2. CASE task' = task
      BY <1>1, <2>2 DEF Inv, PatternInv, Claims, ForAllWitness, DeltaTruth, ThresholdWindow, WitnessKept,
                        Ball, Window
    <2>3. QED BY <2>1, <2>2
  <1>6. QED BY <1>1, <1>3, <1>4, <1>5 DEF Inv, PatternInv

LEMMA AskTyped ==
  ASSUME task' \in Task, NEW op \in Operations, NEW box \in SUBSET Cells
  PROVE  Ask(op, box) \in Call /\ Ask(op, box).op = op /\ Ask(op, box).box = box
  <1>1. task'.racing \in BOOLEAN /\ task'.refining \in BOOLEAN
    BY DEF Task
  <1>2. {} \in Optional
    BY DEF Optional
  <1>3. QED BY <1>1, <1>2 DEF Ask, NoCall, Call, Strategies

(* The caller asks the solver itself. *)
LEMMA BeginStep ==
  ASSUME Inv, Begin, UNCHANGED patternVars PROVE Inv'
  <1>1. PICK c \in Calls : Enter(c, "done")
    BY DEF Begin
  <1>2. c \in Call /\ "done" \in Returns
    BY SolverAssumption DEF Returns
  <1>3. back' = "done" /\ outcome = "none"
    BY <1>1 DEF Enter, Begin, Inv, PatternInv, PatternFlow
  <1>4. UNCHANGED <<task, index, delta, lo, hi, tries, found, outcome>>
    BY DEF patternVars, search
  <1>5. PatternTypes'
    BY <1>4 DEF Inv, PatternInv, PatternTypes
  <1>6. Purpose'
    BY <1>3 DEF Purpose
  <1>7. QED BY <1>1, <1>2, <1>3, <1>4, <1>5, <1>6, Entered

LEMMA SynthesiseStep ==
  ASSUME Inv, Synthesise PROVE Inv'
  <1>1. /\ pc = "idle" /\ task' \in Task
        /\ UNCHANGED <<index, delta, lo, hi, tries, found, outcome>>
    BY QuantifierAssumption DEF Synthesise, search
  <1>2. outcome = "none" /\ found = <<>> /\ ~Busy
    BY <1>1 DEF Inv, PatternInv, PatternFlow, Busy, BusyPCs
  <1>3. PatternTypes'
    BY <1>1 DEF Inv, PatternInv, PatternTypes
  <1>4. task'.box \in SUBSET Cells /\ Ball(task'.at, Radius) \in SUBSET Cells
    BY <1>1 DEF Task, Ball
  <1> DEFINE p == task'.pattern
  <1>5. CASE p = "exists_forall_bound" /\ Enter(Ask("find_bounds", task'.box), "bounded")
    <2> DEFINE c == Ask("find_bounds", task'.box)
    <2>1. c \in Call /\ c.op = "find_bounds" /\ c.box = task'.box
      BY <1>1, <1>4, AskTyped DEF Operations
    <2>2. Enter(c, "bounded") /\ "bounded" \in Returns
      BY <1>5 DEF Returns
    <2> HIDE DEF c
    <2>3. Purpose'
      BY <1>5, <2>1, <2>2 DEF Enter, Purpose
    <2>4. QED BY <1>1, <1>2, <1>3, <2>1, <2>2, <2>3, Entered
  <1>6. CASE p = "forall_sign" /\ Enter(Ask("find_bounds", task'.box), "signed")
    <2> DEFINE c == Ask("find_bounds", task'.box)
    <2>1. c \in Call /\ c.op = "find_bounds" /\ c.box = task'.box
      BY <1>1, <1>4, AskTyped DEF Operations
    <2>2. Enter(c, "signed") /\ "signed" \in Returns
      BY <1>6 DEF Returns
    <2> HIDE DEF c
    <2>3. Purpose'
      BY <1>6, <2>1, <2>2 DEF Enter, Purpose
    <2>4. QED BY <1>1, <1>2, <1>3, <2>1, <2>2, <2>3, Entered
  <1>7. ASSUME NEW op \in Optima, p \in {"minimum_witness", "maximum_witness"},
               Enter(Ask(op, task'.box), "optimum")
        PROVE  Inv'
    <2> DEFINE c == Ask(op, task'.box)
    <2>1. c \in Call /\ c.op = op
      BY <1>1, <1>4, AskTyped DEF Operations, Optima
    <2>2. Enter(c, "optimum") /\ "optimum" \in Returns
      BY <1>7 DEF Returns
    <2> HIDE DEF c
    <2>3. Purpose'
      BY <1>7, <2>1, <2>2 DEF Enter, Purpose
    <2>4. QED BY <1>1, <1>2, <1>3, <2>1, <2>2, <2>3, Entered
  <1>8. CASE p = "exists_root" /\ Enter(Ask("find_roots", task'.box), "rooted")
    <2> DEFINE c == Ask("find_roots", task'.box)
    <2>1. c \in Call
      BY <1>1, <1>4, AskTyped DEF Operations
    <2>2. Enter(c, "rooted") /\ "rooted" \in Returns
      BY <1>8 DEF Returns
    <2> HIDE DEF c
    <2>3. Purpose'
      BY <1>8, <2>1, <2>2 DEF Enter, Purpose
    <2>4. QED BY <1>1, <1>2, <1>3, <2>1, <2>2, <2>3, Entered
  <1>9. CASE p = "lipschitz_delta" /\ Enter(Ask("lipschitz", Ball(task'.at, Radius)), "sloped")
    <2> DEFINE c == Ask("lipschitz", Ball(task'.at, Radius))
    <2>1. c \in Call /\ c.op = "lipschitz" /\ c.box = Ball(task'.at, Radius)
      BY <1>1, <1>4, AskTyped DEF Operations
    <2>2. Enter(c, "sloped") /\ "sloped" \in Returns
      BY <1>9 DEF Returns
    <2> HIDE DEF c
    <2>3. Purpose'
      BY <1>9, <2>1, <2>2 DEF Enter, Purpose, Ball
    <2>4. QED BY <1>1, <1>2, <1>3, <2>1, <2>2, <2>3, Entered
  <1>10. CASE p \in {"asymptotic", "searched_delta"} /\ Step("epsilon")
    <2>1. SolverInv' /\ pc' = "epsilon"
      BY <1>2, <1>10, StepKeeps DEF Inv
    <2>2. ~Waiting'
      BY <2>1 DEF Waiting, Busy, BusyPCs, SolverPCs, Returns
    <2>3. PatternFlow' /\ Beyond'
      BY <1>1, <1>2, <1>10, <2>1, <2>2 DEF PatternFlow, Beyond, Searches
    <2>4. Claims'
      BY <1>1, <1>2, NothingClaimed
    <2>5. QED BY <1>3, <2>1, <2>3, <2>4 DEF Inv, PatternInv
  <1>11. \/ p = "exists_forall_bound" /\ Enter(Ask("find_bounds", task'.box), "bounded")
         \/ p = "forall_sign" /\ Enter(Ask("find_bounds", task'.box), "signed")
         \/ \E op \in Optima : /\ p \in {"minimum_witness", "maximum_witness"}
                               /\ Enter(Ask(op, task'.box), "optimum")
         \/ p = "exists_root" /\ Enter(Ask("find_roots", task'.box), "rooted")
         \/ p = "lipschitz_delta" /\ Enter(Ask("lipschitz", Ball(task'.at, Radius)), "sloped")
         \/ p \in {"asymptotic", "searched_delta"} /\ Step("epsilon")
    BY DEF Synthesise, Optima
  <1>12. QED BY <1>5, <1>6, <1>7, <1>8, <1>9, <1>10, <1>11

LEMMA AbsInt == ASSUME NEW n \in Int PROVE Abs(n) \in Int /\ n <= Abs(n) /\ -n <= Abs(n)
  BY DEF Abs

LEMMA ProposalInt ==
  ASSUME SolverTypeOK PROVE Proposal \in Int
  <1>1. result.low \in Int /\ result.high \in Int
    BY DEF SolverTypeOK
  <1>2. Abs(result.low) \in Int /\ Abs(result.high) \in Int
    BY <1>1, AbsInt
  <1>3. \A n \in Int : Widened(n) \in Int
    BY DEF Widened
  <1>4. QED BY <1>1, <1>2, <1>3 DEF Proposal

LEMMA ProposeStep ==
  ASSUME Inv, Propose PROVE Inv'
  <1>1. pc = "bounded" /\ pc \in Returns \ {"done"}
    BY DEF Propose, Returns
  <1>2. outcome = "none" /\ task.pattern = "exists_forall_bound"
    BY <1>1, AtReturn DEF Purpose
  <1>3. CASE GivesUp
    BY <1>1, <1>3, GivesUpKeeps
  <1>4. CASE Answered
    <2> DEFINE c == [NoCall EXCEPT !.op = "verify_bound", !.box = task.box, !.upper = {delta'},
                                   !.lower = IF task.abs THEN {-delta'} ELSE {}]
    <2>1. Enter(c, "claimed") /\ "claimed" \in Returns /\ delta' = Proposal
          /\ UNCHANGED <<task, index, lo, hi, tries, found, outcome>>
      BY <1>4 DEF Propose, Returns, GivesUp, Answered
    <2>2. delta' \in Int
      BY <2>1, ProposalInt DEF Inv, SolverInv
    <2>3. task.box \subseteq Cells /\ task.abs \in BOOLEAN
      BY DEF Inv, PatternInv, PatternTypes, Task
    <2>4. {delta'} \in Optional /\ (IF task.abs THEN {-delta'} ELSE {}) \in Optional
      <3>1. {} \in Optional /\ \A n \in Int : {n} \in Optional
        BY DEF Optional
      <3>2. -delta' \in Int
        BY <2>2
      <3>3. QED BY <2>2, <2>3, <3>1, <3>2, Zenon
    <2>5. /\ c \in Call /\ c.op = "verify_bound" /\ c.box = task.box /\ c.upper = {delta'}
          /\ c.lower = IF task.abs THEN {-delta'} ELSE {}
      <3>1. {} \in Optional
        BY DEF Optional
      <3>2. "verify_bound" \in Operations /\ "dyadic" \in Strategies
        BY DEF Operations, Strategies
      <3>3. QED BY <2>3, <2>4, <3>1, <3>2 DEF NoCall, Call
    <2> HIDE DEF c
    <2>6. call' = c /\ back' = "claimed"
      BY <2>1 DEF Enter
    <2>7. Purpose'
      BY <1>2, <2>1, <2>5, <2>6 DEF Purpose
    <2>8. PatternTypes'
      BY <2>1, <2>2 DEF Inv, PatternInv, PatternTypes
    <2>9. QED BY <1>2, <2>1, <2>5, <2>7, <2>8, Entered
  <1>5. QED BY <1>3, <1>4 DEF Propose

LEMMA ClaimedStep ==
  ASSUME Inv, Claimed PROVE Inv'
  <1>1. pc = "claimed" /\ pc \in Returns \ {"done"}
    BY DEF Claimed, Returns
  <1>2. /\ task.pattern = "exists_forall_bound" /\ call.box = task.box /\ call.upper = {delta}
        /\ call.lower = (IF task.abs THEN {-delta} ELSE {}) /\ ~Busy
    BY <1>1, AtReturn DEF Purpose
  <1>3. CASE GivesUp
    BY <1>1, <1>3, GivesUpKeeps
  <1>4. CASE Answered
    <2> DEFINE success == result.kind = "verified" /\ delta >= 0
    <2>1. Conclude(success) /\ UNCHANGED <<task, index, delta, lo, hi, tries, found, f>>
      BY <1>4 DEF Claimed, GivesUp, Answered, search, Conclude, Step
    <2>2. task.abs \in BOOLEAN /\ task.box \subseteq Cells /\ delta \in Int
      BY DEF Inv, PatternInv, PatternTypes, Task
    <2>3. success \in BOOLEAN
      OBVIOUS
    <2>4. ASSUME success, NEW c \in task.box
          PROVE  (IF task.abs THEN Abs(f[c]) ELSE f[c]) <= delta
      <3>1. \A d \in Directions : \A v \in Bound(d) : Holds(d, v)
        BY <2>4 DEF Inv, SolverInv, Truth, AnswersTrue
      <3>2. f[c] <= delta
        BY <1>2, <3>1 DEF Directions, Bound, Holds
      <3>3. task.abs => -delta <= f[c]
        BY <1>2, <3>1 DEF Directions, Bound, Holds
      <3>4. f[c] \in Int
        BY <2>2, Ints DEF Inv, SolverInv
      <3>5. QED BY <2>2, <3>2, <3>3, <3>4 DEF Abs
    <2>5. outcome' = IF success THEN "success" ELSE "failed"
      BY <2>1 DEF Conclude
    <2>6. ForAllWitness'
      BY <1>2, <2>1, <2>4, <2>5 DEF ForAllWitness
    <2> HIDE DEF success
    <2>7. PatternTypes'
      BY <2>1, <2>3, <2>5 DEF Inv, PatternInv, PatternTypes
    <2>8. Claims'
      BY <1>2, <2>1, <2>6 DEF Inv, PatternInv, Claims, DeltaTruth, ThresholdWindow, WitnessKept, Ball, Window
    <2>9. QED BY <1>2, <2>1, <2>3, <2>7, <2>8, Concluded
  <1>5. QED BY <1>3, <1>4 DEF Claimed

LEMMA JudgeSignStep ==
  ASSUME Inv, JudgeSign PROVE Inv'
  <1>1. pc = "signed" /\ pc \in Returns \ {"done"}
    BY DEF JudgeSign, Returns
  <1>2. task.pattern = "forall_sign" /\ call.op = "find_bounds" /\ call.box = task.box /\ ~Busy
    BY <1>1, AtReturn DEF Purpose
  <1>3. CASE GivesUp
    BY <1>1, <1>3, GivesUpKeeps
  <1>4. CASE Answered
    <2> DEFINE success == HasSign(result.low, result.high)
    <2>1. Conclude(success) /\ UNCHANGED <<task, index, delta, lo, hi, tries, found, f>>
      BY <1>4 DEF JudgeSign, GivesUp, Answered, search, Conclude, Step
    <2>2. result.low \in Int /\ result.high \in Int
          /\ \A c \in task.box : f[c] \in Int /\ result.low <= f[c] /\ f[c] <= result.high
      BY <1>1, <1>2, <1>4, BoundsKnown
    <2>3. task.sign \in Signs
      BY DEF Inv, PatternInv, PatternTypes, Task
    <2> DEFINE signed(c) == CASE task.sign = "positive" -> f[c] > 0
                              [] task.sign = "negative" -> f[c] < 0
                              [] task.sign = "non_negative" -> f[c] >= 0
                              [] task.sign = "non_positive" -> f[c] <= 0
    <2>8. success \in BOOLEAN /\ (success => \A c \in task.box : signed(c))
      <3>1. CASE task.sign = "positive"
        <4>1. success = (result.low > 0) /\ \A c : signed(c) = (f[c] > 0)
          BY <3>1 DEF HasSign
        <4>2. (result.low > 0) \in BOOLEAN /\ (result.low > 0 => \A c \in task.box : f[c] > 0)
          BY <2>2
        <4>3. QED BY <4>1, <4>2, Zenon
      <3>2. CASE task.sign = "negative"
        <4>1. success = (result.high < 0) /\ \A c : signed(c) = (f[c] < 0)
          BY <3>2 DEF HasSign
        <4>2. (result.high < 0) \in BOOLEAN /\ (result.high < 0 => \A c \in task.box : f[c] < 0)
          BY <2>2
        <4>3. QED BY <4>1, <4>2, Zenon
      <3>3. CASE task.sign = "non_negative"
        <4>1. success = (result.low >= 0) /\ \A c : signed(c) = (f[c] >= 0)
          BY <3>3 DEF HasSign
        <4>2. (result.low >= 0) \in BOOLEAN /\ (result.low >= 0 => \A c \in task.box : f[c] >= 0)
          BY <2>2
        <4>3. QED BY <4>1, <4>2, Zenon
      <3>4. CASE task.sign = "non_positive"
        <4>1. success = (result.high <= 0) /\ \A c : signed(c) = (f[c] <= 0)
          BY <3>4 DEF HasSign
        <4>2. (result.high <= 0) \in BOOLEAN /\ (result.high <= 0 => \A c \in task.box : f[c] <= 0)
          BY <2>2
        <4>3. QED BY <4>1, <4>2, Zenon
      <3>5. QED BY <2>3, <3>1, <3>2, <3>3, <3>4 DEF Signs
    <2>9. outcome' = IF success THEN "success" ELSE "failed"
      BY <2>1 DEF Conclude
    <2>10. ForAllWitness'
      BY <1>2, <2>1, <2>8, <2>9 DEF ForAllWitness
    <2> HIDE DEF success
    <2>11. PatternTypes'
      BY <2>1, <2>8, <2>9 DEF Inv, PatternInv, PatternTypes
    <2>12. Claims'
      BY <1>2, <2>1, <2>10 DEF Inv, PatternInv, Claims, DeltaTruth, ThresholdWindow, WitnessKept, Ball, Window
    <2>13. QED BY <1>2, <2>1, <2>8, <2>11, <2>12, Concluded
  <1>5. QED BY <1>3, <1>4 DEF JudgeSign

LEMMA OptimumStep ==
  ASSUME Inv, Optimum PROVE Inv'
  <1>1. pc = "optimum" /\ pc \in Returns \ {"done"}
    BY DEF Optimum, Returns
  <1>2. task.pattern \in {"minimum_witness", "maximum_witness"} /\ call.op \in Optima /\ ~Busy
        /\ result.kind \in Yields(call.op) \cup {"raised"}
    BY <1>1, AtReturn DEF Purpose
  <1>3. CASE GivesUp
    BY <1>1, <1>3, GivesUpKeeps
  <1>4. CASE Answered
    <2> DEFINE success == IF result.kind = "min" THEN result.low <= result.value ELSE result.value <= result.high
    <2>1. Conclude(success) /\ UNCHANGED <<task, index, delta, lo, hi, tries, found, f>>
      BY <1>4 DEF Optimum, GivesUp, Answered, search, Conclude, Step
    <2>2. result.kind \in {"min", "max"}
      BY <1>2, <1>4, YieldsHas DEF Optima, Answered
    <2>3. success = TRUE
      BY <2>2 DEF Inv, SolverInv, Truth, RefinedInside
    <2>4. outcome' = "success"
      BY <2>1, <2>3 DEF Conclude
    <2>5. Claims'
      BY <1>2, <2>1, <2>4 DEF Inv, PatternInv, Claims, ForAllWitness, DeltaTruth, ThresholdWindow, WitnessKept,
                              Ball, Window
    <2>6. PatternTypes'
      BY <2>1, <2>4 DEF Inv, PatternInv, PatternTypes
    <2>7. QED BY <1>2, <2>1, <2>3, <2>5, <2>6, Concluded
  <1>5. QED BY <1>3, <1>4 DEF Optimum

LEMMA RootedStep ==
  ASSUME Inv, Rooted PROVE Inv'
  <1>1. pc = "rooted" /\ pc \in Returns \ {"done"}
    BY DEF Rooted, Returns
  <1>2. task.pattern = "exists_root" /\ ~Busy
    BY <1>1, AtReturn DEF Purpose
  <1>3. CASE GivesUp
    BY <1>1, <1>3, GivesUpKeeps
  <1>4. CASE Answered
    <2> DEFINE success == result.roots # <<>>
    <2>1. Conclude(success) /\ UNCHANGED <<task, index, delta, lo, hi, tries, found, f>>
      BY <1>4 DEF Rooted, GivesUp, Answered, search, Conclude, Step
    <2>2. outcome' \in {"success", "failed"} /\ success \in BOOLEAN
      BY <2>1 DEF Conclude
    <2> HIDE DEF success
    <2>3. Claims'
      BY <1>2, <2>1 DEF Inv, PatternInv, Claims, ForAllWitness, DeltaTruth, ThresholdWindow, WitnessKept,
                        Ball, Window
    <2>4. PatternTypes'
      BY <2>1, <2>2 DEF Inv, PatternInv, PatternTypes
    <2>5. QED BY <1>2, <2>1, <2>2, <2>3, <2>4, Concluded
  <1>5. QED BY <1>3, <1>4 DEF Rooted

(* The cells nearer than the delta returned are within epsilon: eps / L is  *)
(* rounded up, but the comparison of the distance is strict.                *)
LEMMA LipschitzWithin ==
  ASSUME NEW eps \in Nat \ {0}, NEW L \in Nat, NEW n \in Nat, n < LipschitzDelta(eps, L)
  PROVE  n <= Radius /\ L * n < eps
  <1>1. Radius \in Nat
    BY QuantifierAssumption
  <1>2. CASE L = 0
    BY <1>1, <1>2 DEF LipschitzDelta
  <1>3. CASE L # 0
    <2> DEFINE q == (-eps) \div L
    <2>1. q \in Int /\ -eps < L * q + L
      BY <1>3
    <2> HIDE DEF q
    <2>2. n < Smaller(-q, Radius)
      BY <1>3 DEF LipschitzDelta, q
    <2>3. n < -q /\ n <= Radius
      BY <1>1, <2>1, <2>2 DEF Smaller
    <2>4. q + 1 <= -n
      BY <2>1, <2>3
    <2>5. \A a, b \in Int : a <= b => L * a <= L * b
      BY <1>3
    <2>6. L * (q + 1) <= L * (-n)
      BY <2>1, <2>4, <2>5
    <2>7. L * (q + 1) = L * q + L /\ L * (-n) = -(L * n)
      BY <2>1
    <2>8. L * q \in Int /\ L * n \in Int
      BY <2>1
    <2>9. L * n < eps
      BY <2>1, <2>6, <2>7, <2>8
    <2>10. QED BY <2>3, <2>9
  <1>4. QED BY <1>2, <1>3

LEMMA LipschitzInt ==
  ASSUME NEW eps \in Nat \ {0}, NEW L \in Nat
  PROVE  LipschitzDelta(eps, L) \in Int
  <1>1. Radius \in Nat
    BY QuantifierAssumption
  <1>2. CASE L = 0
    BY <1>1, <1>2 DEF LipschitzDelta
  <1>3. CASE L # 0
    <2>1. (-eps) \div L \in Int
      BY <1>3
    <2>2. QED BY <1>1, <1>3, <2>1 DEF LipschitzDelta, Smaller
  <1>4. QED BY <1>2, <1>3

LEMMA SlopedStep ==
  ASSUME Inv, Sloped PROVE Inv'
  <1>1. pc = "sloped" /\ pc \in Returns \ {"done"}
    BY DEF Sloped, Returns
  <1>2. task.pattern = "lipschitz_delta" /\ call.op = "lipschitz" /\ call.box = Ball(task.at, Radius) /\ ~Busy
        /\ outcome = "none" /\ result.kind \in Yields(call.op) \cup {"raised"}
    BY <1>1, AtReturn DEF Purpose
  <1>3. CASE GivesUp
    BY <1>1, <1>3, GivesUpKeeps
  <1>4. CASE Answered
    <2> DEFINE n == Len(task.epsilons)
               L == result.value
    <2>1. /\ found' = [i \in DOMAIN task.epsilons |->
                        [epsilon |-> task.epsilons[i], value |-> LipschitzDelta(task.epsilons[i], L)]]
          /\ Conclude(TRUE) /\ UNCHANGED <<task, index, delta, lo, hi, tries, f>>
      BY <1>4 DEF Sloped, GivesUp, Answered, Conclude, Step
    <2>2. result.kind = "lipschitz"
      BY <1>2, <1>4, YieldsHas DEF Answered
    <2>3. /\ L \in Nat
          /\ \A c, e \in Ball(task.at, Radius) : Abs(f[c] - f[e]) <= L * Abs(c - e)
      BY <1>2, <2>2 DEF Inv, SolverInv, SolverTypeOK, Truth, Steep
    <2>4. /\ task.epsilons \in Seq(Nat \ {0}) /\ DOMAIN task.epsilons = 1..n /\ n \in Nat
          /\ \A i \in 1..n : task.epsilons[i] \in Nat \ {0}
      BY DEF Inv, PatternInv, PatternTypes, Task
    <2>5. task.at \in Cells /\ Radius \in Nat /\ \A c \in Cells : c \in Int /\ f[c] \in Int
      BY Ints, QuantifierAssumption DEF Inv, SolverInv, PatternInv, PatternTypes, Task
    <2> HIDE DEF n, L
    <2>6. \A i \in 1..n : found'[i].epsilon = task.epsilons[i]
                          /\ found'[i].value = LipschitzDelta(task.epsilons[i], L)
      BY <2>1, <2>4
    <2>7. found' \in Seq([epsilon : Int, value : Int]) /\ DOMAIN found' = 1..n
      <3>1. \A i \in 1..n : [epsilon |-> task.epsilons[i], value |-> LipschitzDelta(task.epsilons[i], L)]
                              \in [epsilon : Int, value : Int]
        <4>1. \A i \in 1..n : task.epsilons[i] \in Int /\ LipschitzDelta(task.epsilons[i], L) \in Int
          <5>1. TAKE i \in 1..n
          <5> DEFINE eps == task.epsilons[i]
          <5>2. eps \in Nat \ {0}
            BY <2>4
          <5> HIDE DEF eps
          <5>3. eps \in Int /\ LipschitzDelta(eps, L) \in Int
            BY <2>3, <5>2, LipschitzInt
          <5>4. QED BY <5>3 DEF eps
        <4>2. QED BY <4>1
      <3>2. found' \in [1..n -> [epsilon : Int, value : Int]]
        BY <2>1, <2>4, <3>1
      <3> DEFINE T == [epsilon : Int, value : Int]
      <3>3. found' \in [1..n -> T]
        BY <3>2
      <3> HIDE DEF T
      <3>4. found' \in Seq(T) /\ DOMAIN found' = 1..n
        BY <2>4, <3>3
      <3>5. QED BY <3>4 DEF T
    <2>8. ASSUME NEW i \in 1..n, NEW c \in Cells, Abs(c - task.at) < found'[i].value
          PROVE  Abs(f[c] - f[task.at]) < found'[i].epsilon
      <3> DEFINE eps == task.epsilons[i]
                 m == Abs(c - task.at)
      <3>1. eps \in Nat \ {0} /\ m \in Nat
        BY <2>4, <2>5 DEF Abs
      <3>2. m <= Radius /\ L * m < eps
        <4> HIDE DEF eps, m
        <4>1. m < LipschitzDelta(eps, L)
          BY <2>6, <2>8 DEF eps, m
        <4>2. QED BY <2>3, <3>1, <4>1, LipschitzWithin
      <3>3. c \in Ball(task.at, Radius) /\ task.at \in Ball(task.at, Radius)
        BY <2>5, <3>2 DEF Ball, Abs
      <3>4. Abs(f[c] - f[task.at]) <= L * m
        BY <2>3, <3>3
      <3>5. Abs(f[c] - f[task.at]) \in Int /\ L * m \in Int
        BY <2>3, <2>5, <3>1 DEF Abs
      <3>6. Abs(f[c] - f[task.at]) < eps
        <4> HIDE DEF eps, m
        <4>1. QED BY <3>1, <3>2, <3>4, <3>5
      <3>7. QED BY <2>6, <3>6
    <2>9. DeltaTruth'
      BY <1>2, <2>1, <2>7, <2>8 DEF DeltaTruth
    <2>10. outcome' = "success"
      BY <2>1 DEF Conclude
    <2>11. Claims'
      BY <1>2, <2>1, <2>9, <2>10 DEF Claims, ForAllWitness, ThresholdWindow, WitnessKept
    <2>12. PatternTypes'
      BY <2>1, <2>7, <2>10 DEF Inv, PatternInv, PatternTypes
    <2>13. QED BY <1>2, <2>1, <2>11, <2>12, Concluded
  <1>5. QED BY <1>3, <1>4 DEF Sloped

-----------------------------------------------------------------------------
(* The two searches                                                         *)

(* A search that found a value for its epsilon goes on to the next one. *)
Good(value) ==
  /\ task.pattern = "searched_delta" =>
       \A c \in Ball(task.at, value) : Abs(f[c] - task.limit) < Eps
  /\ task.pattern = "asymptotic" => Small(value)

LEMMA FoundKeeps ==
  ASSUME Inv, NEW value \in Int, Found(value), Good(value), Eps \in Int,
         UNCHANGED <<task, f, outcome>>, outcome = "none", task.pattern \in Searches
  PROVE  Claims' /\ found' \in Seq([epsilon : Int, value : Int])
  <1> DEFINE w == [epsilon |-> Eps, value |-> value]
             T == [epsilon : Int, value : Int]
  <1>1. found \in Seq(T) /\ found' = Append(found, w)
    BY DEF Found, Inv, PatternInv, PatternTypes
  <1>2. w \in T /\ w.epsilon = Eps /\ w.value = value
    OBVIOUS
  <1> HIDE DEF w, T
  <1>3. /\ found' \in Seq(T) /\ DOMAIN found' = 1..(Len(found) + 1) /\ Len(found) \in Nat
        /\ DOMAIN found = 1..Len(found)
        /\ found'[Len(found) + 1] = w /\ \A i \in 1..Len(found) : found'[i] = found[i]
    BY <1>1, <1>2
  <1>4. \A i \in DOMAIN found' : (i \in DOMAIN found /\ found'[i] = found[i]) \/ found'[i] = w
    BY <1>3
  <1>5. DeltaTruth'
    <2>1. SUFFICES ASSUME task.pattern = "searched_delta", NEW i \in DOMAIN found'
                   PROVE  \A c \in Ball(task.at, found'[i].value) : Abs(f[c] - task.limit) < found'[i].epsilon
      BY DEF DeltaTruth, Searches, Ball
    <2>2. CASE i \in DOMAIN found /\ found'[i] = found[i]
      BY <2>1, <2>2 DEF Inv, PatternInv, Claims, DeltaTruth
    <2>3. CASE found'[i] = w
      BY <1>2, <2>1, <2>3 DEF Good
    <2>4. QED BY <1>4, <2>2, <2>3
  <1>6. ThresholdWindow'
    <2>1. SUFFICES ASSUME task.pattern = "asymptotic", NEW i \in DOMAIN found'
                   PROVE  \/ found'[i].value = Last /\ Abs(f[Last]) <= found'[i].epsilon
                          \/ \A c \in Window(found'[i].value) : Abs(f[c]) <= found'[i].epsilon
      BY DEF ThresholdWindow, Window
    <2>2. CASE i \in DOMAIN found /\ found'[i] = found[i]
      BY <2>1, <2>2 DEF Inv, PatternInv, Claims, ThresholdWindow
    <2>3. CASE found'[i] = w
      BY <1>2, <2>1, <2>3 DEF Good, Small
    <2>4. QED BY <1>4, <2>2, <2>3
  <1>7. ForAllWitness' /\ WitnessKept'
    BY DEF ForAllWitness, WitnessKept
  <1>8. QED BY <1>3, <1>5, <1>6, <1>7 DEF Claims, T

(* A pattern goes on by itself, to its next epsilon or its next round. *)
LEMMA StepGoesOn ==
  ASSUME Inv, ~Busy, NEW where \in {"epsilon", "try"}, Step(where), outcome = "none",
         UNCHANGED <<task, outcome>>, task.pattern \in Searches, PatternTypes', Claims',
         where = "try" => Searching' /\ (task.pattern = "asymptotic" => Small(hi)')
  PROVE  Inv'
  <1>1. SolverInv' /\ pc' = where /\ UNCHANGED <<f, call, back, result>>
    BY StepKeeps DEF Inv
  <1>2. ~Waiting'
    BY <1>1 DEF Waiting, Busy, BusyPCs, SolverPCs, Returns
  <1>3. PatternFlow' /\ Beyond'
    BY <1>1, <1>2 DEF PatternFlow, Beyond
  <1>4. QED BY <1>1, <1>3 DEF Inv, PatternInv

LEMMA SmallFacts ==
  ASSUME Inv
  PROVE  /\ First \in Int /\ Last \in Int /\ Radius \in Nat /\ MaxTries \in Nat \ {0}
         /\ index \in Nat \ {0} /\ delta \in Int /\ lo \in Int /\ hi \in Int
         /\ Middle \in Int /\ delta \div 2 \in Int /\ f[Last] \in Int
         /\ task.epsilons \in Seq(Nat \ {0}) /\ Len(task.epsilons) \in Nat
         /\ (index \in 1..Len(task.epsilons) => Eps \in Nat \ {0})
  <1>1. /\ index \in Nat \ {0} /\ delta \in Int /\ lo \in Int /\ hi \in Int /\ task.epsilons \in Seq(Nat \ {0})
    BY DEF Inv, PatternInv, PatternTypes, Task
  <1>2. First \in Int /\ Last \in Int /\ f[Last] \in Int
    BY QuantifierAssumption, Ints DEF Inv, SolverInv
  <1>3. Middle \in Int /\ delta \div 2 \in Int
    BY <1>1 DEF Middle
  <1>4. index \in 1..Len(task.epsilons) => Eps \in Nat \ {0}
    BY <1>1 DEF Eps
  <1>5. QED BY <1>1, <1>2, <1>3, <1>4, QuantifierAssumption

LEMMA BeginSearchStep ==
  ASSUME Inv, BeginSearch PROVE Inv'
  <1>1. pc = "epsilon" /\ ~Busy /\ outcome = "none" /\ task.pattern \in Searches
    BY DEF BeginSearch, Inv, PatternInv, PatternFlow, Busy, BusyPCs, SolverPCs
  <1>2. /\ UNCHANGED <<task, outcome, found>> /\ index \in 1..Len(task.epsilons)
        /\ lo' = First /\ hi' = Last /\ tries' = 0 /\ delta' = Radius
    BY SmallFacts DEF BeginSearch
  <1>3. index' \in {index, index + 1} => PatternTypes'
    BY <1>2, SmallFacts DEF Inv, PatternInv, PatternTypes
  <1>4. Step("epsilon") \/ Step("try") => UNCHANGED f
    BY DEF Step
  <1>5. UNCHANGED f => Claims'
    BY <1>1, <1>2 DEF Inv, PatternInv, Claims, ForAllWitness, DeltaTruth, ThresholdWindow, WitnessKept, Ball, Window
  <1>6. CASE (task.pattern = "asymptotic" => Abs(f[Last]) <= Eps) /\ Step("try") /\ UNCHANGED index
    <2>1. UNCHANGED f
      BY <1>4, <1>6
    <2>2. Searching'
      BY <1>1, <1>2, <1>6, SmallFacts DEF Searching
    <2>3. task.pattern = "asymptotic" => Small(hi)'
      BY <1>2, <1>6, <2>1 DEF Small, Eps
    <2>4. QED BY <1>1, <1>2, <1>3, <1>5, <1>6, <2>1, <2>2, <2>3, StepGoesOn
  <1>7. CASE NextEpsilon
    <2>1. index' = index + 1 /\ Step("epsilon") /\ UNCHANGED f
      BY <1>4, <1>7 DEF NextEpsilon
    <2>2. QED BY <1>1, <1>2, <1>3, <1>5, <2>1, StepGoesOn
  <1>8. QED BY <1>6, <1>7 DEF BeginSearch

LEMMA TryStep ==
  ASSUME Inv, Try PROVE Inv'
  <1>1. pc = "try" /\ ~Busy /\ outcome = "none" /\ Searching
    BY DEF Try, Inv, PatternInv, PatternFlow, Busy, BusyPCs, SolverPCs
  <1>2. UNCHANGED <<task, index, delta, lo, hi, tries, found, outcome>>
    BY DEF Try, search
  <1> DEFINE box == IF task.pattern = "asymptotic" THEN Window(Middle) ELSE Ball(task.at, delta)
             c == Ask("find_bounds", box)
  <1>3. task' \in Task /\ box \in SUBSET Cells
    BY <1>2 DEF Inv, PatternInv, PatternTypes, Window, Ball
  <1>4. Enter(c, "tried") /\ "tried" \in Returns
    BY DEF Try, Returns
  <1> HIDE DEF box
  <1>5. c \in Call /\ c.op = "find_bounds" /\ c.box = box
    BY <1>3, AskTyped DEF Operations
  <1> HIDE DEF c
  <1>6. call' = c /\ back' = "tried" /\ UNCHANGED f
    BY <1>4 DEF Enter
  <1>7. Searching' /\ box = IF task'.pattern = "asymptotic" THEN Window(Middle)' ELSE Ball(task.at, delta)'
    BY <1>1, <1>2 DEF Searching, box, Window, Ball, Middle
  <1>8. Purpose'
    BY <1>5, <1>6, <1>7 DEF Purpose
  <1>9. Beyond'
    BY <1>1, <1>2, <1>6 DEF Inv, PatternInv, Beyond, Small, Window, Eps
  <1>10. PatternTypes'
    BY <1>2 DEF Inv, PatternInv, PatternTypes
  <1>11. QED BY <1>1, <1>2, <1>4, <1>5, <1>8, <1>9, <1>10, Entered

LEMMA BisectStep ==
  ASSUME Inv, Bisect PROVE Inv'
  <1>1. pc = "tried" /\ pc \in Returns \ {"done"} /\ task.pattern = "asymptotic"
    BY DEF Bisect, Returns
  <1>2. ~Busy /\ outcome = "none" /\ Searching /\ call.op = "find_bounds" /\ call.box = Window(Middle)
    BY <1>1, AtReturn DEF Purpose
  <1>3. index \in 1..Len(task.epsilons) /\ tries < MaxTries /\ task.pattern \in Searches
    BY <1>2 DEF Searching
  <1>4. Eps \in Nat \ {0}
    BY <1>3, SmallFacts
  <1>5. Small(hi)
    BY <1>1, AtReturn DEF Inv, PatternInv, Beyond, Waiting
  <1>6. WithinEpsilon => Small(Middle)
    <2>1. SUFFICES ASSUME WithinEpsilon, NEW c \in Window(Middle) PROVE Abs(f[c]) <= Eps
      BY DEF Small
    <2>2. /\ result.low \in Int /\ result.high \in Int /\ f[c] \in Int
          /\ result.low <= f[c] /\ f[c] <= result.high
      BY <1>1, <1>2, <2>1, BoundsKnown DEF WithinEpsilon
    <2>3. Abs(result.low) <= Eps /\ Abs(result.high) <= Eps
      BY <2>1 DEF WithinEpsilon
    <2>4. QED BY <1>4, <2>2, <2>3 DEF Abs
  <1>7. hi' \in Int /\ lo' \in Int /\ Small(hi')
    BY <1>5, <1>6, SmallFacts DEF Bisect
  <1>8. UNCHANGED <<task, outcome, delta>> /\ tries' = tries + 1
    BY DEF Bisect, Count
  <1>9. tries' \in 0..MaxTries
    BY <1>3, <1>8, SmallFacts DEF Inv, PatternInv, PatternTypes
  <1>10. CASE Found(hi') /\ NextEpsilon
    <2>1. Step("epsilon") /\ index' = index + 1 /\ UNCHANGED f
      BY <1>10 DEF NextEpsilon, Step
    <2>2. Good(hi')
      BY <1>1, <1>7 DEF Good
    <2>3. Claims' /\ found' \in Seq([epsilon : Int, value : Int])
      BY <1>2, <1>3, <1>4, <1>7, <1>8, <1>10, <2>1, <2>2, FoundKeeps
    <2>4. PatternTypes'
      BY <1>7, <1>8, <1>9, <2>1, <2>3, SmallFacts DEF Inv, PatternInv, PatternTypes
    <2>5. QED BY <1>2, <1>3, <1>8, <2>1, <2>3, <2>4, StepGoesOn
  <1>11. CASE ~Spent(tries') /\ Step("try") /\ UNCHANGED <<index, found>>
    <2>1. UNCHANGED f
      BY <1>11 DEF Step
    <2>2. Claims'
      BY <1>2, <1>8, <1>11, <2>1 DEF Inv, PatternInv, Claims, ForAllWitness, DeltaTruth, ThresholdWindow,
                                     WitnessKept, Ball, Window
    <2>3. PatternTypes'
      BY <1>7, <1>8, <1>9, <1>11 DEF Inv, PatternInv, PatternTypes
    <2>4. tries' < MaxTries
      BY <1>9, <1>11, SmallFacts DEF Spent
    <2>5. Searching'
      BY <1>3, <1>8, <1>11, <2>4 DEF Searching
    <2>6. Small(hi)'
      BY <1>7, <1>8, <1>11, <2>1 DEF Small, Window, Eps
    <2>7. QED BY <1>2, <1>3, <1>8, <1>11, <2>2, <2>3, <2>5, <2>6, StepGoesOn
  <1>12. QED BY <1>10, <1>11 DEF Bisect

LEMMA ShrinkStep ==
  ASSUME Inv, Shrink PROVE Inv'
  <1>1. pc = "tried" /\ pc \in Returns \ {"done"} /\ task.pattern = "searched_delta"
    BY DEF Shrink, Returns
  <1>2. ~Busy /\ outcome = "none" /\ Searching /\ call.op = "find_bounds" /\ call.box = Ball(task.at, delta)
    BY <1>1, AtReturn DEF Purpose
  <1>3. index \in 1..Len(task.epsilons) /\ tries < MaxTries /\ task.pattern \in Searches
    BY <1>2 DEF Searching
  <1>4. Eps \in Nat \ {0}
    BY <1>3, SmallFacts
  <1>5. UNCHANGED <<task, outcome, lo, hi>>
    BY DEF Shrink
  <1>6. CASE NearLimit /\ Found(delta) /\ NextEpsilon /\ UNCHANGED <<delta, tries>>
    <2>1. Step("epsilon") /\ index' = index + 1 /\ UNCHANGED f
      BY <1>6 DEF NextEpsilon, Step
    <2>2. ASSUME NEW c \in Ball(task.at, delta) PROVE Abs(f[c] - task.limit) < Eps
      <3>1. /\ result.low \in Int /\ result.high \in Int /\ f[c] \in Int
            /\ result.low <= f[c] /\ f[c] <= result.high
        BY <1>1, <1>2, <1>6, BoundsKnown DEF NearLimit
      <3>2. Abs(result.low - task.limit) < Eps /\ Abs(result.high - task.limit) < Eps
        BY <1>6 DEF NearLimit
      <3>3. task.limit \in Int
        BY DEF Inv, PatternInv, PatternTypes, Task
      <3>4. QED BY <1>4, <3>1, <3>2, <3>3 DEF Abs
    <2>3. Good(delta)
      BY <1>1, <2>2 DEF Good
    <2>4. Claims' /\ found' \in Seq([epsilon : Int, value : Int])
      BY <1>2, <1>3, <1>4, <1>5, <1>6, <2>1, <2>3, FoundKeeps, SmallFacts
    <2>5. PatternTypes'
      BY <1>5, <1>6, <2>1, <2>4, SmallFacts DEF Inv, PatternInv, PatternTypes
    <2>6. QED BY <1>2, <1>3, <1>5, <2>1, <2>4, <2>5, StepGoesOn
  <1>7. CASE /\ ~NearLimit /\ delta' = delta \div 2 /\ tries' = Count /\ UNCHANGED found
             /\ IF Spent(tries') THEN NextEpsilon ELSE Step("try") /\ UNCHANGED index
    <2>1. UNCHANGED f
      BY <1>7 DEF NextEpsilon, Step
    <2>2. Claims'
      BY <1>2, <1>5, <1>7, <2>1 DEF Inv, PatternInv, Claims, ForAllWitness, DeltaTruth, ThresholdWindow,
                                    WitnessKept, Ball, Window
    <2>3. tries' \in 0..MaxTries /\ (~Spent(tries') => tries' < MaxTries)
      BY <1>3, <1>7, SmallFacts DEF Inv, PatternInv, PatternTypes, Count, Spent
    <2>4. index' \in {index, index + 1}
      BY <1>7 DEF NextEpsilon
    <2>5. PatternTypes'
      BY <1>5, <1>7, <2>3, <2>4, SmallFacts DEF Inv, PatternInv, PatternTypes
    <2>6. CASE Spent(tries')
      <3>1. Step("epsilon")
        BY <1>7, <2>6 DEF NextEpsilon
      <3>2. QED BY <1>2, <1>3, <1>5, <2>2, <2>5, <3>1, StepGoesOn
    <2>7. CASE ~Spent(tries')
      <3>1. Step("try") /\ UNCHANGED index
        BY <1>7, <2>7
      <3>2. Searching'
        BY <1>3, <1>5, <2>3, <2>7, <3>1 DEF Searching
      <3>3. QED BY <1>1, <1>2, <1>3, <1>5, <2>2, <2>5, <3>1, <3>2, StepGoesOn
    <2>8. QED BY <2>6, <2>7
  <1>8. QED BY <1>6, <1>7 DEF Shrink

LEMMA EndSearchStep ==
  ASSUME Inv, EndSearch PROVE Inv'
  <1>1. pc = "epsilon" /\ ~Busy /\ task.pattern \in Searches
    BY DEF EndSearch, Inv, PatternInv, PatternFlow, Busy, BusyPCs, SolverPCs
  <1> DEFINE success == found # <<>>
  <1>2. Conclude(success) /\ UNCHANGED <<task, index, delta, lo, hi, tries, found, f>>
    BY DEF EndSearch, search, Conclude, Step
  <1>3. outcome' \in {"success", "failed"} /\ success \in BOOLEAN
    BY <1>2 DEF Conclude
  <1> HIDE DEF success
  <1>4. Claims'
    BY <1>1, <1>2 DEF Inv, PatternInv, Claims, ForAllWitness, DeltaTruth, ThresholdWindow, WitnessKept,
                      Ball, Window, Searches
  <1>5. PatternTypes'
    BY <1>2, <1>3 DEF Inv, PatternInv, PatternTypes
  <1>6. QED BY <1>1, <1>2, <1>3, <1>4, <1>5, Concluded

-----------------------------------------------------------------------------
(* The invariant                                                            *)

LEMMA InvInit == Init => Inv
  <1>1. SUFFICES ASSUME Init PROVE Inv
    OBVIOUS
  <1>2. /\ f \in Functions /\ call = NoCall /\ pc = "idle" /\ back = "done"
        /\ checks = NoChecks /\ point = 0 /\ low = 0 /\ high = 0
        /\ race = NoRace /\ taken = {} /\ by = "none"
        /\ current = 0 /\ pace = 0 /\ sense = 1 /\ round = 0 /\ sure = FALSE /\ result = NoResult
    BY <1>1 DEF Init, SolverInit
  <1>3. NoCall \in Call
    <2>1. {} \in Optional
      BY DEF Optional
    <2>2. QED BY <2>1 DEF NoCall, Call, Operations, Strategies
  <1>4. result \in Answer /\ result.kind = "none"
    BY <1>2, EmptyResult DEF Answer, NoResult
  <1>5. checks \in [Directions -> Statuses \cup {"none", "rejected"}] /\ race \in [Strategies -> Futures]
    BY <1>2 DEF NoChecks, NoRace, Futures
  <1>6. SolverTypeOK
    <2>1. /\ point \in Cells \cup {0} /\ low \in Int /\ high \in Int
          /\ current \in Int /\ pace \in Nat /\ sense \in {-1, 1} /\ round \in Nat
      BY <1>2
    <2>2. sure \in BOOLEAN /\ taken \subseteq Strategies /\ by \in Strategies \cup {"none"}
      BY <1>2
    <2>3. QED BY <1>2, <1>3, <1>4, <1>5, <2>1, <2>2 DEF SolverTypeOK, Answer
  <1>7. ~Busy /\ ~Waiting
    BY <1>2 DEF Busy, Waiting, BusyPCs, Returns
  <1>8. Flow
    BY <1>2, <1>7 DEF Flow, PCs, SolverPCs, Returns
  <1>9. Racing
    BY <1>2 DEF Racing, Quiet, NoRace
  <1>10. Partial
    BY <1>2 DEF Partial
  <1>11. Truth
    BY <1>4 DEF Truth, AnswersTrue, RefinedInside, RefinedChecked, ByWhom, Steep
  <1>12. /\ task = NoTask /\ index = 1 /\ delta = 0 /\ lo = First /\ hi = Last
         /\ tries = 0 /\ found = <<>> /\ outcome = "none"
    BY <1>1 DEF Init
  <1>13. PatternTypes
    <2>1. First \in Int /\ Last \in Int /\ MaxTries \in Nat \ {0} /\ First \in Cells
      BY SolverAssumption, QuantifierAssumption
    <2>2. NoTask \in Task
      <3>1. <<>> \in Seq(Nat \ {0})
        OBVIOUS
      <3>2. QED BY <2>1, <3>1 DEF NoTask, Task, Patterns, Signs
    <2>3. found \in Seq([epsilon : Int, value : Int])
      BY <1>12
    <2>4. index \in Nat \ {0} /\ delta \in Int /\ lo \in Int /\ hi \in Int /\ tries \in 0..MaxTries
      BY <1>12, <2>1
    <2>5. QED BY <1>12, <2>2, <2>3, <2>4 DEF PatternTypes
  <1>14. PatternFlow /\ Beyond
    BY <1>2, <1>7, <1>12 DEF PatternFlow, Beyond
  <1>15. Claims
    BY <1>12 DEF Claims, ForAllWitness, DeltaTruth, ThresholdWindow, WitnessKept
  <1>16. QED BY <1>6, <1>8, <1>9, <1>10, <1>11, <1>13, <1>14, <1>15 DEF Inv, SolverInv, PatternInv

(* A thread of the executor changes nothing a pattern looks at. *)
LEMMA StrategyStep ==
  ASSUME Inv, NEW s \in Strategies, Strategy(s) PROVE Inv'
  <1>1. Executor(s) /\ UNCHANGED patternVars
    BY DEF Strategy, patternVars
  <1>2. SolverInv' /\ UNCHANGED <<f, call, pc, back, result>> /\ pc \in {"race", "leave"}
    BY <1>1, ExecutorStep DEF Inv
  <1>3. Busy /\ pc' \in BusyPCs \cup {back}
    BY <1>2 DEF Busy, BusyPCs, SolverPCs
  <1>4. PatternInv'
    BY <1>1, <1>2, <1>3, OperationKeepsPattern
  <1>5. QED BY <1>2, <1>4 DEF Inv

LEMMA InvNext ==
  ASSUME Inv, [Next]_vars PROVE Inv'
  <1>1. CASE Begin /\ UNCHANGED <<task, search, outcome>>
    BY <1>1, BeginStep DEF patternVars
  <1>2. CASE Synthesise
    BY <1>2, SynthesiseStep
  <1>3. CASE Synthesis
    BY <1>3, ProposeStep, ClaimedStep, JudgeSignStep, OptimumStep, RootedStep, SlopedStep, BeginSearchStep,
       TryStep, BisectStep, ShrinkStep, EndSearchStep DEF Synthesis
  <1>4. CASE Operation /\ UNCHANGED <<task, search, outcome>>
    <2>1. SolverInv' /\ Busy /\ pc' \in BusyPCs \cup {back} /\ UNCHANGED <<f, call, back>>
      BY <1>4, OperationStep DEF Inv
    <2>2. PatternInv'
      BY <1>4, <2>1, OperationKeepsPattern DEF patternVars
    <2>3. QED BY <2>1, <2>2 DEF Inv
  <1>5. CASE \E s \in Strategies : Strategy(s)
    BY <1>5, StrategyStep
  <1>6. CASE UNCHANGED vars
    <2>1. UNCHANGED <<f, call, pc, back, checks, point, low, high, race, taken, by, current, pace, sense, round,
                      sure, result, task, index, delta, lo, hi, tries, found, outcome>>
      BY <1>6 DEF vars, solverVars, locals, verdicts, reply, contest, refining, search
    <2>2. SolverTypeOK' /\ Flow'
      BY <2>1 DEF Inv, SolverInv, SolverTypeOK, Flow, Busy
    <2>3. Racing' /\ Partial'
      BY <2>1 DEF Inv, SolverInv, Racing, Quiet, ByRace, Failed, Partial, Margin, Holds, Bound, BoundKind, Least
    <2>4. Truth'
      BY <2>1 DEF Inv, SolverInv, Truth, AnswersTrue, RefinedInside, RefinedChecked, ByWhom, ByRace, Failed,
                  Steep, Holds, HasZero, Bound, BoundKind, Least
    <2>5. PatternTypes' /\ PatternFlow' /\ Beyond'
      BY <2>1 DEF Inv, PatternInv, PatternTypes, PatternFlow, Purpose, Waiting, Busy, Searching, Ball, Window,
                  Middle, Beyond, Small, Eps
    <2>6. Claims'
      BY <2>1 DEF Inv, PatternInv, Claims, ForAllWitness, DeltaTruth, ThresholdWindow, WitnessKept, Ball, Window
    <2>7. QED BY <2>2, <2>3, <2>4, <2>5, <2>6 DEF Inv, SolverInv, PatternInv
  <1>7. QED BY <1>1, <1>2, <1>3, <1>4, <1>5, <1>6 DEF Next, Working, Finished

(* The invariant holds in every behaviour: for every domain, expression and *)
(* call, whichever Bridge calls raise and whatever true answers they give.  *)
THEOREM Invariance == Spec => []Inv
  <1>1. Init => Inv
    BY InvInit
  <1>2. Inv /\ [Next]_vars => Inv'
    BY InvNext
  <1>3. QED BY <1>1, <1>2, PTL DEF Spec

(* The variables of the solver and of the patterns keep their types. *)
THEOREM TypeCorrect == Spec => []TypeOK
  <1>1. Inv => TypeOK
    BY DEF Inv, SolverInv, PatternInv, PatternTypes, TypeOK
  <1>2. QED BY <1>1, Invariance, PTL

(* Verdicts, counterexamples, enclosures, root witnesses and diagnoses put  *)
(* together from several true answers of the Bridge are true.               *)
THEOREM AnswersTrueAlways == Spec => []AnswersTrue
  <1>1. Inv => AnswersTrue
    BY DEF Inv, SolverInv, Truth
  <1>2. QED BY <1>1, Invariance, PTL

(* The refined value of a witness never leaves the proven enclosure: what   *)
(* the loop still may move is always less than the room left to both ends.  *)
THEOREM RefinedInsideAlways == Spec => []RefinedInside
  <1>1. Inv => RefinedInside
    BY DEF Inv, SolverInv, Truth
  <1>2. QED BY <1>1, Invariance, PTL

(* A refined value that was verified once is never replaced by one that     *)
(* was not.                                                                 *)
THEOREM RefinedCheckedAlways == Spec => []RefinedChecked
  <1>1. Inv => RefinedChecked
    BY DEF Inv, SolverInv, Truth
  <1>2. QED BY <1>1, Invariance, PTL

(* No strategy uses the client after the race, and the strategy named is    *)
(* one that succeeded, or the fallback after all have failed.               *)
THEOREM RaceIsOverAlways == Spec => []RaceIsOver
  <1>1. Inv => RaceIsOver
    BY DEF Inv, SolverInv, Racing, Truth, ByWhom, ByRace, Failed, Quiet, RaceIsOver
  <1>2. QED BY <1>1, Invariance, PTL

(* A universal pattern succeeds only on a bound that was checked or a sign  *)
(* that was read off a true enclosure.                                      *)
THEOREM ForAllWitnessAlways == Spec => []ForAllWitness
  <1>1. Inv => ForAllWitness
    BY DEF Inv, PatternInv, Claims
  <1>2. QED BY <1>1, Invariance, PTL

(* Every delta found keeps f within its epsilon, by either method. *)
THEOREM DeltaTruthAlways == Spec => []DeltaTruth
  <1>1. Inv => DeltaTruth
    BY DEF Inv, PatternInv, Claims
  <1>2. QED BY <1>1, Invariance, PTL

(* Every threshold found is backed by a window or by the far end. *)
THEOREM ThresholdWindowAlways == Spec => []ThresholdWindow
  <1>1. Inv => ThresholdWindow
    BY DEF Inv, PatternInv, Claims
  <1>2. QED BY <1>1, Invariance, PTL

(* An optimum the solver found is never turned into a failure. *)
THEOREM WitnessKeptAlways == Spec => []WitnessKept
  <1>1. Inv => WitnessKept
    BY DEF Inv, PatternInv, Claims
  <1>2. QED BY <1>1, Invariance, PTL

(* The refinement of a witness, both ways of judging it together.            *)
THEOREM RefinedAlways == Spec => []Refined
  <1>1. RefinedInside /\ RefinedChecked => Refined
    BY DEF Refined
  <1>2. QED BY <1>1, RefinedInsideAlways, RefinedCheckedAlways, PTL

(* No pattern of the synthesizer reports more than was established.          *)
THEOREM PatternsTrueAlways == Spec => []PatternsTrue
  <1>1. ForAllWitness /\ DeltaTruth /\ ThresholdWindow /\ WitnessKept => PatternsTrue
    BY DEF PatternsTrue
  <1>2. QED BY <1>1, ForAllWitnessAlways, DeltaTruthAlways, ThresholdWindowAlways, WitnessKeptAlways, PTL
=============================================================================
