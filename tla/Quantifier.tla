----------------------------- MODULE Quantifier -----------------------------
(***************************************************************************)
(* QuantifierSynthesizer of leancert/quantifier.py, composed with the       *)
(* Solver it calls: every pattern is reduced to one or several operations   *)
(* of the solver, and what those return, an exception included, decides     *)
(* how the pattern goes on.                                                 *)
(*                                                                          *)
(* A cell is also a position on the axis of the one variable: c is within d *)
(* of a when Abs(c - a) <= d.  A distance d stands for every length of d    *)
(* cells or more and less than d + 1.                                       *)
(***************************************************************************)
EXTENDS Solver

CONSTANTS
    Tasks,      \* patterns a caller may ask for
    Radius,     \* neighborhood_radius, and the first delta of the search
    First, Last,  \* search_range of an asymptotic threshold
    Near,       \* the search stops when hi - lo is less than this
    MaxTries    \* rounds of either search: 50 and 20 in the code

Patterns == {"exists_forall_bound", "forall_sign", "minimum_witness", "maximum_witness",
             "exists_root", "asymptotic", "lipschitz_delta", "searched_delta"}
Signs == {"positive", "negative", "non_negative", "non_positive"}

Task == [pattern : Patterns, box : SUBSET Cells, abs : BOOLEAN, sign : Signs,
         racing : BOOLEAN, refining : BOOLEAN,
         epsilons : Seq(Nat \ {0}), at : Cells, limit : Int]

ASSUME QuantifierAssumption ==
    /\ Tasks \subseteq Task
    /\ Radius \in Nat /\ MaxTries \in Nat \ {0}
    /\ First \in Cells /\ Last \in Cells /\ First < Last /\ Near \in Nat \ {0, 1}

VARIABLES
    task,     \* the pattern being synthesised
    index,    \* which epsilon
    delta,    \* the delta proposed, or being tried
    lo, hi,   \* ends of the search for a threshold
    tries,    \* rounds of the search so far
    found,    \* witnesses
    outcome   \* "none", "success" or "failed"

search == <<index, delta, lo, hi, tries, found>>
vars   == <<solverVars, task, search, outcome>>

NoTask == [pattern |-> "exists_forall_bound", box |-> {}, abs |-> FALSE, sign |-> "positive",
           racing |-> FALSE, refining |-> FALSE, epsilons |-> <<>>, at |-> First, limit |-> 0]

TypeOK ==
    /\ SolverTypeOK
    /\ task \in Task
    /\ index \in Nat \ {0} /\ delta \in Int /\ lo \in Int /\ hi \in Int
    /\ tries \in 0..MaxTries
    /\ found \in Seq([epsilon : Int, value : Int])
    /\ outcome \in {"none", "success", "failed"}

Init ==
    /\ SolverInit
    /\ task = NoTask /\ index = 1 /\ delta = 0 /\ lo = First /\ hi = Last
    /\ tries = 0 /\ found = <<>> /\ outcome = "none"

-----------------------------------------------------------------------------
(* Sets of cells the patterns look at                                       *)

Ball(a, d)  == {c \in Cells : Abs(c - a) <= d}
Window(mid) == {c \in Cells : mid <= c /\ 2 * c <= 3 * mid}

(* The call of the solver for a task, over a box. *)
Ask(op, box) ==
    [NoCall EXCEPT !.op = op, !.box = box,
                   !.racing = task'.racing /\ op \in {"min_witness", "max_witness"},
                   !.refining = task'.refining /\ op \in {"min_witness", "max_witness"}]

Step(where) == pc' = where /\ UNCHANGED <<f, call, back, result, locals>>

Conclude(success) ==
    /\ outcome' = IF success THEN "success" ELSE "failed"
    /\ Step("done")
    /\ UNCHANGED task

(* Every pattern catches every exception and reports a failure. *)
GivesUp == result.kind = "raised" /\ Conclude(FALSE) /\ UNCHANGED search
Answered == result.kind # "raised"

-----------------------------------------------------------------------------
(* A pattern begins *)

Synthesise ==
    /\ pc = "idle"
    /\ task' \in Tasks
    /\ UNCHANGED <<search, outcome>>
    /\ LET p == task'.pattern IN
       \/ p = "exists_forall_bound" /\ Enter(Ask("find_bounds", task'.box), "bounded")
       \/ p = "forall_sign" /\ Enter(Ask("find_bounds", task'.box), "signed")
       \/ p = "minimum_witness" /\ Enter(Ask("min_witness", task'.box), "optimum")
       \/ p = "maximum_witness" /\ Enter(Ask("max_witness", task'.box), "optimum")
       \/ p = "exists_root" /\ Enter(Ask("find_roots", task'.box), "rooted")
       \/ p = "lipschitz_delta"
            /\ Enter(Ask("lipschitz", Ball(task'.at, Radius)), "sloped")
       \/ p \in {"asymptotic", "searched_delta"} /\ Step("epsilon")

-----------------------------------------------------------------------------
(* exists_forall_bound: find_bounds proposes, verify_bound disposes *)

Widened(n) == (n * 101) \div 100     \* margin = 1.01
Proposal ==
    Widened(IF task.abs /\ Abs(result.low) > Abs(result.high) THEN Abs(result.low)
            ELSE IF task.abs THEN Abs(result.high) ELSE result.high)

Propose ==
    /\ pc = "bounded" /\ UNCHANGED <<task, index, lo, hi, tries, found>>
    /\ \/ GivesUp
       \/ /\ Answered /\ delta' = Proposal
          /\ Enter([NoCall EXCEPT !.op = "verify_bound", !.box = task.box, !.upper = {delta'},
                                  !.lower = IF task.abs THEN {-delta'} ELSE {}], "claimed")
          /\ UNCHANGED outcome

(* A negative delta makes the interval of the witness inverted: a failure. *)
Claimed ==
    /\ pc = "claimed" /\ UNCHANGED search
    /\ \/ GivesUp
       \/ Answered /\ Conclude(result.kind = "verified" /\ delta >= 0)

-----------------------------------------------------------------------------
(* forall_sign *)

(* Mutant of HasSign: a strict sign is tested like a weak one. *)
HasSignWeakly(l, h) ==
    CASE task.sign \in {"positive", "non_negative"} -> l >= 0
      [] task.sign \in {"negative", "non_positive"} -> h <= 0

HasSign(l, h) ==
    CASE task.sign = "positive" -> l > 0
      [] task.sign = "negative" -> h < 0
      [] task.sign = "non_negative" -> l >= 0
      [] task.sign = "non_positive" -> h <= 0

JudgeSign ==
    /\ pc = "signed" /\ UNCHANGED search
    /\ \/ GivesUp
       \/ Answered /\ Conclude(HasSign(result.low, result.high))

-----------------------------------------------------------------------------
(* minimum_witness, maximum_witness, exists_root *)

(* Interval(proven_bound, witness_value), or the reverse for a maximum,     *)
(* raises when its ends are inverted.                                       *)
Optimum ==
    /\ pc = "optimum" /\ UNCHANGED search
    /\ \/ GivesUp
       \/ Answered /\ Conclude(IF result.kind = "min" THEN result.low <= result.value
                                                      ELSE result.value <= result.high)

(* The first root in the list, whatever its status. *)
Rooted ==
    /\ pc = "rooted" /\ UNCHANGED search
    /\ \/ GivesUp
       \/ Answered /\ Conclude(result.roots # <<>>)

-----------------------------------------------------------------------------
(* epsilon_delta from a Lipschitz constant *)

Smaller(m, n) == IF m <= n THEN m ELSE n

(* Mutant of LipschitzDelta: delta is not clamped to the neighborhood. *)
LipschitzUnclamped(eps, L) == IF L <= 0 THEN Radius ELSE -((-eps) \div L)

(* The cells nearer than eps / L; a constant function has L = 1e-10. *)
LipschitzDelta(eps, L) ==
    IF L <= 0 THEN Radius ELSE Smaller(-((-eps) \div L), Radius)

(* The limit the caller names is not looked at. *)
Sloped ==
    /\ pc = "sloped"
    /\ \/ GivesUp
       \/ /\ Answered
          /\ found' = [i \in DOMAIN task.epsilons |->
                        [epsilon |-> task.epsilons[i],
                         value |-> LipschitzDelta(task.epsilons[i], result.value)]]
          /\ Conclude(TRUE)
          /\ UNCHANGED <<index, delta, lo, hi, tries>>

-----------------------------------------------------------------------------
(* The two searches: a threshold and a delta, one for each epsilon *)

Eps == task.epsilons[index]
Found(value) == found' = Append(found, [epsilon |-> Eps, value |-> value])

(* Go on to the next epsilon. *)
NextEpsilon == index' = index + 1 /\ Step("epsilon")

(* A search begins: the threshold only when f is small at the far end,      *)
(* where evaluating f may raise.                                            *)
BeginSearch ==
    /\ pc = "epsilon" /\ index <= Len(task.epsilons)
    /\ UNCHANGED <<task, outcome, found>>
    /\ lo' = First /\ hi' = Last /\ tries' = 0 /\ delta' = Radius
    /\ LET small == task.pattern = "asymptotic" => Abs(f[Last]) <= Eps
       IN  \/ small /\ Step("try") /\ UNCHANGED index
           \/ ~small /\ NextEpsilon
           \/ task.pattern = "asymptotic" /\ MayRaise /\ NextEpsilon

Middle == (lo + hi) \div 2

(* One round: the bounds of f on a window beyond the middle, or on a ball. *)
Try ==
    /\ pc = "try" /\ UNCHANGED <<task, search, outcome>>
    /\ Enter(Ask("find_bounds", IF task.pattern = "asymptotic" THEN Window(Middle)
                                ELSE Ball(task.at, delta)), "tried")

(* Mutant of Count: a round in which the solver raised is not counted. *)
CountAnswers == IF Answered THEN tries + 1 ELSE tries

Count == tries + 1

(* Mutant of Spent: one round too many. *)
SpentLate(n) == n > MaxTries

Spent(n) == n = MaxTries

(* Mutant of WithinEpsilon: the upper end alone is compared. *)
WithinEpsilonAbove == Answered /\ result.high <= Eps

WithinEpsilon ==
    Answered /\ Abs(result.low) <= Eps /\ Abs(result.high) <= Eps

(* A round of the binary search; an exception counts as a failure. *)
Bisect ==
    /\ pc = "tried" /\ task.pattern = "asymptotic"
    /\ UNCHANGED <<task, outcome, delta>>
    /\ tries' = Count
    /\ IF WithinEpsilon THEN hi' = Middle /\ UNCHANGED lo ELSE lo' = Middle /\ UNCHANGED hi
    /\ IF Spent(tries') \/ hi' - lo' < Near
         THEN Found(hi') /\ NextEpsilon
         ELSE Step("try") /\ UNCHANGED <<index, found>>

NearLimit ==
    Answered /\ Abs(result.low - task.limit) < Eps /\ Abs(result.high - task.limit) < Eps

(* A round of the search for delta.  Twenty halvings never reach 1e-10. *)
Shrink ==
    /\ pc = "tried" /\ task.pattern = "searched_delta"
    /\ UNCHANGED <<task, outcome, lo, hi>>
    /\ \/ NearLimit /\ Found(delta) /\ NextEpsilon /\ UNCHANGED <<delta, tries>>
       \/ /\ ~NearLimit /\ delta' = delta \div 2 /\ tries' = Count /\ UNCHANGED found
          /\ IF Spent(tries') THEN NextEpsilon ELSE Step("try") /\ UNCHANGED index

EndSearch ==
    /\ pc = "epsilon" /\ index > Len(task.epsilons)
    /\ Conclude(found # <<>>)
    /\ UNCHANGED search

-----------------------------------------------------------------------------
Synthesis ==
    \/ Propose \/ Claimed \/ JudgeSign \/ Optimum \/ Rooted \/ Sloped
    \/ BeginSearch \/ Try \/ Bisect \/ Shrink \/ EndSearch

(* The caller's thread, once it has asked for something. *)
Working == Synthesis \/ (Operation /\ UNCHANGED <<task, search, outcome>>)
Strategy(s) == Executor(s) /\ UNCHANGED <<task, search, outcome>>
Finished == pc = "done" /\ UNCHANGED vars

Next ==
    \/ Begin /\ UNCHANGED <<task, search, outcome>>
    \/ Synthesise
    \/ Working
    \/ \E s \in Strategies : Strategy(s)
    \/ Finished

(* The caller's thread runs on, and so does every thread of the executor:   *)
(* each Bridge call returns or raises, as CallsReturn of BridgeClient says. *)
Fairness == WF_vars(Working) /\ \A s \in Strategies : WF_vars(Strategy(s))

Spec == Init /\ [][Next]_vars /\ Fairness

-----------------------------------------------------------------------------
(* Properties *)

(* exists_forall_bound and forall_sign succeed only on what is true of f on *)
(* the whole box: the bound that was proposed is the bound that was         *)
(* checked, and a sign is read off the right end of the right enclosure.    *)
ForAllWitness ==
    outcome = "success" =>
      /\ task.pattern = "exists_forall_bound" =>
           \A c \in task.box : (IF task.abs THEN Abs(f[c]) ELSE f[c]) <= delta
      /\ task.pattern = "forall_sign" =>
           \A c \in task.box :
             CASE task.sign = "positive" -> f[c] > 0
               [] task.sign = "negative" -> f[c] < 0
               [] task.sign = "non_negative" -> f[c] >= 0
               [] task.sign = "non_positive" -> f[c] <= 0

(* Every delta keeps f within its epsilon: of the named limit when it was   *)
(* searched, of f(a) when it comes from the Lipschitz constant, which was   *)
(* computed on the neighborhood only.                                       *)
DeltaTruth ==
    \A i \in DOMAIN found :
      /\ task.pattern = "searched_delta" =>
           \A c \in Ball(task.at, found[i].value) : Abs(f[c] - task.limit) < found[i].epsilon
      /\ task.pattern = "lipschitz_delta" =>
           \A c \in Cells : Abs(c - task.at) < found[i].value =>
                              Abs(f[c] - f[task.at]) < found[i].epsilon

(* A threshold is backed by a verified window or by the test at the far     *)
(* end, however the rounds of the search failed or raised.  (Beyond the     *)
(* window nothing is known: the pattern's "for all x >= N" is not shown.)   *)
ThresholdWindow ==
    task.pattern = "asymptotic" =>
      \A i \in DOMAIN found :
        \/ found[i].value = Last /\ Abs(f[Last]) <= found[i].epsilon
        \/ \A c \in Window(found[i].value) : Abs(f[c]) <= found[i].epsilon

(* An optimum that the solver synthesised is never lost afterwards: the     *)
(* pattern fails only when the solver raised.                               *)
WitnessKept ==
    task.pattern \in {"minimum_witness", "maximum_witness"} /\ outcome = "failed" =>
      result.kind = "raised"

(* What four groups of patterns report, on every path through their searches: *)
(* universal bounds and signs hold on the whole box, a delta keeps f within   *)
(* its epsilon, a threshold is backed by its window or by the far end, and no *)
(* optimum is lost.  exists_root is not among them: it succeeds on the first  *)
(* segment in the list, of status "possible" and "no_root" too (Rooted).      *)
PatternsTrue == ForAllWitness /\ DeltaTruth /\ ThresholdWindow /\ WitnessKept

(* Every operation and every pattern ends, whatever raises and whichever    *)
(* strategies fail or outlast the time limit.                               *)
Ends == pc # "idle" ~> pc = "done"
=============================================================================
