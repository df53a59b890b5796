------------------------------- MODULE Solver -------------------------------
(***************************************************************************)
(* Solver of leancert/solver.py: one operation is made of one or several    *)
(* Bridge calls, each of which may raise, and of what Python does with the  *)
(* answers: the verdict over two bounds, the search for a counterexample,   *)
(* the race of three strategies on one client, the refinement of a witness  *)
(* value, the choice of a root, the diagnosis of a failure.                 *)
(*                                                                          *)
(* The expression is a function f from the cells of the domain to numbers,  *)
(* whole multiples of a unit so small that every halving below is exact.    *)
(* The Bridge (external) knows f and may answer anything true of it, as     *)
(* loosely as Numbers allows.  So a wrong result is always the doing of the *)
(* Python code and not of the oracle.                                       *)
(***************************************************************************)
EXTENDS Integers, Sequences, FiniteSets

CONSTANTS
    Cells,       \* cells of the domain
    Functions,   \* expressions, as functions on Cells
    Numbers,     \* ends of the intervals the Bridge may answer
    Segments,    \* intervals find_roots and find_unique_root may report
    Calls,       \* operations a caller may ask for
    MayRaise     \* whether Bridge calls may raise

Directions == {"lower", "upper"}
Strategies == {"dyadic", "affine", "rational"}
MaxRounds  == 10      \* refinement steps of _refine_min_bound

Operations == {"eval_interval", "find_bounds", "verify_bound", "discover", "find_roots", "find_unique_root",
               "min_witness", "max_witness", "root_witness", "diagnose", "lipschitz"}

(* Optional arguments are sets of at most one number; {} is None. *)
Optional == {s \in SUBSET Int : \A a, b \in s : a = b}
Call == [op : Operations, box : SUBSET Cells, lower : Optional, upper : Optional,
         backend : Strategies, repeats : BOOLEAN,  \* whether some variable occurs twice
         racing : BOOLEAN, refining : BOOLEAN, target : Optional]

ASSUME SolverAssumption ==
    /\ Cells \subseteq Int /\ 0 \notin Cells
    /\ Functions \subseteq [Cells -> Int]
    /\ Numbers \subseteq Int
    /\ Segments \subseteq SUBSET Cells
    /\ Calls \subseteq Call
    /\ MayRaise \in BOOLEAN

VARIABLES
    f,        \* the expression
    call,     \* the operation under way
    pc,       \* where it is
    back,     \* where its caller goes on
    checks,   \* verify_bound: direction -> status of its check
    point,    \* verify_bound: the candidate counterexample (0: none)
    low,      \* lower end of the answers so far (min_lo, max_lo, min_bound.lo)
    high,     \* upper end of them (min_hi, max_hi, max_bound.hi)
    race,     \* strategy -> where its future is
    taken,    \* strategies as_completed has yielded
    by,       \* strategy whose answer is used
    current,  \* refinement: the witness value so far
    pace,     \* refinement: abs(step)
    sense,    \* refinement: 1 while step tightens the bound, -1 when it backs off
    round,    \* refinement: candidates tried so far
    sure,     \* history: some candidate was verified
    result    \* what the operation returned

reply    == <<low, high>>
contest  == <<race, taken, by>>
refining == <<current, pace, sense, round, sure>>
verdicts == <<checks, point>>
locals   == <<verdicts, reply, contest, refining>>
solverVars == <<f, call, pc, back, locals, result>>

Statuses == {"verified", "inconclusive", "unsupported", "domain_obstruction"}
Futures  == {"unused", "pending", "started", "calling", "ok", "failed", "cancelled"}
Kinds    == {"none", "raised", "enclosure", "bounds", "verified", "rejected", "unsupported", "obstructed",
             "inconclusive", "roots", "unique", "not_unique", "min", "max", "root",
             "diagnosis", "no_diagnosis", "lipschitz"}

NoResult == [kind |-> "none", low |-> 0, high |-> 0, value |-> 0, point |-> 0,
             by |-> "none", roots |-> <<>>]
NoCall   == [op |-> "find_bounds", box |-> {}, lower |-> {}, upper |-> {}, backend |-> "dyadic",
             repeats |-> FALSE, racing |-> FALSE, refining |-> FALSE, target |-> {}]
NoChecks == [d \in Directions |-> "none"]
NoRace   == [s \in Strategies |-> "unused"]

Root     == [seg : SUBSET Cells, status : {"confirmed", "no_root", "possible"}]
SolverPCs == {"idle", "eval", "min", "max", "check", "search", "point", "signs", "newton", "optimise",
              "race", "leave", "fallback", "witness", "refine", "certify", "diagnose", "derive"}

SolverTypeOK ==
    /\ f \in Functions
    /\ call \in Call
    /\ checks \in [Directions -> Statuses \cup {"none", "rejected"}]
    /\ point \in Cells \cup {0}
    /\ low \in Int /\ high \in Int
    /\ race \in [Strategies -> Futures] /\ taken \subseteq Strategies
    /\ by \in Strategies \cup {"none"}
    /\ current \in Int /\ pace \in Nat /\ sense \in {-1, 1} /\ round \in Nat
    /\ sure \in BOOLEAN
    /\ result \in [kind : Kinds, low : Int, high : Int, value : Int, point : Cells \cup {0},
                   by : Strategies \cup {"none"}, roots : Seq(Root)]

SolverInit ==
    /\ f \in Functions
    /\ call = NoCall /\ pc = "idle" /\ back = "done"
    /\ checks = NoChecks /\ point = 0
    /\ low = 0 /\ high = 0
    /\ race = NoRace /\ taken = {} /\ by = "none"
    /\ current = 0 /\ pace = 0 /\ sense = 1 /\ round = 0 /\ sure = FALSE
    /\ result = NoResult

-----------------------------------------------------------------------------
(* What is true of f, and what the Bridge may say                           *)

(* v is a bound of f on the box in this direction. *)
Holds(d, v) == \A c \in call.box : IF d = "lower" THEN v <= f[c] ELSE f[c] <= v

(* f has a zero in the segment: it is continuous, so a change of sign will do. *)
HasZero(seg) == \E c, e \in seg : f[c] <= 0 /\ 0 <= f[e]

(* Enclosures of the least and of the greatest value of f on a set of cells. *)
Enclosure == [lo : Numbers, hi : Numbers]
OfLeast(box) ==
    {e \in Enclosure : (\A c \in box : e.lo <= f[c]) /\ (\E c \in box : f[c] <= e.hi)}
OfGreatest(box) ==
    {e \in Enclosure : (\E c \in box : e.lo <= f[c]) /\ (\A c \in box : f[c] <= e.hi)}

Least(op) == op = "min_witness"
OfOptimum(op, box) == IF Least(op) THEN OfLeast(box) ELSE OfGreatest(box)

(* bestBox: absent, or a box whose midpoint lies in the domain. *)
BestBox == call.box \cup {0}

(* Roots a truthful root search may report for a segment. *)
HonestRoots == {r \in [seg : Segments, status : {"confirmed", "no_root", "possible"}] :
                  /\ r.status = "confirmed" => HasZero(r.seg)
                  /\ r.status = "no_root" => ~HasZero(r.seg)}
RootLists == {<<>>} \cup {<<r>> : r \in HonestRoots}
               \cup {<<r[1], r[2]>> : r \in {q \in HonestRoots \X HonestRoots : q[1].seg # q[2].seg}}

-----------------------------------------------------------------------------
(* Control                                                                  *)

Goto(where) == pc' = where /\ UNCHANGED <<f, call, back, result>>
Return(r)   == pc' = back /\ result' = r /\ UNCHANGED <<f, call, back>>
Raise       == Return([NoResult EXCEPT !.kind = "raised"])

Bound(d)    == IF d = "lower" THEN call.lower ELSE call.upper
Asked       == {d \in Directions : Bound(d) # {}}
Unchecked   == {d \in Asked : checks[d] = "none"}
(* `for direction, value in (("lower", lower), ("upper", upper))` *)
NextDirection(d) == d \in Unchecked /\ ("lower" \in Unchecked => d = "lower")

(* _select_backend: only the witness operations and find_bounds use it. *)
Backend == IF call.backend = "dyadic" /\ call.repeats THEN "affine" ELSE call.backend

FirstStep(c) ==
    CASE c.op = "eval_interval" -> "eval"
      [] c.op = "find_bounds" -> "min"
      [] c.op = "verify_bound" -> "check"
      [] c.op = "discover" -> "search"
      [] c.op = "find_roots" -> "signs"
      [] c.op \in {"find_unique_root", "root_witness"} -> "newton"
      [] c.op \in {"min_witness", "max_witness"} -> IF c.racing THEN "race" ELSE "optimise"
      [] c.op = "diagnose" -> "diagnose"
      [] c.op = "lipschitz" -> "derive"

(* An operation starts: _ensure_client and _prepare_request. *)
Enter(c, where) ==
    /\ call' = c /\ back' = where /\ pc' = FirstStep(c)
    /\ checks' = NoChecks /\ point' = 0 /\ low' = 0 /\ high' = 0
    /\ race' = IF FirstStep(c) = "race" THEN [s \in Strategies |-> "pending"] ELSE NoRace
    /\ taken' = {} /\ by' = "none"
    /\ current' = 0 /\ pace' = 0 /\ sense' = 1 /\ round' = 0 /\ sure' = FALSE
    /\ result' = NoResult
    /\ UNCHANGED f

(* A caller asks for an operation. *)
Begin == pc = "idle" /\ \E c \in Calls : Enter(c, "done")

(* Bad arguments, a client that cannot be created, or a domain that does    *)
(* not bind the variables of the expression.                                *)
Reject ==
    /\ pc \in {"eval", "min", "check", "search", "signs", "newton", "race", "optimise", "diagnose", "derive"}
    /\ checks = NoChecks /\ taken = {} /\ \A s \in Strategies : race[s] \in {"unused", "pending"}
    /\ MayRaise \/ (pc \in {"check", "search"} /\ Asked = {})
    /\ Raise
    /\ race' = NoRace /\ UNCHANGED <<verdicts, reply, taken, by, refining>>

(* A Bridge call of the operation raises; nothing catches it. *)
BridgeRaises ==
    /\ MayRaise
    /\ pc \in {"eval", "min", "max", "check", "search", "point", "signs", "newton", "optimise", "fallback",
               "certify", "diagnose", "derive"}
    /\ Raise
    /\ UNCHANGED locals

-----------------------------------------------------------------------------
(* eval_interval and find_bounds *)

EvalInterval ==
    /\ pc = "eval"
    /\ \E e \in Enclosure :
         /\ \A c \in call.box : e.lo <= f[c] /\ f[c] <= e.hi
         /\ Return([NoResult EXCEPT !.kind = "enclosure", !.low = e.lo, !.high = e.hi,
                                    !.by = Backend])
    /\ UNCHANGED locals

FindMin ==
    /\ pc = "min"
    /\ \E e \in OfLeast(call.box) : low' = e.lo
    /\ Goto("max")
    /\ UNCHANGED <<high, verdicts, contest, refining>>

FindMax ==
    /\ pc = "max"
    /\ \E e \in OfGreatest(call.box) :
         /\ high' = e.hi
         /\ Return([NoResult EXCEPT !.kind = "bounds", !.low = low, !.high = e.hi, !.by = Backend])
    /\ UNCHANGED <<low, verdicts, contest, refining>>

-----------------------------------------------------------------------------
(* verify_bound, method checked *)

CheckBound ==
    /\ pc = "check"
    /\ \E d \in Directions, s \in Statuses :
         /\ NextDirection(d)
         /\ s = "verified" => \A v \in Bound(d) : Holds(d, v)
         /\ checks' = [checks EXCEPT ![d] = s]
    /\ Goto("check")
    /\ UNCHANGED <<point, reply, contest, refining>>

Verdict(have) ==
    IF have \subseteq {"verified"} THEN "verified" ELSE
    IF "domain_obstruction" \in have THEN "obstructed" ELSE
    IF "unsupported" \in have THEN "unsupported" ELSE "inconclusive"

Judge ==
    /\ pc = "check" /\ Asked # {} /\ Unchecked = {}
    /\ Return([NoResult EXCEPT !.kind = Verdict({checks[d] : d \in Asked})])
    /\ UNCHANGED locals

-----------------------------------------------------------------------------
(* verify_bound, method adaptive: discovery of a counterexample *)

Abs(n) == IF n < 0 THEN -n ELSE n

(* Where a point of the box may come to lie on its way through float() and  *)
(* to_fraction, whose denominators end at 10^12: in the box, or beside it   *)
(* when it was at an end that neither of them keeps.                        *)
Rounded(box) == {c \in Cells : \E e \in box : Abs(c - e) <= 1}

(* The optimiser's answer is recorded as inconclusive.  Without a bestBox   *)
(* the loop goes on; with one, its midpoint is refined by a local search    *)
(* between the rounded ends of the box (_refine_counterexample_candidate).  *)
Search ==
    /\ pc = "search"
    /\ \E d \in Directions, b \in BestBox :
         /\ NextDirection(d)
         /\ checks' = [checks EXCEPT ![d] = "inconclusive"]
         /\ \/ b = 0 /\ UNCHANGED point /\ Goto("search")
            \/ b # 0 /\ point' \in Rounded(call.box) /\ Goto("point")
    /\ UNCHANGED <<reply, contest, refining>>

(* The direction searched last. *)
Searched == IF checks["upper"] = "none" THEN "lower" ELSE "upper"

(* Mutant of Violates: the end of the enclosure on the wrong side is used. *)
ViolatesLoosely(d, e, v) == IF d = "lower" THEN e.lo < v ELSE e.hi > v

Violates(d, e, v) == IF d = "lower" THEN e.hi < v ELSE e.lo > v

(* check_bound encloses the candidate; only an enclosure wholly on the      *)
(* violating side rejects the bound.                                        *)
TestPoint ==
    /\ pc = "point"
    /\ \E e \in Enclosure, v \in Bound(Searched) :
         /\ e.lo <= f[point] /\ f[point] <= e.hi
         /\ IF Violates(Searched, e, v)
              THEN /\ Return([NoResult EXCEPT !.kind = "rejected", !.point = point])
                   /\ checks' = [checks EXCEPT ![Searched] = "rejected"]
              ELSE Goto("search") /\ UNCHANGED checks
    /\ UNCHANGED <<point, reply, contest, refining>>

GiveUpSearch ==
    /\ pc = "search" /\ Asked # {} /\ Unchecked = {}
    /\ Return([NoResult EXCEPT !.kind = "inconclusive", !.point = point])
    /\ UNCHANGED locals

-----------------------------------------------------------------------------
(* Roots *)

(* find_unique_root, and the first half of synthesize_root_witness. *)
Newton ==
    /\ pc = "newton"
    /\ \E seg \in Segments, unique \in BOOLEAN :
         /\ unique => HasZero(seg)
         /\ LET answer(kind) == [NoResult EXCEPT !.kind = kind,
                                                 !.roots = <<[seg |-> seg, status |-> "confirmed"]>>]
            IN  \/ call.op = "find_unique_root"
                     /\ Return(IF unique THEN answer("unique")
                                         ELSE [NoResult EXCEPT !.kind = "not_unique"])
                \/ call.op = "root_witness" /\ unique /\ Return(answer("root"))
                \/ call.op = "root_witness" /\ ~unique /\ Goto("signs")
    /\ UNCHANGED locals

Confirmed(r) == r.status = "confirmed"
FirstConfirmed(roots, k) ==
    Confirmed(roots[k]) /\ \A j \in 1..(k - 1) : ~Confirmed(roots[j])

(* find_roots, and the second half of synthesize_root_witness. *)
FindRoots ==
    /\ pc = "signs"
    /\ \E roots \in RootLists :
         \/ call.op = "find_roots"
              /\ Return([NoResult EXCEPT !.kind = "roots", !.roots = roots])
         \/ call.op = "root_witness" /\ \E k \in 1..Len(roots) :
              FirstConfirmed(roots, k)
                /\ Return([NoResult EXCEPT !.kind = "root", !.roots = <<roots[k]>>])
         \/ call.op = "root_witness" /\ (\A k \in 1..Len(roots) : ~Confirmed(roots[k])) /\ Raise
    /\ UNCHANGED locals

-----------------------------------------------------------------------------
(* The race of strategies *)

(* A thread of the executor takes up a submitted strategy. *)
StartFuture(s) ==
    /\ race[s] = "pending"
    /\ race' = [race EXCEPT ![s] = "started"]
    /\ UNCHANGED <<f, call, pc, back, result, verdicts, reply, taken, by, refining>>

(* It obtains the lock of the shared client. *)
CallBridge(s) ==
    /\ race[s] = "started" /\ \A o \in Strategies : race[o] # "calling"
    /\ race' = [race EXCEPT ![s] = "calling"]
    /\ UNCHANGED <<f, call, pc, back, result, verdicts, reply, taken, by, refining>>

(* Its call returns or raises. *)
EndFuture(s) ==
    /\ race[s] = "calling"
    /\ \E end \in {"ok"} \cup (IF MayRaise THEN {"failed"} ELSE {}) :
         race' = [race EXCEPT ![s] = end]
    /\ UNCHANGED <<f, call, pc, back, result, verdicts, reply, taken, by, refining>>

Cancelled == [s \in Strategies |-> IF race[s] = "pending" THEN "cancelled" ELSE race[s]]

(* as_completed yields a future: the first that succeeded ends the loop.    *)
(* Futures that have not started are cancelled, the others cannot be.       *)
TakeFuture(s) ==
    /\ pc = "race" /\ s \notin taken /\ race[s] \in {"ok", "failed"}
    /\ taken' = taken \cup {s}
    /\ \/ /\ race[s] = "ok"
          /\ \E e \in OfOptimum(call.op, call.box) : low' = e.lo /\ high' = e.hi
          /\ by' = s /\ race' = Cancelled /\ Goto("leave")
       \/ race[s] = "failed" /\ Goto("race") /\ UNCHANGED <<reply, by, race>>
    /\ UNCHANGED <<verdicts, refining>>

(* The time limit passes while futures are outstanding, or none is left. *)
TimeOut ==
    /\ pc = "race" /\ MayRaise /\ taken # Strategies
    /\ Goto("leave") /\ UNCHANGED locals

AllFailed ==
    /\ pc = "race" /\ taken = Strategies
    /\ Goto("leave") /\ UNCHANGED locals

(* Leaving the executor's `with` block waits for every thread. *)
Quiet == \A s \in Strategies : race[s] \notin {"pending", "started", "calling"}

(* Mutant of Leave: the fallback runs after the time limit too. *)
LeaveAndFallBack ==
    /\ pc = "leave" /\ Quiet
    /\ \/ by # "none" /\ Goto("witness")
       \/ by = "none" /\ Goto("fallback")
    /\ UNCHANGED locals

Leave ==
    /\ pc = "leave" /\ Quiet
    /\ \/ by # "none" /\ Goto("witness")
       \/ by = "none" /\ taken = Strategies /\ Goto("fallback")
       \/ by = "none" /\ taken # Strategies /\ Raise
    /\ UNCHANGED locals

(* A run of one strategy: the fallback of a race, or the configured one. *)
Optimise ==
    /\ pc \in {"optimise", "fallback"}
    /\ \E e \in OfOptimum(call.op, call.box) : low' = e.lo /\ high' = e.hi
    /\ by' = IF pc = "fallback" THEN "dyadic" ELSE Backend
    /\ Goto("witness")
    /\ UNCHANGED <<verdicts, race, taken, refining>>

-----------------------------------------------------------------------------
(* Witnesses and their refinement *)

(* The midpoint of the enclosure is the witness value; the witness point is *)
(* the midpoint of bestBox, or None.                                        *)
ExtractWitness ==
    /\ pc = "witness"
    /\ point' \in BestBox
    /\ current' = (low + high) \div 2 /\ pace' = (high - low) \div 4
    /\ sense' = 1 /\ round' = 0 /\ sure' = FALSE
    /\ Goto(IF call.refining THEN "refine" ELSE "certify")
    /\ UNCHANGED <<checks, reply, contest>>

(* A lower bound is tightened upwards, an upper bound downwards. *)
Candidate == IF Least(call.op) = (sense = 1) THEN current + pace ELSE current - pace
BeyondTarget ==
    \E t \in call.target : IF Least(call.op) THEN Candidate > t ELSE Candidate < t
BoundKind == IF Least(call.op) THEN "lower" ELSE "upper"

(* Mutant of Accept: the step is not halved after a success. *)
AcceptFullStep ==
    /\ current' = Candidate /\ UNCHANGED <<pace, sense>>
    /\ sure' = TRUE

Accept ==
    /\ current' = Candidate /\ pace' = pace \div 2
    /\ sure' = TRUE /\ UNCHANGED sense

(* Mutant of BackOff: the candidate that failed is kept. *)
BackOffKeepingIt ==
    /\ current' = Candidate /\ pace' = pace \div 2 /\ sense' = -1
    /\ UNCHANGED sure

(* step = -abs(step) / 2, after a failed check and after an exception. *)
BackOff == pace' = pace \div 2 /\ sense' = -1 /\ UNCHANGED <<current, sure>>

(* One round of the loop, with the convergence test at its end. *)
Refine ==
    /\ pc = "refine" /\ round < MaxRounds /\ ~BeyondTarget
    /\ round' = round + 1
    /\ \/ Holds(BoundKind, Candidate) /\ Accept
       \/ BackOff
    /\ Goto(IF 1000 * pace' < high - low THEN "certify" ELSE "refine")
    /\ UNCHANGED <<verdicts, reply, contest>>

StopRefining ==
    /\ pc = "refine" /\ (round = MaxRounds \/ BeyondTarget)
    /\ Goto("certify") /\ UNCHANGED locals

(* The certificate reads the provenance of the client, which may raise. *)
Certify ==
    /\ pc = "certify"
    /\ Return([NoResult EXCEPT !.kind = IF Least(call.op) THEN "min" ELSE "max", !.low = low,
                               !.high = high, !.value = current, !.point = point, !.by = by])
    /\ UNCHANGED locals

-----------------------------------------------------------------------------
(* diagnose_bound_failure and compute_lipschitz_bound *)

(* One percent beyond the enclosure, when the bound is positive. *)
SuggestUpper(hi) == (hi * 101) \div 100

(* The upper bound is looked at first; a diagnosis names a bound that would *)
(* do.                                                                      *)
Diagnose ==
    /\ pc = "diagnose"
    /\ \E e \in OfGreatest(call.box), g \in OfLeast(call.box) :
         Return(IF \E v \in call.upper : e.hi > v
                THEN [NoResult EXCEPT !.kind = "diagnosis", !.value = SuggestUpper(e.hi), !.high = e.hi]
                ELSE IF \E v \in call.lower : g.lo < v
                THEN [NoResult EXCEPT !.kind = "diagnosis", !.value = (g.lo * 99) \div 100,
                                      !.low = g.lo]
                ELSE [NoResult EXCEPT !.kind = "no_diagnosis"])
    /\ UNCHANGED locals

(* |f(c) - f(e)| <= L |c - e|, and no sharper constant is promised. *)
Slopes(box) == {L \in Numbers : 0 <= L /\ \A c, e \in box : Abs(f[c] - f[e]) <= L * Abs(c - e)}

Lipschitz ==
    /\ pc = "derive"
    /\ \E L \in Slopes(call.box) : Return([NoResult EXCEPT !.kind = "lipschitz", !.value = L])
    /\ UNCHANGED locals

-----------------------------------------------------------------------------
Executor(s) == StartFuture(s) \/ CallBridge(s) \/ EndFuture(s)

Operation ==
    \/ Reject \/ BridgeRaises
    \/ EvalInterval \/ FindMin \/ FindMax
    \/ CheckBound \/ Judge
    \/ Search \/ TestPoint \/ GiveUpSearch
    \/ Newton \/ FindRoots
    \/ (\E s \in Strategies : TakeFuture(s)) \/ TimeOut \/ AllFailed \/ Leave
    \/ Optimise \/ ExtractWitness \/ Refine \/ StopRefining \/ Certify
    \/ Diagnose \/ Lipschitz

-----------------------------------------------------------------------------
(* Properties *)

(* What Python makes of true answers is true.  Bounds put together from two *)
(* searches enclose f.  Verified: every requested bound holds on the whole  *)
(* box.  Rejected: f violates one at the point returned, which rounding may *)
(* have put beside the box, where nothing was claimed.  A root witness lies *)
(* where f has a zero, whichever of the two methods found it.  No diagnosis: *)
(* the bounds hold; a bound suggested on the side of zero where the one     *)
(* percent margin widens would succeed.                                     *)
AnswersTrue ==
    /\ result.kind \in {"enclosure", "bounds"} =>
         Holds("lower", result.low) /\ Holds("upper", result.high)
    /\ result.kind \in {"verified", "no_diagnosis"} =>
         \A d \in Directions : \A v \in Bound(d) : Holds(d, v)
    /\ result.kind = "rejected" =>
         \E d \in Directions : \E v \in Bound(d) :
           IF d = "lower" THEN f[result.point] < v ELSE f[result.point] > v
    /\ result.kind = "root" => HasZero(result.roots[1].seg)
    /\ result.kind = "diagnosis" /\ result.high > 0 => Holds("upper", result.value)
    /\ result.kind = "diagnosis" /\ result.low > 0 => Holds("lower", result.value)

(* Refinement never leaves the enclosure the Bridge proved: the value       *)
(* returned stays between the two ends, however successes and failures      *)
(* alternate.                                                               *)
RefinedInside ==
    result.kind \in {"min", "max"} => result.low <= result.value /\ result.value <= result.high

(* When the Bridge verified some candidate, the value returned is a bound   *)
(* of f on the box: no failed candidate and no later step replaces a        *)
(* verified value by one that was not verified.                             *)
RefinedChecked ==
    result.kind \in {"min", "max"} /\ sure => Holds(BoundKind, result.value)

(* The ten rounds of _refine_min_bound and _refine_max_bound improve a witness *)
(* and spoil neither its place in the enclosure nor what was verified of it. *)
Refined == RefinedInside /\ RefinedChecked

(* Once the race is over, be it by success, by failure of all or by the     *)
(* time limit, no strategy still uses the client; the strategy named in the *)
(* result is one whose run succeeded, and the fallback is used only after   *)
(* every strategy failed.                                                   *)
RaceIsOver ==
    /\ pc \notin {"race", "leave"} =>
         \A s \in Strategies : race[s] \notin {"pending", "started", "calling"}
    /\ result.kind \in {"min", "max"} /\ call.racing =>
         race[result.by] = "ok" \/ (result.by = "dyadic" /\ \A s \in Strategies : race[s] = "failed")
=============================================================================
