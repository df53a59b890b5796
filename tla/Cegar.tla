-------------------------------- MODULE Cegar --------------------------------
(***************************************************************************)
(* CEGARVerifier of leancert/adaptive.py: a bound is checked on a box; a    *)
(* box on which it cannot be checked is split in two, until the limits of   *)
(* AdaptiveConfig stop the splitting.  The sequential loop checks one       *)
(* subdomain after the other; the parallel loop hands them to the threads   *)
(* of an executor, each with a Bridge client of its own, and one            *)
(* coordinator (the calling thread) takes the results back, splits, and     *)
(* closes the clients.                                                      *)
(*                                                                          *)
(* Coordinates are grid units: a box is a function from variables to        *)
(* intervals with integer ends, split points are rounded to the grid, and   *)
(* the points of a box are its unit cells.                                  *)
(***************************************************************************)
EXTENDS Integers, Sequences, FiniteSets

CONSTANTS
    Vars,         \* variables of the box
    FirstVar,     \* the first of them in var_order()
    Grid,         \* coordinates of cells
    Root,         \* the domain, a box
    Wrong,        \* direction -> the cells where that bound fails
    Requests,     \* sets of directions a caller may give bounds for
    Strategies,   \* splitting strategies to consider
    Modes,        \* subset of {"parallel", "sequential"}
    Workers,      \* executor threads: max_workers of them
    NoWorker,     \* a future nobody has started
    MaxSplits,    \* max_splits
    MaxDepth,     \* max_depth
    MinWidth,     \* min_width, in grid units
    MinVolume     \* min_volume, in cells (0: None)

Directions    == {"upper", "lower"}
AllStrategies == {"bisect", "worst_point", "gradient_guided", "largest_first", "auto", "algebraic"}
Interval      == {i \in [lo : Int, hi : Int] : i.lo < i.hi}
Box           == [Vars -> Interval]

ASSUME CegarAssumption ==
    /\ FirstVar \in Vars /\ IsFiniteSet(Vars)
    /\ Grid \subseteq Int
    /\ Root \in Box
    /\ \A v \in Vars : Root[v].lo .. (Root[v].hi - 1) \subseteq Grid
    /\ Wrong \in [Directions -> SUBSET [Vars -> Grid]]
    /\ Requests \subseteq SUBSET Directions
    /\ Strategies \subseteq AllStrategies
    /\ Modes \subseteq {"parallel", "sequential"}
    /\ NoWorker \notin Workers /\ IsFiniteSet(Workers) /\ Workers # {}
    /\ MaxSplits \in Nat /\ MaxDepth \in Nat
    /\ MinWidth \in Nat /\ MinWidth >= 2 /\ MinVolume \in Nat

VARIABLES
    asked,        \* the directions the caller gave a bound for
    strategy,     \* AdaptiveConfig.strategy
    subdomains,   \* _subdomains
    results,      \* _results
    splits,       \* _total_splits
    lastId,       \* _subdomain_id
    pending,      \* queue / pending: subdomains still to be checked
    futures,      \* futures: subdomains given to the executor, with their state
    batch,        \* done: the finished futures the coordinator is taking back
    client,       \* worker_local and worker_clients: the client of each thread
    status,       \* where the coordinator is
    error,        \* an exception is on its way out of the coordinator
    verdict       \* what the caller got

tree    == <<subdomains, splits, lastId>>
request == <<asked, strategy>>
pool    == <<futures, batch, client>>
vars    == <<request, tree, results, pending, pool, status, error, verdict>>

(* Outcome of a check: verified, failed without a diagnosis, failed with    *)
(* one, or an exception that left _verify_subdomain.                        *)
Outcomes == {"verified", "failed", "diagnosed", "raised"}
Statuses == {"start", "parallel", "sequential", "failing", "closing", "finishing", "done"}

Subdomain == [id : Nat, parent : Int, box : Box, depth : Nat]
Result    == [sub : Subdomain, verified : BOOLEAN]
Future    == [sub : Subdomain, by : Workers \cup {NoWorker}, out : Outcomes \cup {"none"}]

TypeOK ==
    /\ asked \in SUBSET Directions /\ strategy \in AllStrategies
    /\ subdomains \subseteq Subdomain /\ results \subseteq Result
    /\ splits \in Nat /\ lastId \in Nat
    /\ pending \in Seq(Subdomain)
    /\ futures \subseteq Future /\ batch \subseteq futures
    /\ client \in [Workers -> {"none", "open", "closed"}]
    /\ status \in Statuses /\ error \in BOOLEAN
    /\ verdict \in {"open", "verified", "unverified", "raised"}

RootSubdomain == [id |-> 0, parent |-> -1, box |-> Root, depth |-> 0]

Init ==
    /\ asked \in Requests /\ strategy \in Strategies
    /\ subdomains = {RootSubdomain} /\ results = {}
    /\ splits = 0 /\ lastId = 0
    /\ pending = <<RootSubdomain>>
    /\ futures = {} /\ batch = {}
    /\ client = [w \in Workers |-> "none"]
    /\ status = "start" /\ error = FALSE /\ verdict = "open"

-----------------------------------------------------------------------------
(* Boxes *)

Width(i) == i.hi - i.lo
Mid(i)   == (i.lo + i.hi) \div 2
Cells(b) == {c \in [Vars -> Grid] : \A v \in Vars : b[v].lo <= c[v] /\ c[v] < b[v].hi}
Volume(b) == Cardinality(Cells(b))
Widest(b) == {v \in Vars : \A u \in Vars : Width(b[u]) <= Width(b[v])}

(* Where split_box may cut: at the middle of some variable, or at a point   *)
(* inside it (a worst point or a critical point, clamped away from the      *)
(* ends).                                                                   *)
AtMid(b, vs) == {[var |-> v, point |-> Mid(b[v])] : v \in vs}
AtPoint(b)   == UNION {{[var |-> v, point |-> p] : p \in (b[v].lo + 1) .. (b[v].hi - 1)} : v \in Vars}

Cuts(b, out) ==
    CASE strategy = "bisect" -> AtMid(b, {FirstVar})
      [] strategy = "largest_first" -> AtMid(b, Widest(b))
      [] strategy = "gradient_guided" -> AtMid(b, Vars)
      [] strategy = "worst_point" ->
           IF out = "diagnosed" THEN AtPoint(b) \cup AtMid(b, {FirstVar})
                                ELSE AtMid(b, Widest(b))
      [] strategy = "algebraic" -> AtPoint(b) \cup AtMid(b, Widest(b))
      [] strategy = "auto" -> AtPoint(b) \cup AtMid(b, Vars)

(* Mutant of LowerPart: the two parts overlap in one cell. *)
LowerPartWide(b, cut) == [b EXCEPT ![cut.var] = [lo |-> b[cut.var].lo, hi |-> cut.point + 1]]

LowerPart(b, cut) == [b EXCEPT ![cut.var] = [lo |-> b[cut.var].lo, hi |-> cut.point]]

(* Mutant of UpperPart: the cell at the split point is in neither part. *)
UpperPartShort(b, cut) ==
    [b EXCEPT ![cut.var] = [lo |-> IF cut.point + 1 < b[cut.var].hi THEN cut.point + 1 ELSE cut.point,
                            hi |-> b[cut.var].hi]]

UpperPart(b, cut) == [b EXCEPT ![cut.var] = [lo |-> cut.point, hi |-> b[cut.var].hi]]

(* Mutant of ShouldSplit: each limit may be exceeded by one. *)
ShouldSplitOnceMore(s) ==
    /\ s.depth <= MaxDepth
    /\ splits <= MaxSplits
    /\ \A v \in Vars : Width(s.box[v]) >= MinWidth
    /\ Volume(s.box) >= MinVolume

(* Mutant of ShouldSplit: min_width is not looked at. *)
ShouldSplitAnyWidth(s) ==
    /\ s.depth < MaxDepth
    /\ splits < MaxSplits
    /\ Volume(s.box) >= MinVolume

(* should_continue_splitting *)
ShouldSplit(s) ==
    /\ s.depth < MaxDepth
    /\ splits < MaxSplits
    /\ \A v \in Vars : Width(s.box[v]) >= MinWidth
    /\ Volume(s.box) >= MinVolume

(* The one bound that verify_bound_adaptive passes on. *)
Direction == IF "upper" \in asked THEN "upper" ELSE "lower"

(* What checking a box may come to.  The Bridge (external) verifies nothing *)
(* that is wrong, and may fail to verify what is right.                     *)
CheckOutcomes(b) ==
    {"failed", "diagnosed", "raised"}
      \cup IF Cells(b) \cap Wrong[Direction] = {} THEN {"verified"} ELSE {}

Leaves == {s \in subdomains : \A u \in subdomains : u.parent # s.id}

-----------------------------------------------------------------------------
(* Taking a result back: _process_subdomain, and the body of the parallel   *)
(* loop.  rest is the queue that the new subdomains are appended to.        *)

Decided(s, out) == out = "verified" \/ ~ShouldSplit(s)

Keep(s, out, rest) ==
    /\ Decided(s, out)
    /\ results' = results \cup {[sub |-> s, verified |-> out = "verified"]}
    /\ pending' = rest
    /\ UNCHANGED tree

Split(s, out, rest) ==
    /\ ~Decided(s, out)
    /\ \E cut \in Cuts(s.box, out) :
         LET left  == [id |-> lastId + 1, parent |-> s.id, depth |-> s.depth + 1,
                       box |-> LowerPart(s.box, cut)]
             right == [id |-> lastId + 2, parent |-> s.id, depth |-> s.depth + 1,
                       box |-> UpperPart(s.box, cut)]
         IN  /\ subdomains' = subdomains \cup {left, right}
             /\ pending' = rest \o <<left, right>>
    /\ splits' = splits + 1 /\ lastId' = lastId + 2
    /\ UNCHANGED results

(* The gradients, the algebraic analysis or split_box raise; the failed     *)
(* result has been recorded.                                                *)
AnalysisRaises(s, out, rest) ==
    /\ ~Decided(s, out)
    /\ results' = results \cup {[sub |-> s, verified |-> FALSE]}
    /\ pending' = rest
    /\ UNCHANGED tree

-----------------------------------------------------------------------------
(* verify_bound_adaptive and _verify_bound: at least one bound is required,  *)
(* and the domain or the client may be rejected before the loop starts.      *)
Start ==
    /\ status = "start"
    /\ \/ asked # {} /\ status' \in Modes /\ UNCHANGED verdict
       \/ status' = "done" /\ verdict' = "raised"
    /\ UNCHANGED <<request, tree, results, pending, pool, error>>

(* One turn of _verify_sequential. *)
CheckNext ==
    /\ status = "sequential" /\ pending # <<>>
    /\ \E out \in CheckOutcomes(Head(pending).box) :
         LET s == Head(pending)
             rest == Tail(pending)
         IN  \/ /\ out # "raised" /\ (Keep(s, out, rest) \/ Split(s, out, rest))
                /\ UNCHANGED <<status, error>>
             \/ /\ out # "raised" /\ AnalysisRaises(s, out, rest)
                /\ status' = "finishing" /\ error' = TRUE
             \/ /\ out = "raised"
                /\ pending' = rest /\ status' = "finishing" /\ error' = TRUE
                /\ UNCHANGED <<tree, results>>
    /\ UNCHANGED <<request, pool, verdict>>

SequentialEnds ==
    /\ status = "sequential" /\ pending = <<>>
    /\ status' = "finishing"
    /\ UNCHANGED <<request, tree, results, pending, pool, error, verdict>>

(* Mutant of Submit: the subdomain stays in pending. *)
SubmitAgain ==
    /\ status = "parallel" /\ batch = {}
    /\ pending # <<>> /\ Cardinality(futures) < Cardinality(Workers)
    /\ futures' = futures \cup {[sub |-> Head(pending), by |-> NoWorker, out |-> "none"]}
    /\ pending' = IF Len(pending) > 1 THEN Tail(pending) ELSE pending
    /\ UNCHANGED <<request, tree, results, batch, client, status, error, verdict>>

(* _verify_parallel submits while there is room in futures ... *)
Submit ==
    /\ status = "parallel" /\ batch = {}
    /\ pending # <<>> /\ Cardinality(futures) < Cardinality(Workers)
    /\ futures' = futures \cup {[sub |-> Head(pending), by |-> NoWorker, out |-> "none"]}
    /\ pending' = Tail(pending)
    /\ UNCHANGED <<request, tree, results, batch, client, status, error, verdict>>

Finished == {f \in futures : f.out # "none"}

(* ... waits until some future is finished, and takes back all that are. *)
Wait ==
    /\ status = "parallel" /\ batch = {}
    /\ pending = <<>> \/ Cardinality(futures) >= Cardinality(Workers)
    /\ Finished # {}
    /\ batch' = Finished
    /\ UNCHANGED <<request, tree, results, pending, futures, client, status, error, verdict>>

(* The wait ends after 0.1 seconds with nothing finished, and starts over.  *)
WaitAgain ==
    /\ status = "parallel" /\ batch = {} /\ futures # {} /\ Finished = {}
    /\ UNCHANGED vars

(* Mutant of TakeBack: a check that raised is tried again. *)
TakeBackOrRetry(f) ==
    /\ status = "parallel" /\ f \in batch
    /\ futures' = futures \ {f} /\ batch' = batch \ {f}
    /\ IF f.out = "raised"
         THEN pending' = Append(pending, f.sub) /\ UNCHANGED <<tree, results>>
         ELSE Keep(f.sub, f.out, pending) \/ Split(f.sub, f.out, pending)
    /\ UNCHANGED <<request, client, status, error, verdict>>

(* One finished future, in any order.  An exception that left               *)
(* _verify_subdomain counts as a failure without a diagnosis.               *)
TakeBack(f) ==
    /\ status = "parallel" /\ f \in batch
    /\ futures' = futures \ {f} /\ batch' = batch \ {f}
    /\ LET out == IF f.out = "raised" THEN "failed" ELSE f.out
       IN  \/ /\ Keep(f.sub, out, pending) \/ Split(f.sub, out, pending)
              /\ UNCHANGED <<status, error>>
           \/ /\ AnalysisRaises(f.sub, out, pending)
              /\ status' = "failing" /\ error' = TRUE
    /\ UNCHANGED <<request, client, verdict>>

(* Mutant of ParallelEnds: `while pending` in place of `while pending or futures`. *)
ParallelEndsEarly ==
    /\ status = "parallel" /\ batch = {} /\ pending = <<>>
    /\ \A f \in futures : f.out # "none"
    /\ status' = "closing"
    /\ UNCHANGED <<request, tree, results, pending, pool, error, verdict>>

ParallelEnds ==
    /\ status = "parallel" /\ batch = {} /\ pending = <<>> /\ futures = {}
    /\ status' = "closing"
    /\ UNCHANGED <<request, tree, results, pending, pool, error, verdict>>

(* Mutant of PoolStops: the clients are closed without waiting. *)
PoolStopsAtOnce ==
    /\ status = "failing"
    /\ status' = "closing"
    /\ UNCHANGED <<request, tree, results, pending, pool, error, verdict>>

(* An exception leaves the `with` block of the executor once every future   *)
(* that was submitted is finished.                                          *)
PoolStops ==
    /\ status = "failing" /\ Finished = futures
    /\ status' = "closing"
    /\ UNCHANGED <<request, tree, results, pending, pool, error, verdict>>

(* The `finally` clause: the clients are closed one after the other. *)
CloseClient(w) ==
    /\ status = "closing" /\ client[w] = "open"
    /\ client' = [client EXCEPT ![w] = "closed"]
    /\ UNCHANGED <<request, tree, results, pending, futures, batch, status, error, verdict>>

(* Mutant of AllClosed: no `finally`, so an exception leaves them open. *)
AllClosedUnlessError ==
    /\ status = "closing" /\ (error \/ \A w \in Workers : client[w] # "open")
    /\ status' = "finishing"
    /\ UNCHANGED <<request, tree, results, pending, pool, error, verdict>>

AllClosed ==
    /\ status = "closing" /\ \A w \in Workers : client[w] # "open"
    /\ status' = "finishing"
    /\ UNCHANGED <<request, tree, results, pending, pool, error, verdict>>

LeafResults == {r \in results : r.sub \in Leaves}

(* The end of _verify_bound.  Reading lean_version for the record may raise *)
(* (get_info on the caller's own client), and then there is no result.      *)
Conclude ==
    /\ status = "finishing"
    /\ status' = "done"
    /\ \/ verdict' = "raised"
       \/ /\ ~error
          /\ verdict' = IF \A r \in LeafResults : r.verified THEN "verified" ELSE "unverified"
    /\ UNCHANGED <<request, tree, results, pending, pool, error>>

Done == status = "done" /\ UNCHANGED vars

-----------------------------------------------------------------------------
(* The executor's threads *)

Idle(w) == \A f \in futures : f.by = w => f.out # "none"

(* worker_solver: a thread that starts on a future makes itself a client    *)
(* the first time.                                                          *)
PickUp(w) ==
    /\ Idle(w)
    /\ \E f \in futures :
         /\ f.by = NoWorker /\ f.out = "none"
         /\ futures' = (futures \ {f}) \cup {[sub |-> f.sub, by |-> w, out |-> "none"]}
    /\ client' = IF client[w] = "none" THEN [client EXCEPT ![w] = "open"] ELSE client
    /\ UNCHANGED <<request, tree, results, pending, batch, status, error, verdict>>

(* ... or fails to: the future ends with the exception. *)
NoClient(w) ==
    /\ Idle(w) /\ client[w] = "none"
    /\ \E f \in futures :
         /\ f.by = NoWorker /\ f.out = "none"
         /\ futures' = (futures \ {f}) \cup {[sub |-> f.sub, by |-> w, out |-> "raised"]}
    /\ UNCHANGED <<request, tree, results, pending, batch, client, status, error, verdict>>

(* verify_one ends with one of the outcomes of _verify_subdomain. *)
Check(w) ==
    /\ \E f \in futures :
         /\ f.by = w /\ f.out = "none"
         /\ \E out \in CheckOutcomes(f.sub.box) :
              futures' = (futures \ {f}) \cup {[sub |-> f.sub, by |-> w, out |-> out]}
    /\ UNCHANGED <<request, tree, results, pending, batch, client, status, error, verdict>>

Coordinator ==
    \/ Start \/ CheckNext \/ SequentialEnds
    \/ Submit \/ Wait \/ ParallelEnds \/ PoolStops \/ AllClosed \/ Conclude
    \/ \E f \in batch : TakeBack(f)
    \/ \E w \in Workers : CloseClient(w)

Worker(w) == PickUp(w) \/ NoClient(w) \/ Check(w)

Next == Coordinator \/ WaitAgain \/ (\E w \in Workers : Worker(w)) \/ Done

Spec == Init /\ [][Next]_vars

(* The coordinator and the executor's threads keep running, and every check *)
(* ends: a Bridge call returns or is ended by the execution policy.         *)
FairSpec == Spec /\ WF_vars(Coordinator) /\ \A w \in Workers : WF_vars(Worker(w))

-----------------------------------------------------------------------------
(* A bound reported verified holds on every cell of the domain, for every    *)
(* bound the caller gave: verify_bound_adaptive, AdaptiveResult.verified.    *)
Sound ==
    verdict = "verified" => \A d \in asked : Cells(Root) \cap Wrong[d] = {}

(* verified_volume and unverified_volume of a result add up to the domain:   *)
(* no leaf is lost or counted twice, in whatever order results come back.    *)
VolumesAddUp ==
    verdict \in {"verified", "unverified"} =>
        Cardinality(UNION {Cells(r.sub.box) : r \in LeafResults}) = Volume(Root)
        /\ \A q, r \in LeafResults : q # r => Cells(q.sub.box) \cap Cells(r.sub.box) = {}

Waiting == {pending[i] : i \in DOMAIN pending}
Given   == {f.sub : f \in futures}
Taken   == {r.sub : r \in results}

(* A subdomain is checked once: it waits, or it is with the executor, or its *)
(* result is in, or it was split.                                            *)
CheckedOnce ==
    /\ Len(pending) = Cardinality(Waiting)
    /\ Cardinality(futures) = Cardinality(Given) /\ Cardinality(results) = Cardinality(Taken)
    /\ Waiting \cup Given \cup Taken \subseteq Leaves
    /\ Waiting \cap Given = {} /\ Waiting \cap Taken = {} /\ Given \cap Taken = {}

(* A thread never works with a client that has been closed: the executor is  *)
(* shut down before worker_clients are closed.                               *)
ClientOutlivesWork ==
    \A f \in futures : f.by # NoWorker /\ f.out = "none" => client[f.by] = "open"

(* No Bridge client of a worker is left open when the call ends, by a result *)
(* or by an exception: the `finally` of _verify_parallel.                    *)
NoClientLeft == verdict # "open" => \A w \in Workers : client[w] # "open"

(* The clients of the executor's threads live exactly as long as their work, *)
(* on the way out by an exception too.                                       *)
ClientsClosedInTime == ClientOutlivesWork /\ NoClientLeft

(* No subdomain is lost or counted twice, on its way or in the result.       *)
CountedOnce == CheckedOnce /\ VolumesAddUp

(* The limits hold although results come back in any order: max_splits,      *)
(* max_depth, and no more futures than threads.                              *)
WithinLimits ==
    /\ splits <= MaxSplits
    /\ \A s \in subdomains : s.depth <= MaxDepth
    /\ Cardinality(futures) <= Cardinality(Workers)

(* The call ends. *)
Ends == <>(status = "done")

(* What the caller sees is an abstract cover of the domain that is refined   *)
(* and checked piece by piece.                                               *)
Cover == INSTANCE DomainCover WITH
    Points  <- Cells(Root),
    wrong   <- Cells(Root) \cap Wrong[Direction],
    pieces  <- {Cells(s.box) : s \in Leaves},
    proved  <- {Cells(r.sub.box) : r \in {q \in results : q.verified}}

CoverSpec == Cover!Spec
=============================================================================
