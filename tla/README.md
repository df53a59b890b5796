# LeanCert Python SDK: specifications, model checking and proofs

This directory specifies the parts of the LeanCert Python SDK (`leancert/`)
whose correctness depends on order or on case analysis that tests hardly
exhaust: the client that talks to a Bridge process over a pipe, the adaptive
verifier that splits a domain and checks its pieces on several threads, the
solver and the quantifier patterns built on it, the way from an expression to a
request, `prove` with its routes and its refutation search, the clients that
calls share without naming them, and the exporters and the verifier that meet
in the file system. TLA+ modules model the code, TLC checks small instances,
and TLAPS proves the central properties for every value of the constants.

## 1. Inventory

The SDK never proves anything itself. It sends exact rational requests to a
Lean program, the Bridge, and reports what the Bridge established. So its own
correctness is about transport, bookkeeping, and never saying more than was
checked.

| component | state | operations | hard behaviour | what makes it correct | modelled |
|---|---|---|---|---|---|
| `client.py` `LeanClient` | session, request id, handshake (`_bridge_info`, `_bridge_contract`, `_contract_checked`), `_io_lock` | `call`, `get_info`, `ping`, one method per operation, `close` | threads sharing a client, a process that dies or is retired, late and duplicated lines, steps after the unlock | own answers only; one process; contract current; nothing unadvertised or unshaken is sent; calls return; the default environment is resolved once | `Service`, `BridgeClient`, `Lifetime` |
| Bridge process (external) | requests it has read | one answer per request, in order | dies, repeats or garbles a line | | in `BridgeClient` |
| `adaptive.py` `CEGARVerifier` | subdomain tree, results, queue, futures, worker clients | `verify_upper_bound`, `verify_lower_bound`, sequential and parallel loop | results in any order, exceptions in threads and coordinator, limits, clean-up | verified means verified everywhere; nothing lost or counted twice; clients closed after their work; limits; ends | `Cegar`, `DomainCover` |
| `solver.py` `Solver` | lazy client, global solver | bounds, optima, roots, witnesses, strategy race | racing strategies on one locked client, timeouts, refinement that may worsen a bound | verdicts and enclosures are true; a checked value is not lost; no thread outlives a race; the request is the caller's expression | `Solver`, `Request`, `Lifetime` |
| `quantifier.py` | none | synthesis of witnesses, thresholds, deltas | searches whose rounds fail, raise or stop early | a claimed witness was checked | `Quantifier` |
| `proving.py`, `operations/` | process-wide default client | `prove`: normalize, plan, execute, split, refute | claims of many shapes over odd domains; partial contracts | established is true, rejected is false, the result is about the caller's claim and names what made it; one default client | `Proving`, `Lifetime` |
| `export.py` | staging directory | six exporters: render, stage, kernel check, rename | partial failure, kill, two exporters, order of writes, selection of certificates | a destination is complete or absent; what is published states the claim | `Rendering`, `Shelf`, `Artifact` |
| `verification.py`, `cli.py` | files of a project | discover, validate, kernel check, exit code | directories that appear, change or vanish while being looked at | exit code 0 only if everything found was accepted | `Artifact` |
| `ast/` | none | claims, domains, normalization | boundary cases | meaning preserved | what `prove` uses, in `Proving` |
| `protocol.py` | none | parsers of handshake, outcomes, payloads | agreement of typed and legacy fields | never accepts a contradictory response | no: pure parsing |
| `simplify.py`, `expr.py`, `domain.py` | none | build, simplify, evaluate and compile expressions; name the variables of a domain | rewriting that loses a value, a variable or a point where there is none | the request has the values of the caller's expression | `Request` |
| `rational.py` | none | conversion of numbers | rounding | | no: pure functions, but for `Rounded` of `Solver` |
| `nn.py`, `validation.py`, `enclosures.py` | none | numerical kernels, straight-line heuristics, profiles | rounding | | no |
| `result.py`, `config.py`, `exceptions.py`, `doctor.py` | records | | | | no: no behaviour, or output only |

Interaction: every operation ends in `LeanClient.call`. `CEGARVerifier` gives
each executor thread its own `LeanClient`; everything else shares one client
and relies on its lock. `prove` and the exporters read the negotiated contract
and provenance from the same client.

The hazards that these behaviours create are listed, with the source line
where each one bites and the properties that watch it, under `hazards` in
`PROJECT.json`.

## 2. Plan

In this order, most important behaviour first:

1. `BridgeClient`, with its runs and proofs, and the refinement of `Service`
   (abstract). *Done.*
2. `DomainCover` (abstract) and `Cegar` (detailed), refinement checked and
   proved, with all safety properties. *Done.*
3. `Solver` and, on top of it, `Quantifier`; one run; all invariants proved.
   *Done.*
4. `Rendering` and, on top of it, `Artifact`; two runs; all safety properties
   of the passing run proved, and the refinement of `Shelf` (abstract). *Done.*
5. `Proving`; one run; all invariants proved. *Done.*

6. `Lifetime`; one run; all invariants proved. *Done.*
7. `Request`, for TLC only, as it is recursive; one run. *Done.*

Left: replay of retained certificates; the parsers of `protocol.py`; the
profiles of registered enclosures.

## 3. Modules

### Service and BridgeClient

A *generation* numbers the processes a client has spawned; `session` is the
generation held (0: `_session is None`), `alive` the generations running.
`stdin` and `stdout` are the lines in the pipe of the held session. `contract`
is the generation that `_bridge_contract` describes, 0 for `None`, and `info`
the one that `_bridge_info` describes: under the lock the two are written
together, by `get_info` one after the other. Each thread has a `pc`; the steps
between `Enter` and the release of the lock are separate actions, because the
process answers, or dies, between them, and the steps after the release
(`Note`, `Install`, `Confirm`, `ParseDirectly`, `ParseByProperty`,
`AssertContract`) are the ones that other threads overtake.

| action | code in `client.py` |
|---|---|
| `Begin`, `Enter`, `Gate` | `call`: lock, decide on a handshake, compare with the contract |
| `Send`, `SpawnFails`, `EncodeFails` | `_ensure_session` and the first half of `_call_raw` |
| `TransportFails`, `ReceiveGarbage` | the paths through `_retire_session` |
| `ReceiveRejected`, `ReceiveIncompatible`, `ReceiveHandshake`, `Receive` | the second half of `_call_raw`, `_check_bridge_contract` |
| `Note`, `Install`, `Confirm` | the assignments of `get_info`, outside the lock |
| `ParseDirectly`, `ParseByProperty`, `AssertContract` | how methods read the contract after `call` returned |
| `Close` | `close` |
| `Answer`, `Die` | the Bridge (external) |

Methods are grouped by how they use the contract after the call:
`check_bound` and `check_strict_bound` read `_bridge_contract` directly,
`verify_adaptive` and the later operations use the property, the others do not
look. `Advertised` is what every process advertises. Parameters, payloads and
result values are left out.

`Service` is what the rest of the program takes a client for: a caller calls a
method; its call is answered in one step, at most once, by the process started
last and for that very method, or it returns without an answer; a process is
started only when none runs, and may stop at any time. `BridgeClient` implements
it (`ServiceSpec`): the calls under way are the threads that are not idle, the
answers are the outcomes that name a generation, the processes are `alive` and
`spawned`. One call of `Service` may be a dozen steps of the client: the wait
for the lock, a handshake, the request, the lines read back, a second `get_info`
for the contract. This is the promise on which `Cegar`, `Solver`, `Proving` and
`Lifetime` rest when a request is one step of theirs. It says nothing of the
contract under which an answer is read; `FirstTrusted` and `ContractIsCurrent`
do.

### DomainCover and Cegar

`DomainCover` is the promise of `AdaptiveResult`: pieces partition the domain,
a piece is proved only where the claim holds, a report is `verified` only when
all pieces are proved.

`Cegar` is `CEGARVerifier`. Coordinates are integers: a box maps variables to
intervals with integer ends, its points are its unit cells, and split points
are rounded to the grid. A bound "fails" in a set of cells, and a check may
verify a box only if no cell of it fails (`CheckOutcomes`, the Bridge): so
soundness depends on the bookkeeping, not on the oracle. A strategy is the set
of cuts it may choose: all points inside a variable for a worst point or a
critical point, midpoints otherwise; which one is chosen by the gradients, the
algebraic analysis or the score is left open. `Keep`, `Split` and
`AnalysisRaises` are `_process_subdomain` after the check; the parallel loop
has the same steps in `TakeBack`.

| action | code in `adaptive.py` |
|---|---|
| `Start` | `verify_bound_adaptive`, head of `_verify_bound`, which may reject its arguments |
| `CheckNext`, `SequentialEnds` | `_verify_sequential`, `_process_subdomain` |
| `Submit`, `Wait`, `WaitAgain`, `TakeBack`, `ParallelEnds` | `_verify_parallel` |
| `PoolStops` | leaving the executor's `with` block by an exception |
| `CloseClient`, `AllClosed` | the `finally` clause |
| `PickUp`, `NoClient`, `Check` | an executor thread in `worker_solver` and `verify_one` |
| `Conclude` | `_get_leaf_results` and the end of `_verify_bound` |

Abstractions: degenerate intervals (`lo = hi`) do not occur; clients that are
not `LeanClient` (fakes shared by all threads) are left out, as are progress
callbacks, timing, the text of the proof, and errors raised by
`client.close()`.

### Solver and Quantifier

The expression is a function `f` from the cells of the domain to numbers, and
the Bridge may answer anything that is true of it: any interval that contains
the values, any status that the values allow. A wrong result is therefore the
doing of the Python code. `Enter` is the entry of an operation, from a caller
of the solver (`Begin`) or from a pattern (`Synthesise`, `Propose`, `Try`);
`back` is where its caller goes on.

| action | code |
|---|---|
| `EvalInterval`, `FindMin`, `FindMax` | `eval_interval`, `find_bounds`: two requests, joined |
| `CheckBound`, `Judge` | `verify_bound`: one check per direction asked for, lower first, and the verdict over both |
| `Search`, `TestPoint`, `GiveUpSearch` | adaptive discovery: bounds, a candidate point in the box or, by rounding, beside it, its re-evaluation |
| `FindRoots`, `Newton` | `find_roots`, `synthesize_root_witness`, `find_unique_root` |
| `StartFuture`, `CallBridge`, `EndFuture` | a thread of the race's executor; the lock of the client lets one at a time call |
| `TakeFuture`, `TimeOut`, `AllFailed` | `as_completed` in the race, `cancel` of the others |
| `Leave`, `LeaveAndFallBack` | the end of the `with` block, which waits for the threads; the strategy used when all failed |
| `Optimise`, `ExtractWitness`, `Refine`, `StopRefining`, `Certify` | `synthesize_min_witness`, `synthesize_max_witness`, `_refine_min_bound`, `_refine_max_bound` |
| `Diagnose`, `Lipschitz` | `diagnose_bound_failure`, `compute_lipschitz_bound` |
| `Reject`, `BridgeRaises` | arguments refused, and an exception from any request |
| `Propose`, `Claimed` | `synthesize_exists_forall_bound`: bounds, margin, check |
| `JudgeSign`, `Optimum`, `Rooted` | `synthesize_forall_sign`, the two witness patterns, `synthesize_exists_root` |
| `BeginSearch`, `Try`, `Bisect`, `EndSearch` | the binary search for an asymptotic threshold |
| `Try`, `Shrink`, `Sloped` | the two ways to a delta: halving, or a Lipschitz constant |

Numbers are multiples of a unit that can be halved more often than any
refinement halves it, so every `//` of the model is exact where the code
computes with rationals or floats.

### Rendering, Shelf and Artifact

`Rendering` is the pure part of `export.py`: a result (verified bound,
conjunction or equality, system root, eventual bound, scalar root, integral)
is turned into the set of theorems that its Lean source states, or into none
when the exporter cannot render it. `Selections` matches certificates with
lowerings, `Composed` joins the children of a conjunction. `Claim` is what the
result claims, independently of the rendering.

`Shelf` is the promise of exporting: a client orders one project for a place;
it appears there whole, in one step, where nothing was, and stays; or the client
is told that it failed. There is no staging, and nothing else happens. In
`Artifact`, `Item`, `Order` and `Told` map destinations, requests and
outcomes to it; staging directories, program counters and the verifier are not
seen.

`Artifact` runs exporters and one `leancert verify` side by side. The file
system is `dirs`, from names (staging directories and destinations) to
projects; a project is the files written, the theorems of its source, its
provenance and its manifest. Digests are compared by comparing what they were
taken from.

| action | code |
|---|---|
| `ExportEventualBound`, `ExportConjunction`, the other kinds of `Calls` | the heads of the six `export_*` functions: what is unsupported, and the first look at the destination |
| `WriteFile`, `WriteManifest`, `WriteFails` | the files in their order, in the staging directory |
| `KernelCheck`, `Rewrite` | the rebuild in the managed environment; `provenance.json` written again |
| `Publish` | `os.rename`, which fails when the destination exists |
| `Cleanup` | the `finally` clause |
| `Killed` | a mortal exporter stops between any two steps |
| `Discover` | `discover_artifacts`: any directory with a manifest, staging directories too |
| `ReadManifest`, `ValidateFiles` | the checks of `validate_artifact`, with time between them |
| `OpenEnvironment`, `CheckSource`, `ExecutionFails` | the kernel check of one project |
| `Record`, `ExitCode`, `Finish` | the results, `--fail-fast` and the exit code of `cli.py` |

### Proving

A claim binds at most two variables over intervals and is one comparison, root,
eventual or integral statement, or a conjunction of them. `Truth` is its
meaning, from the values of its expressions at the points of its domain;
`Normal` is what normalization does with comparisons and constants,
`Lowered` the translation of a comparison to a bound.

| action | code |
|---|---|
| `Prove`, `DecideConstant` | normalization, and the logical constants |
| `ProveSystemRoot`, `ProveScalarRoot`, `ProveEventual`, `ProveIntegral` | the routes of these claims, each one request |
| `BeginBounds`, `CheckBound`, `Judge` | the plan for a bound: which operations it needs, the requests, the verdict; with the registered-enclosure plan when external functions occur |
| `NextPoint`, `Probe`, `Refute` | the refutation search over the grid of the domain |
| `Split`, `NextChild`, `Aggregate` | conjunctions and equalities; `frames` is the recursion |
| `Unplanned`, `BridgeRaises` | no plan, and an exception from any request |

The rewriting of expressions is left out (an expression *is* its values), as
are request fields, provenance records and replay of retained certificates.

### Lifetime

Clients that a caller never sees: the default client of `prove` with its lock,
the global solver and the solver's own client, which have none, the short-lived
client of an exporter; and one client that the caller keeps and passes to
several threads (number 1). Processes are numbered as in `BridgeClient`;
`routes` is what each was started from. A call of the Bridge is one step,
`Check`, whose inside is `BridgeClient`'s; `Shake` and `Describe` are the two
steps of `bridge_provenance`, and a process may die between any of them.

| action | code |
|---|---|
| `Begin` | a public function is called: `prove`, a convenience function of `solver.py`, `close`, an exporter, ... |
| `EnterDefault`, `NewDefault` | `_default_prove_client` |
| `TakeDefault`, `Close` | `close_default_prove_client`, `LeanClient.close` |
| `LookSolver`, `NewSolver`, `TakeSolver` | the reads and writes of `_get_solver` |
| `LookClient`, `NewClient`, `TakeClient` | those of `_ensure_client`; the exporter's client |
| `Shake`, `Describe` | `bridge_provenance`: handshake unless cached, then the fields of the client |
| `Check`, `SpawnFails`, `CallFails` | a checked request, with `_ensure_session` |
| `LookEnvironment`, `LockEnvironment`, `Resolve`, `ResolveFails` | the property `environment` |
| `Return` | the result is given to the caller |
| `Die`, `Finalize` | the process (external); `__del__` once nothing refers to the client |

`Reachable` stands for CPython's reference counts: a client is held by the
module, by the caller, by a frame of a thread or by a solver that one of these
holds. Left out: other runtimes than the default one (which resolve without
the lock), and registered enclosures.

### Request

What becomes of an expression before it is sent. `stack` holds the expressions
a caller has built and not used yet; `Write...` are Python's operators, in any
order, and `UseAgain` is a name used twice. `Request` is `_prepare_request`
with `_select_backend`, in the order of the code: simplify, name the variables,
validate, compile, and choose the backend by the caller's expression.
`ToPolynomial` to `FromPolynomial` and `SimplifyRecursive` are the two ways of
`simplify`; each `Simple...` operator is one branch of the recursion with the
order of its tests.

Rational numbers are the integers modulo a prime: rewriting uses nothing but
the laws of a field and comparisons with 0, 1 and -1, so a rewriting that is
wrong for rationals is wrong modulo all but finitely many primes, and points
can be enumerated. `log` is undefined at 0 and stands for every function whose
argument is simplified, `abs` for those that `simplify` and `_expr_equal` do
not know. The order of terms and factors is left open (`SetToSeq`), as nothing
depends on it; powers are not reduced modulo the prime.

## 4. Runs

| run | expectation | bounds | what it shows |
|---|---|---|---|
| `crash` | pass | 1 thread, 6 methods, all faults, 3 calls, 2 deaths, 1 repeated line | `ContractIsCurrent`, `OnlyAdvertised` |
| `threads` | pass, fair | 2 threads, 4 methods, all faults, 3 calls, 1 death, 1 repeated line | `TypeOK`, `OneProcess`, `ServiceSpec`, `FirstTrusted`, `CallsReturn` |
| `respawn` | violation of `ShakenFirst` | 1 thread, 2 calls, 1 death | a respawned process is not shaken |
| `getinfo` | violation of `OnlyAdvertised` | 2 threads, 3 calls, 1 death | `get_info` stores its contract outside the lock |
| `plane` | pass, fair | 4 x 2 grid, 2 threads, 2 splits, depth 2, 2 strategies, both loops | `TypeOK`, `Sound`, `CountedOnce`, `ClientsClosedInTime`, `WithinLimits`, `CoverSpec`, `Ends` |
| `both` | violation of `Sound` | 4-cell line, both bounds given | the lower bound is ignored |
| `synthesis` | pass, fair | 6 cells, 4 functions, 5 numbers, every operation and pattern | `TypeOK`, `AnswersTrue`, `Refined`, `RaceIsOver`, `PatternsTrue`, `Ends` |
| `artifact` | pass, fair | 2 exporters of which one mortal, 2 destinations of which one taken, 8 requests, 1 verifier | `TypeOK`, `AllOrNothing`, `ExitZero`, `PreparedValidates`, `ShelfSpec`, `CallsEnd` |
| `manifest` | violation of `ManifestBinds` | the same, with results of the package route | an exported project does not validate |
| `proving` | pass, fair | 3 coordinates on 2 axes, about 250 claims, 3 contracts | `TypeOK`, `ProvedTrue`, `RefutedFalse`, `AnswersTheClaim`, `Ends` |
| `lifetime` | pass, fair | 2 threads, 3 operations of 8 kinds, 1 death | `TypeOK`, `OneDefaultClient`, `RouteIsTrue`, `EnvironmentShared`, `AbandonedStops`, `OperationsEnd` |
| `request` | pass | 2 variables, constants 0 to 2, powers 0 to 2, 5 operators, 5 steps, 4 domains, field of 5 | `TypeOK`, `SameValue`, `Scaled` |

Seven of these properties are conjunctions of named parts, each with a comment
of its own in its module: `FirstTrusted` (`FirstShaken`, `FirstParsed`),
`CountedOnce` (`CheckedOnce`, `VolumesAddUp`), `ClientsClosedInTime`
(`ClientOutlivesWork`, `NoClientLeft`), `Refined` (`RefinedInside`,
`RefinedChecked`), `PatternsTrue` (`ForAllWitness`, `DeltaTruth`,
`ThresholdWindow`, `WitnessKept`), `AllOrNothing` (`AtomicPublication`,
`ReportedAsPublished`, `NoLitter`) and `EnvironmentShared` (`ResolvedOnce`,
`EnvironmentGiven`). Each part has a theorem, and the whole one that joins them.

Why the bounds are enough to be interesting. Three calls are the least that
let one thread shake hands, a second one overtake it and a third use what is
left; two deaths let a respawned process die again; one repeated line makes
every later answer foreign. Two splits let a batch hold two results of which
the first uses up the last split, and let the second split cut a part of the
first; with two threads every order of their results occurs. `worst_point`
includes cuts next to an end of the interval, which leave a part one cell
wide; `min_width` then stops that part. `min_volume` is 0, that is, `None`.

`synthesis`. The four functions change sign, touch zero, are constant, and have
a spike; six cells let a box, a root segment and a window beyond a threshold
differ. The refinement has its ten rounds, as in the code. The searches stop
after `MaxTries` = 6 rounds instead of 50 and 20: on six cells both come to an
end before, or would go on without change, and the sixth round shows what
running out does. Race and refinement are asked for in different calls, which
halves the states: they share nothing but the answer. `artifact`. Files are
two instead of seven or eight: the first written is the one that is written
again, the last is the one the manifest does not list. The requests are split
between the exporters so that every kind of result is exported and both race
for one destination; only one may be killed, as two dead processes show
nothing that one does not. Deadlock is not checked: every process may stop.
`proving`. Half units make every midpoint a point of the grid; an open, an
empty, an integer and an unknown domain are each combined with every body.
`MaxCandidates` is 4 instead of 27, less than the 9 points of a square, so the
search also stops early. Integer domains are closed; see section 6.
`lifetime`. Two threads are enough for every race the code has,
because each is for one variable that is read, then written. Three operations
let a client be used, taken and closed, and used again in between, or let one
thread resolve the environment while the other finds it resolved and a third
operation uses what is left; the death replaces a process under a result that
is being put together. `request`. Five steps are
two leaves and three operators, or one of them used twice: enough for each
branch of `simplify` to be followed by another one, and for both kinds of
domain to meet expressions with no, one and two variables, in both orders.
Negation, `log` and `abs` nest, and division meets every constant.

What the passing runs leave out on purpose. `ShakenFirst` fails once a process
was replaced (run `respawn`), and so does `ParsedByOwnContract`: a thread that
returns from `call` after a death or a `close` may find the contract of another
process, or none, and then the untyped parser is used. `FirstShaken` and
`FirstParsed` state both for as long as the first process of the client runs,
with every other thing that may happen; the run `threads` contains what happens
later, too, and shows that nothing else depends on it. With two threads and
`get_info`, `OnlyAdvertised` fails: that is run `getinfo`. Hence `crash` has
one thread, and the two theorems about the contract a hypothesis
(`Undisturbed`). `RouteIsTrue` is about clients whose environment nobody asked
for; of the others it is false (section 6).

Fairness. `BridgeClient`: a thread inside a call keeps running (the lock is
never held while waiting for anything but the process), and a live process
answers; one that does not is ended by the execution policy's time limit, as
`request_line` then raises. No thread has to begin a call. `Cegar`: the
coordinator and each executor thread keep running, and a check ends because a
Bridge call does. `WaitAgain`, the 0.1 s time-out of `concurrent.futures.wait`,
is a stutter. `Quantifier`: the caller's thread and each thread of the race's
executor keep running. `Artifact`: an exporter or verifier that was started
keeps running unless it is killed. `Proving`: the calling thread keeps
running. `Lifetime`: a thread inside an operation keeps running, and a client
that nothing refers to is finalized, which CPython does at once when it counts
references. In these four a request is one step, which ends because `call`
returns or raises (`CallsReturn`). Nobody has to call anything, and no
fairness is assumed for one outcome over another.

## 5. Proofs

All proofs hold for every value of the constants (sets of threads, methods and
faults, boxes, expressions, claims, results, bounds) within the named
assumptions of the modules: the types of the constants, and

- `CegarAssumption`: `MinWidth >= 2` grid units, so that a midpoint is inside
  its interval; real intervals always have one.
- `QuantifierAssumption`: epsilons are positive, as the code checks.
- `ArtifactAssumption`: `Faithful`, what the SDK retained with a result comes
  from the request that was proved (the certificates of a verified bound have
  the side, bound and expression of its lowerings); TLC evaluates it on the
  requests of the runs.

- `BridgeClientProofs!OneProcessAlways`: inductive as it stands.
- `BridgeClientProofs!TypeCorrect`: the type invariant, one group of variables
  at a time.
- `BridgeClientProofs!OwnAnswerAlways`: the invariant says that every line in
  the pipe with the current request id answers the method that is being sent;
  ids only grow, so older lines cannot match.
- `BridgeClientProofs!ImplementsService`: the refinement, for all threads,
  methods, faults and deaths. Whatever the action, the processes move as
  `Manage` lets them (`Manages`, from `OneProcess`); what is left is the effect
  on the one thread that moves: it begins a call (`BeginCalls`), is answered
  (`ReceiveAnswers`), raises (`RaiseReturns`), or goes on or ends with what it
  has (`GoesOn`). Three facts make `Receive` an answer: the line is of the
  method that was called (the invariant of `OwnAnswer`); the session it came
  from is the process started last (`SessionIsLast`, and
  `SilentWithoutSession`: without a session there is no line); and the call had
  no answer yet, because what a call asks after its answer is `get_info`
  (`Unanswered`).
- `BridgeClientProofs!NeverStuck`: while a call is under way, a thread or the
  process can step, the death of the process and the bounds not counted. It is
  the deadlock that the runs of this module look for, for any number of threads,
  and the safety half of `CallsReturn`. `StuckInv` adds four conjuncts to the
  invariant of `OwnAnswer`: the lock is held by a thread that is at a place that
  needs it; one that waits for a line has a request or a line in the pipe, or
  its process is gone; only a handshake is refused as incompatible; only results
  with a typed parser are parsed. `CanStep` and `CanAnswer` are the guards put
  together, since TLAPS does not reason about `ENABLED`: on the instances of
  `threads` and `crash` TLC finds `CanStep(t)` equal to `ENABLED Continue(t)`
  for every thread inside a call, and `CanAnswer` to `ENABLED Answer`.
- `BridgeClientProofs!ContractIsCurrentAlways`, `!OnlyAdvertisedAlways`: under
  `Undisturbed`, that is, either no method calls `get_info` outside the lock
  (`NoInfo`) or one thread makes all the calls, `get_info` included
  (`OneCaller`, as in the run `crash`). `TrustInv` ties the cached contract to
  the held session in every step under the lock; `Held` says that what a caller
  of `get_info` is about to write, after the lock, and what it has written, is
  still of the session it was read from. So `_bridge_info` is there whenever
  `call` names the Bridge version in a refusal. `WireAdvertised` then follows
  a request from the gate to the pipe.
- `BridgeClientProofs!FirstShakenAlways`, `!FirstParsedAlways`: for all threads,
  methods, faults and deaths. Neither is inductive. `FirstInv` says that as long
  as the client is `Young` (it has spawned nothing, or its first process runs)
  there is one session, and whatever is known of a contract is of that session
  (`World`), and what each thread knows at each place, the unlocked ones
  included (`Relies`). `YoungBefore` shows that a client that is young was
  always young, so a death or `close` ends what is claimed and never has to be
  reasoned about; `YoungKeeps`, that its session was not retired in between.
  So neither the late read of the contract nor a late `get_info` goes wrong.
- `CegarProofs!TypeCorrect`: the types; the lemmas `CutsInside`,
  `PartsAreBoxes` and `PartsPartition` show that the two parts of a box are
  proper boxes and hold its cells between them.
- `CegarSoundProofs!SoundForOneBound`: under `OneBoundOnly`. `Sound` alone is
  not inductive: a verdict is right only because every leaf of the tree has a
  result when the loops are over. `SoundInv` therefore says that ids are
  unique, that the leaves cover the root, that every leaf waits, is with a
  thread or has a result unless an exception is on its way, that a result or
  future marked verified holds on its box, and that the loops end without an
  exception only when the queue and the futures are empty. The lemma
  `LeavesAfterSplit` needs unique ids; `HandlePlaces` follows a subdomain from
  the queue, or from the executor, to its result or its parts.
- `CegarProofs!ClientOutlivesWorkAlways`, `!NoClientLeftAlways`: `PoolInv` ties
  the clients to the place of the coordinator: none is closed while a future
  may still be worked on, none is open once the `finally` clause is over.
  `!WithinLimitsAlways`: `LimitsInv`.
- `CegarSoundProofs!CheckedOnceAlways`, `!VolumesAddUpAlways`: `PartitionInv`
  adds that the queue has no repeats, that queue, futures and results hold
  different leaves (`Once`), that the boxes of leaves do not overlap and lie on
  the grid (`Boxes`), and that a call that ends with a result has one for every
  leaf (`Counted`).
- `CegarSoundProofs!ImplementsCover`: the refinement, from all of the above.
  A piece is the set of cells of a leaf; that leaves with the same cells are the
  same leaf needs disjoint and non-empty boxes. A split is `Refine`, a verified
  result is `Prove`, and a report is `Conclude` because every leaf has exactly
  one result by then; everything else, threads and time-outs, is a stutter.
- `DomainCoverProofs!AlwaysPartition`, `!CoverIsSound`: the abstract promise.

- `ProvingProofs`: `TypeCorrect`, `ProvedTrueAlways`, `AnswersTheClaimAlways`,
  and, under `AllClosed` (integer variables range over closed intervals),
  `RefutedFalseAlways`. `IInv` adds to the types: `Stack`, in every open
  conjunction that is still sound, the children that have a result are true,
  and the outermost claim means what the caller's means; `Answered`, at the end
  the result is of the claim that was under way last; `Planned`, the plan is
  that of the current claim, and what its checks verified holds on the box;
  `Searching`, the opposite bound that is about to be checked would refute the
  goal at a point of the grid. The lemmas before it show that turning,
  deciding, flattening, lowering and splitting keep the meaning of a claim.
- `ArtifactProofs`: the invariant is one part for the exporters (`Staged`: a
  staging directory holds just what its exporter has written so far; `Left`:
  what is at a destination is complete and made from its request; `Reported`)
  and one for the verifier (`Settled`: the name of a project that was
  discovered stands for that project or for nothing from then on; `Accepted`: a
  status "verified" is of a source that the kernel accepts, whatever happened
  to the directory since). `ClaimStated` is the lemma about rendering: a
  rendered source states every comparison of the claim.
- `ArtifactProofs!ImplementsShelf`: the refinement, from the exporters' part of
  that invariant. The lemma `ExporterSteps` says that a step is a publication or
  leaves all destinations alone (`Ordinary`); that a call has one request and one
  outcome (`Once`) makes an ordinary step an order, a failure or a stutter; and
  a publication is a delivery because what is in the staging directory is by
  then complete, made from the request, and accepted if it had to be.
  `NeverOverwrittenAlways` states for the file system itself, with every file
  that a delivery abstracts from, that no destination is replaced or changed.
- `SolverProofs`: `SolverInv` (types; `Flow`, what each program counter knows;
  `Racing`, the states of the three futures; `Partial` and `Truth`, what has
  been answered so far is true of `f`; `Margin`, the value that is being
  refined is two paces or more away from both ends of the proven interval) and
  `PatternInv`, in which `Purpose` ties a pattern that waits to the operation
  it asked for. `RefinedInside` needs `Margin`: the pace is halved when the
  direction turns, so a move of one pace leaves room for the next.

- `LifetimeProofs`: `LifeInv` adds to the types `PlaceOf`, the operations that
  can be at each place of a thread, and `FrameOf`, the client, the solver and the
  requests left that its frame holds there. `DefaultInv`: a default client is
  made by the owner of the lock while there is none. `CacheInv`: the environment
  is resolved by the owner of its lock while nothing is cached.
  `RouteIsTrueAlways` needs no hypothesis: `RouteInv` says of every client
  without an environment that all processes it holds were started from its
  program, which is then set (`ClientRoutes`), and of every thread whose client
  has none, that all processes which answered it were, and that what it was told
  says so (`ThreadRoutes`). `CacheInv` is part of the step: an environment, once
  there, is not taken away, because a client is given 0 only while nothing is
  cached.

TLC finds the inductive invariants true on the instances of the runs as well.

Only model-checked: `CallsReturn`, `CallsEnd`, `OperationsEnd`,
`AbandonedStops` and the three `Ends`; liveness and `ENABLED` are outside what
TLAPS proves (of `CallsReturn`, that nobody is stuck is `NeverStuck`).
Every invariant and all three refinements that the passing runs
check, except those of `request`, are also theorems, four of them under a
hypothesis on the instance: `Undisturbed` for `ContractIsCurrent` and
`OnlyAdvertised`, `OneBoundOnly` for `Sound` and `AllClosed` for
`RefutedFalse`; the violation runs `getinfo` and `both`, and section 6, show
that the hypotheses are needed. What `Request` computes for every expression is
an induction over data, and its operators are recursive.

## 6. Where the code and its documentation disagree

The four violation runs, quoted under `findings` in `PROJECT.json`:

1. `respawn`: `call` decides on the handshake before `_ensure_session` respawns.
2. `getinfo`: `get_info` writes the contract after the lock was released.
3. `both`: `verify_bound_adaptive` drops the lower bound when both are given.
4. `manifest`: the exporter writes `provenance.json` again after the manifest
   holds its digest.

Met while modelling, without a run of their own; the models follow the code:

- A thread in `get_info` writes `_bridge_info`, another one retires the session
  and clears it, and the first one then writes `_bridge_contract`: the next
  unadvertised call is refused with `AttributeError` instead of `BridgeError`
  (`client.py:559,578-579`). Hence `Undisturbed` in `ContractIsCurrentAlways`.
- A foreign id or a malformed envelope does not retire the session
  (`client.py:513-543`, unlike the paths through `_retire_session`); the process
  stays in use, one answer behind, and every later call raises.
- `execute_bound_plan` describes the client before it sends the check
  (`operations/bounds.py:420-421`). If the process dies in between, the result
  names the `execution_id` of the dead one (`result.py:95`).
- `_program` stays set when a client goes over to its environment
  (`operations/bounds.py:207,232`): the results of the environment's processes
  say that the program made them (`README.md:38-39`).
- `simplify` gives values to points that had none: `x/x` becomes 1
  (`simplify.py:150-152`; its docstring says "mathematically equivalent").
  `SameValue` states what does hold.
- The backend is chosen by the caller's expression, not by the one that is sent
  (`solver.py:340-344`): `(x+y)**2` is expanded, repeats both variables, and goes
  to `DYADIC`.
- The domain is validated against the simplified expression (`solver.py:269`):
  `x - x` is accepted over a box without `x`.
- Normalization decides a claim `n < n` to be false without asking whether its
  domain is empty of integers: for an integer in the open interval (0, 1) the
  claim is true and is reported false (`docs/prove.md:137-138`). Hence the
  hypothesis of `RefutedFalseAlways`.
- A conjunction with an integral among its members is unsupported as a whole,
  although `docs/prove.md:72` has conjunctions split.
- The refutation of a strict bound probes with `check_bound` and raises when
  only `check_strict_bound` is advertised.
- The first midpoint of a witness is returned as its value although it is no
  proven bound; `tests/test_witness.py:130` and `result.py:1437` read as if it
  were. `RefinedInside` states what does hold.
- `exists_root` succeeds on the first segment that `find_roots` lists, whatever
  its status (`quantifier.py:654-677`). `possible` is not a proof and `no_root`
  is one of the opposite (`solver.py:794-802`), but the result says "Found root"
  and carries a Lean proof of existence. `Rooted` follows the code, and
  `PatternsTrue` makes no statement about this pattern.
- Adaptive discovery takes the ends of the box through `float()` and
  `to_fraction`, whose denominators end at 10^12 (`solver.py:73-74,146`), and
  does not test whether the point it gets lies in the box: `Rejected`, "proves
  that a requested bound is false" (`result.py:399`), may name a point beside a
  box on which the bound holds. `Search` lets the candidate lie in a
  neighbouring cell (`Rounded`); `AnswersTrue` says that the bound fails at the
  point, not that the point is in the box. TLC, asked for either claim in
  the instance of `synthesis` (with a function that is 1 on a box and 2 beside
  it for the second one), finds it violated.
- The Lipschitz path to a delta ignores the limit the caller named, and a
  delta found is not necessarily positive. `DeltaTruth` states what each path
  shows.
- The bound suggested by a diagnosis is 1.01 times the value, which is on the
  wrong side when the value is negative.
- A race that times out raises `TimeoutError`; the configuration
  (`config.py:105-111`) describes a fallback.
- An asymptotic threshold N is verified on [N, 1.5 N] only.
- In `leancert verify`, a file that becomes unreadable after validation raises
  through the loop: the reports on the other projects are lost (exit code 2).
- The global solver and its client are created without a lock: two threads may
  create two, and no function closes the loser; its process lives until the
  finalizer (`AbandonedStops`). Nor does a function close the winner.
- A thread that obtained the default client of `prove` before another one
  closed it spawns its process again, which lives until the finalizer.
- `_expr_equal` does not know `Abs`, `Min` and `Max`: `abs(x) - abs(x)` is not
  cancelled, and a division within them is not scaled.
- A killed exporter leaves a staging directory that `leancert verify <parent>`
  discovers as a project.

## 7. Running

    tlc -config MCBridgeClient_threads.cfg MCBridgeClient
    tlc -config MCCegar_plane.cfg MCCegar
    tlc -config MCQuantifier_synthesis.cfg MCQuantifier
    tlc -config MCArtifact_artifact.cfg MCArtifact
    tlc -config MCProving_proving.cfg MCProving
    tlc -config MCLifetime_lifetime.cfg MCLifetime
    tlc -config MCRequest_request.cfg MCRequest
    tlapm SolverProofs.tla

The largest runs are `threads` (about 655 000 states), `lifetime` (263 000),
`synthesis` (262 000), `request` (215 000) and `artifact` (148 000); each takes
about two minutes on two cores.
`SolverProofs` takes about two minutes, the other proof modules less.

## 8. Not modelled

- Parsers of `protocol.py`, `result.py`, `config.py`, `exceptions.py`: records
  and checks of one record without state; what is accepted appears as the
  outcomes of actions.
- `rational.py`, `nn.py`: functions on numbers; floating-point kernels are out
  of TLC's reach. Of rounding, only what it does to a candidate counterexample
  is modelled (`Rounded` of `Solver`).
- Of `expr.py` and `simplify.py`: evaluation in batches, `Min` and `Max`, the
  entry points for users (`expand` and the like), floating-point rounding.
- `validation.py`, `enclosures.py`, `doctor.py`: straight-line code, parsing,
  output.
- Of modelled components: certificate replay, the enclosure handle,
  `forward_interval`, `integrate`,
  `verify_nn_bounds`, progress callbacks, the text of Lean sources and proofs.
