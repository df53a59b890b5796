------------------------------ MODULE Lifetime ------------------------------
(***************************************************************************)
(* Who holds a LeanClient, and what a result says of the process that made  *)
(* it: the default client of prove (proving.py), the global solver and its  *)
(* client (solver.py), a client that the caller keeps, the shared default   *)
(* environment and the route of a client (client.py), and the provenance of *)
(* a result (operations/bounds.py).                                         *)
(*                                                                          *)
(* A call of the Bridge is one step here; BridgeClient has its steps.       *)
(* Processes are numbered in the order they are spawned, 0 is None.         *)
(***************************************************************************)
EXTENDS Naturals, Sequences, FiniteSets

CONSTANTS
    Threads,    \* Python threads
    NoThread,   \* a lock is free
    Ops,        \* the operations the threads call, a subset of AllOps
    MaxOps,     \* bound: operations begun by all threads together
    MaxDeaths,  \* bound: processes that die of themselves
    Checks      \* Bridge requests of one checked claim (two for a two-sided one)

(* prove: lc.prove(claim); prove_with, verify_with, close_with, hydrate: the *)
(* same client passed to prove or to a Solver, closed, or asked for its      *)
(* environment; solve: a convenience function of solver.py; close_default:   *)
(* close_default_prove_client; export: a kernel replay of a result.          *)
Provers == {"prove", "prove_with"}
AllOps  == Provers \cup {"verify_with", "solve", "close_default", "close_with", "hydrate", "export"}

ASSUME LifetimeAssumption ==
    /\ NoThread \notin Threads
    /\ Ops \subseteq AllOps
    /\ MaxOps \in Nat /\ MaxDeaths \in Nat /\ Checks \in Nat \ {0}

VARIABLES
    made,        \* clients constructed so far; 1 is the one the caller keeps
    prover,      \* _DEFAULT_PROVE_CLIENT
    proverLock,  \* owner of _DEFAULT_PROVE_CLIENT_LOCK
    taken,       \* history: clients close_default_prove_client took out
    solvers,     \* Solver objects constructed by _get_solver so far
    global,      \* _global_solver
    clientOf,    \* _client of each solver
    session,     \* _session of each client: the number of its process
    contracted,  \* whether _bridge_contract is set
    program,     \* whether _program is set
    environment, \* _environment of each client, by the number of its resolution
    cache,       \* _DEFAULT_ENVIRONMENTS, for the one key in use
    cacheLock,   \* owner of _DEFAULT_ENVIRONMENTS_LOCK
    resolved,    \* environments resolved so far
    routes,      \* what each process spawned so far was started from
    alive,       \* the processes that run
    pc, op,      \* where each thread is, in which operation
    client,      \* the client in each thread's frame
    solver,      \* the solver in each thread's frame
    todo,        \* Bridge requests still to make
    told,        \* provenance collected for the result
    ran,         \* processes that answered the requests of the result
    ops, deaths

owners  == <<made, prover, proverLock, taken, solvers, global, clientOf>>
bridges == <<session, contracted, program, routes, alive>>
envs    == <<environment, cache, cacheLock, resolved>>
frame   == <<pc, op, client, solver, todo>>
result  == <<told, ran>>
used    == <<ops, deaths>>
vars    == <<owners, bridges, envs, frame, result, used>>

Kept      == 1
Clients   == 1 .. MaxOps + 1
Solvers   == 1 .. MaxOps
Processes == 1 .. Len(routes)
Routes    == {"program", "environment"}
NothingTold == [execution |-> 0, route |-> "program"]

PCs == {"idle", "default", "new_default", "take_default", "close",
        "look_solver", "new_solver", "take_solver", "look_client", "new_client", "take_client",
        "shake", "describe", "check", "done",
        "look_env", "lock_env", "resolve", "give_env"}

TypeOK ==
    /\ made \in Clients /\ prover \in {0} \cup Clients
    /\ taken \subseteq Clients
    /\ proverLock \in Threads \cup {NoThread} /\ cacheLock \in Threads \cup {NoThread}
    /\ solvers \in {0} \cup Solvers /\ global \in {0} \cup Solvers
    /\ clientOf \in [Solvers -> {0} \cup Clients]
    /\ session \in [Clients -> {0} \cup Processes]
    /\ contracted \in [Clients -> BOOLEAN] /\ program \in [Clients -> BOOLEAN]
    /\ environment \in [Clients -> Nat] /\ cache \in Nat /\ resolved \in Nat
    /\ routes \in Seq(Routes)
    /\ alive \subseteq Processes
    /\ pc \in [Threads -> PCs] /\ op \in [Threads -> AllOps \cup {"none"}]
    /\ client \in [Threads -> {0} \cup Clients] /\ solver \in [Threads -> {0} \cup Solvers]
    /\ todo \in [Threads -> 0 .. Checks]
    /\ told \in [Threads -> [execution : {0} \cup Processes, route : Routes]]
    /\ ran \in [Threads -> SUBSET Processes]
    /\ ops \in Nat /\ deaths \in Nat

Init ==
    /\ made = Kept /\ prover = 0 /\ proverLock = NoThread /\ taken = {}
    /\ solvers = 0 /\ global = 0 /\ clientOf = [s \in Solvers |-> 0]
    /\ session = [c \in Clients |-> 0]
    /\ contracted = [c \in Clients |-> FALSE] /\ program = [c \in Clients |-> FALSE]
    /\ environment = [c \in Clients |-> 0]
    /\ cache = 0 /\ cacheLock = NoThread /\ resolved = 0
    /\ routes = <<>> /\ alive = {}
    /\ pc = [t \in Threads |-> "idle"] /\ op = [t \in Threads |-> "none"]
    /\ client = [t \in Threads |-> 0] /\ solver = [t \in Threads |-> 0]
    /\ todo = [t \in Threads |-> 0]
    /\ told = [t \in Threads |-> NothingTold] /\ ran = [t \in Threads |-> {}]
    /\ ops = 0 /\ deaths = 0

-----------------------------------------------------------------------------
Goto(t, where) == pc' = [pc EXCEPT ![t] = where]
Hold(t, c)     == client' = [client EXCEPT ![t] = c]

(* The operation returns or raises: its frame is gone. *)
Leave(t) ==
    /\ Goto(t, "idle")
    /\ Hold(t, 0)
    /\ solver' = [solver EXCEPT ![t] = 0]
    /\ todo' = [todo EXCEPT ![t] = 0]
    /\ told' = [told EXCEPT ![t] = NothingTold]
    /\ ran' = [ran EXCEPT ![t] = {}]
    /\ UNCHANGED op

(* Where an operation starts, and with which client in hand. *)
FirstPlace(o) ==
    CASE o = "prove"         -> "default"
      [] o = "prove_with"    -> "shake"
      [] o = "verify_with"   -> "check"
      [] o = "solve"         -> "look_solver"
      [] o = "close_default" -> "take_default"
      [] o = "close_with"    -> "close"
      [] o = "hydrate"       -> "look_env"
      [] o = "export"        -> "new_client"

FirstClient(o) ==
    IF o \in {"prove_with", "verify_with", "close_with", "hydrate"} THEN Kept ELSE 0

Begin(t) ==
    /\ pc[t] = "idle" /\ ops < MaxOps
    /\ ops' = ops + 1
    /\ \E o \in Ops : /\ op' = [op EXCEPT ![t] = o]
                       /\ Hold(t, FirstClient(o))
                       /\ Goto(t, FirstPlace(o))
    /\ todo' = [todo EXCEPT ![t] = Checks]
    /\ UNCHANGED <<owners, bridges, envs, solver, result, deaths>>

-----------------------------------------------------------------------------
(* The default client of prove *)

(* Mutant of EnterDefault: _DEFAULT_PROVE_CLIENT_LOCK is not taken. *)
EnterDefaultUnlocked(t) ==
    /\ pc[t] = "default"
    /\ IF prover = 0 THEN Goto(t, "new_default") /\ UNCHANGED client
                     ELSE Goto(t, "shake") /\ Hold(t, prover)
    /\ UNCHANGED <<owners, bridges, envs, op, solver, todo, result, used>>

(* _default_prove_client: the lock, and a look at what it protects. *)
EnterDefault(t) ==
    /\ pc[t] = "default" /\ proverLock = NoThread
    /\ IF prover = 0
         THEN proverLock' = t /\ Goto(t, "new_default") /\ UNCHANGED client
         ELSE Goto(t, "shake") /\ Hold(t, prover) /\ UNCHANGED proverLock
    /\ UNCHANGED <<made, prover, taken, solvers, global, clientOf,
                   bridges, envs, op, solver, todo, result, used>>

NewDefault(t) ==
    /\ pc[t] = "new_default" /\ made + 1 \in Clients
    /\ made' = made + 1 /\ prover' = made + 1
    /\ Hold(t, made + 1)
    /\ proverLock' = NoThread
    /\ Goto(t, "shake")
    /\ UNCHANGED <<taken, solvers, global, clientOf,
                   bridges, envs, op, solver, todo, result, used>>

(* close_default_prove_client, at exit too: forget the client under the      *)
(* lock, close it after the lock.                                            *)
TakeDefault(t) ==
    /\ pc[t] = "take_default" /\ proverLock = NoThread
    /\ IF prover = 0
         THEN Leave(t) /\ UNCHANGED <<prover, taken>>
         ELSE /\ Hold(t, prover)
              /\ prover' = 0 /\ taken' = taken \cup {prover}
              /\ Goto(t, "close")
              /\ UNCHANGED <<op, solver, todo, result>>
    /\ UNCHANGED <<made, proverLock, solvers, global, clientOf, bridges, envs, used>>

(* LeanClient.close *)
Closed(c) ==
    /\ alive' = alive \ {session[c]}
    /\ session' = [session EXCEPT ![c] = 0]
    /\ contracted' = [contracted EXCEPT ![c] = FALSE]
    /\ UNCHANGED <<program, routes>>

Close(t) ==
    /\ pc[t] = "close"
    /\ Closed(client[t])
    /\ Leave(t)
    /\ UNCHANGED <<owners, envs, used>>

-----------------------------------------------------------------------------
(* The global solver: _get_solver and _ensure_client take no lock. *)

LookSolver(t) ==
    /\ pc[t] = "look_solver"
    /\ Goto(t, IF global = 0 THEN "new_solver" ELSE "take_solver")
    /\ UNCHANGED <<owners, bridges, envs, op, client, solver, todo, result, used>>

NewSolver(t) ==
    /\ pc[t] = "new_solver" /\ solvers + 1 \in Solvers
    /\ solvers' = solvers + 1 /\ global' = solvers + 1
    /\ Goto(t, "take_solver")
    /\ UNCHANGED <<made, prover, proverLock, taken, clientOf,
                   bridges, envs, op, client, solver, todo, result, used>>

TakeSolver(t) ==
    /\ pc[t] = "take_solver"
    /\ solver' = [solver EXCEPT ![t] = global]
    /\ Goto(t, "look_client")
    /\ UNCHANGED <<owners, bridges, envs, op, client, todo, result, used>>

LookClient(t) ==
    /\ pc[t] = "look_client"
    /\ Goto(t, IF clientOf[solver[t]] = 0 THEN "new_client" ELSE "take_client")
    /\ UNCHANGED <<owners, bridges, envs, op, client, solver, todo, result, used>>

(* The solver's own client, or the short-lived one of an exporter. *)
NewClient(t) ==
    /\ pc[t] = "new_client" /\ made + 1 \in Clients
    /\ made' = made + 1
    /\ IF op[t] = "export"
         THEN Hold(t, made + 1) /\ Goto(t, "look_env") /\ UNCHANGED clientOf
         ELSE /\ clientOf' = [clientOf EXCEPT ![solver[t]] = made + 1]
              /\ Goto(t, "take_client")
              /\ UNCHANGED client
    /\ UNCHANGED <<prover, proverLock, taken, solvers, global,
                   bridges, envs, op, solver, todo, result, used>>

TakeClient(t) ==
    /\ pc[t] = "take_client"
    /\ Hold(t, clientOf[solver[t]])
    /\ Goto(t, "check")
    /\ UNCHANGED <<owners, bridges, envs, op, solver, todo, result, used>>

-----------------------------------------------------------------------------
(* Requests of the Bridge, and what is said of them *)

Running(c) == session[c] \in alive

(* _ensure_session: a client whose environment is resolved spawns from it,   *)
(* any other one from its ready program, downloading it when it is not set.  *)
EnsureSession(c) ==
    IF Running(c)
      THEN UNCHANGED <<session, program, routes, alive>>
      ELSE LET new   == Len(routes) + 1
               route == IF environment[c] = 0 THEN "program" ELSE "environment"
           IN  /\ routes' = Append(routes, route)
               /\ session' = [session EXCEPT ![c] = new]
               /\ alive' = alive \cup {new}
               /\ program' = [program EXCEPT ![c] = @ \/ route = "program"]

(* Mutant of Shake: the client is described before it has a process. *)
ShakeLater(t) ==
    /\ pc[t] = "shake"
    /\ Goto(t, "describe")
    /\ UNCHANGED <<owners, bridges, envs, op, client, solver, todo, result, used>>

(* bridge_contract and bridge_info: a handshake unless one is cached.        *)
(* execute_bound_plan shakes hands, describes the client and then checks;    *)
(* Solver.verify_bound checks first.                                         *)
Shake(t) ==
    /\ pc[t] = "shake"
    /\ IF contracted[client[t]]
         THEN UNCHANGED bridges
         ELSE EnsureSession(client[t]) /\ contracted' = [contracted EXCEPT ![client[t]] = TRUE]
    /\ Goto(t, "describe")
    /\ UNCHANGED <<owners, envs, op, client, solver, todo, result, used>>

(* bridge_provenance, once it has the handshake: it reads _session and       *)
(* _program as they are now.                                                 *)
Describe(t) ==
    /\ pc[t] = "describe"
    /\ told' = [told EXCEPT ![t] =
         [execution |-> session[client[t]],
          route     |-> IF program[client[t]] THEN "program" ELSE "environment"]]
    /\ Goto(t, IF op[t] \in Provers THEN "check" ELSE "done")
    /\ UNCHANGED <<owners, bridges, envs, op, client, solver, todo, ran, used>>

LastStep(t) == IF op[t] \in Provers THEN "done" ELSE "shake"

(* Mutant of Check: one request too many. *)
CheckOnceMore(t) ==
    /\ pc[t] = "check"
    /\ EnsureSession(client[t])
    /\ contracted' = [contracted EXCEPT ![client[t]] = ~@ \/ Running(client[t])]
    /\ ran' = [ran EXCEPT ![t] = @ \cup {session'[client[t]]}]
    /\ todo' = [todo EXCEPT ![t] = @ - 1]
    /\ Goto(t, IF todo[t] > 0 THEN "check" ELSE LastStep(t))
    /\ UNCHANGED <<owners, envs, op, client, solver, told, used>>

(* check_bound and the like: call() decides on a handshake before the        *)
(* process is looked at, so a replaced process has no contract afterwards.   *)
Check(t) ==
    /\ pc[t] = "check"
    /\ EnsureSession(client[t])
    /\ contracted' = [contracted EXCEPT ![client[t]] = ~@ \/ Running(client[t])]
    /\ ran' = [ran EXCEPT ![t] = @ \cup {session'[client[t]]}]
    /\ todo' = [todo EXCEPT ![t] = @ - 1]
    /\ Goto(t, IF todo[t] > 1 THEN "check" ELSE LastStep(t))
    /\ UNCHANGED <<owners, envs, op, client, solver, told, used>>

(* The program cannot be downloaded or the process not started. *)
SpawnFails(t) ==
    /\ pc[t] \in {"shake", "check"} /\ ~Running(client[t])
    /\ contracted' = [contracted EXCEPT ![client[t]] = FALSE]
    /\ Leave(t)
    /\ UNCHANGED <<owners, session, program, routes, alive, envs, used>>

(* The process ends while it has a request: the session is retired. *)
CallFails(t) ==
    /\ pc[t] = "check" /\ Running(client[t])
    /\ deaths < MaxDeaths /\ deaths' = deaths + 1
    /\ Closed(client[t])
    /\ Leave(t)
    /\ UNCHANGED <<owners, envs, ops>>

Return(t) ==
    /\ pc[t] \in {"done", "give_env"}
    /\ Leave(t)
    /\ UNCHANGED <<owners, bridges, envs, used>>

-----------------------------------------------------------------------------
(* LeanClient.environment *)

LookEnvironment(t) ==
    /\ pc[t] = "look_env"
    /\ Goto(t, IF environment[client[t]] = 0 THEN "lock_env" ELSE "give_env")
    /\ UNCHANGED <<owners, bridges, envs, op, client, solver, todo, result, used>>

(* Mutant of LockEnvironment: the cache is not read again under the lock. *)
LockEnvironmentBlind(t) ==
    /\ pc[t] = "lock_env" /\ cacheLock = NoThread
    /\ cacheLock' = t
    /\ Goto(t, "resolve")
    /\ UNCHANGED <<owners, bridges, environment, cache, resolved,
                   op, client, solver, todo, result, used>>

LockEnvironment(t) ==
    /\ pc[t] = "lock_env" /\ cacheLock = NoThread
    /\ environment' = [environment EXCEPT ![client[t]] = cache]
    /\ IF cache = 0 THEN cacheLock' = t /\ Goto(t, "resolve")
                    ELSE UNCHANGED cacheLock /\ Goto(t, "give_env")
    /\ UNCHANGED <<owners, bridges, cache, resolved, op, client, solver, todo, result, used>>

(* Mutant of Resolve: the client keeps the environment, the cache does not. *)
ResolveUncached(t) ==
    /\ pc[t] = "resolve"
    /\ resolved' = resolved + 1
    /\ environment' = [environment EXCEPT ![client[t]] = resolved + 1]
    /\ cacheLock' = NoThread
    /\ Goto(t, "give_env")
    /\ UNCHANGED <<owners, bridges, cache, op, client, solver, todo, result, used>>

(* _resolve_environment, which takes minutes, holding the lock throughout. *)
Resolve(t) ==
    /\ pc[t] = "resolve"
    /\ resolved' = resolved + 1
    /\ environment' = [environment EXCEPT ![client[t]] = resolved + 1]
    /\ cache' = resolved + 1
    /\ cacheLock' = NoThread
    /\ Goto(t, "give_env")
    /\ UNCHANGED <<owners, bridges, op, client, solver, todo, result, used>>

(* Mutant of ResolveFails: the lock stays with a thread that is gone. *)
ResolveFailsLocked(t) ==
    /\ pc[t] = "resolve"
    /\ Leave(t)
    /\ UNCHANGED <<owners, bridges, envs, used>>

ResolveFails(t) ==
    /\ pc[t] = "resolve"
    /\ cacheLock' = NoThread
    /\ Leave(t)
    /\ UNCHANGED <<owners, bridges, environment, cache, resolved, used>>

-----------------------------------------------------------------------------
(* A process dies of itself (a crash, or the execution policy's time limit). *)
Die(p) ==
    /\ p \in alive
    /\ deaths < MaxDeaths /\ deaths' = deaths + 1
    /\ alive' = alive \ {p}
    /\ UNCHANGED <<owners, session, contracted, program, routes, envs, frame, result, ops>>

(* Something of the program still refers to the client. *)
Reachable(c) ==
    \/ c \in {Kept, prover}
    \/ \E t \in Threads : client[t] = c
    \/ \E s \in Solvers : /\ clientOf[s] = c
                          /\ s = global \/ \E t \in Threads : solver[t] = s

(* Mutant of Finalize: an exception is swallowed before the session closes. *)
FinalizeSwallows(c) ==
    /\ c \in 1 .. made /\ ~Reachable(c) /\ contracted[c]
    /\ contracted' = [contracted EXCEPT ![c] = FALSE]
    /\ UNCHANGED <<owners, session, program, routes, alive, envs, frame, result, used>>

(* __del__ of a client that nothing refers to. *)
Finalize(c) ==
    /\ c \in 1 .. made /\ ~Reachable(c) /\ session[c] # 0
    /\ Closed(c)
    /\ UNCHANGED <<owners, envs, frame, result, used>>

Quiescent ==
    /\ ops = MaxOps
    /\ \A t \in Threads : pc[t] = "idle"
    /\ UNCHANGED vars

Default(t)     == EnterDefault(t) \/ NewDefault(t) \/ TakeDefault(t) \/ Close(t)
Owned(t)       == \/ LookSolver(t) \/ NewSolver(t) \/ TakeSolver(t)
                  \/ LookClient(t) \/ NewClient(t) \/ TakeClient(t)
Talk(t)        == \/ Shake(t) \/ Describe(t) \/ Check(t)
                  \/ SpawnFails(t) \/ CallFails(t) \/ Return(t)
Environment(t) == \/ LookEnvironment(t) \/ LockEnvironment(t)
                  \/ Resolve(t) \/ ResolveFails(t)
Continue(t)    == Default(t) \/ Owned(t) \/ Talk(t) \/ Environment(t)

Next ==
    \/ \E t \in Threads : Begin(t) \/ Continue(t)
    \/ \E p \in alive : Die(p)
    \/ \E c \in Clients : Finalize(c)
    \/ Quiescent

Spec == Init /\ [][Next]_vars

(* A thread in an operation goes on, and CPython runs the finalizer of an    *)
(* object whose last reference is gone.  No thread has to begin anything.    *)
Fairness == /\ \A t \in Threads : WF_vars(Continue(t))
            /\ \A c \in Clients : WF_vars(Finalize(c))
FairSpec == Spec /\ Fairness

-----------------------------------------------------------------------------
(* CHANGELOG 2.1.0: module-level prove reuses one managed client.  Whatever   *)
(* threads prove and close at once, the client that prove uses is the one     *)
(* that close_default_prove_client will find: none is made beside it.         *)
OneDefaultClient ==
    \A t \in Threads :
        op[t] = "prove" /\ client[t] # 0 => client[t] \in taken \cup {prover}

(* _DEFAULT_ENVIRONMENTS_LOCK: however many threads ask for the environment   *)
(* at once, the default runtime resolves it once, and every client has that.  *)
ResolvedOnce ==
    /\ resolved <= 1
    /\ \A c \in Clients : environment[c] \in {0, cache}

(* LeanClient.environment never gives None, although the property writes      *)
(* _environment, which other threads of the client read, before it is known.  *)
EnvironmentGiven ==
    \A t \in Threads : pc[t] = "give_env" => environment[client[t]] # 0

(* All clients share one default environment, and none sees it half made.    *)
EnvironmentShared == ResolvedOnce /\ EnvironmentGiven

(* Of the clients whose environment nobody asked for: the execution route in  *)
(* a result's provenance is the one of every process that made the result.    *)
RouteIsTrue ==
    \A t \in Threads :
        pc[t] = "done" /\ environment[client[t]] = 0 =>
            \A p \in ran[t] : told[t].route = routes[p]

(* LeanClient.__del__: abandoned sessions do not accumulate.  A client that    *)
(* close_default_prove_client took while prove was using it, or that lost a   *)
(* race for the global solver, ends without a process, although a late call   *)
(* may have spawned it again after the close.                                 *)
Abandoned(c) == c \in 1 .. made /\ ~Reachable(c)
AbandonedStops == \A c \in Clients : Abandoned(c) ~> [](session[c] \notin alive)

(* Every operation ends: no path keeps one of the two locks.                  *)
OperationsEnd == \A t \in Threads : pc[t] # "idle" ~> pc[t] = "idle"
=============================================================================
