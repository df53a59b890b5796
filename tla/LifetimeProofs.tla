--------------------------- MODULE LifetimeProofs ---------------------------
(***************************************************************************)
(* Theorems about Lifetime: the default client, the shared environment, and *)
(* the execution route in the provenance of a result, for any number of     *)
(* threads and operations.                                                  *)
(***************************************************************************)
EXTENDS Lifetime, TLAPS

(* What each place of a thread says of its operation and of its frame. *)
DefaultPlaces == {"default", "new_default"}
SolverPlaces  == {"look_solver", "new_solver", "take_solver", "look_client", "take_client"}
EnvPlaces     == {"look_env", "lock_env", "resolve", "give_env"}
TalkPlaces    == {"shake", "describe", "check", "done"}

PlaceOf(t) ==
    /\ pc[t] \in DefaultPlaces => op[t] = "prove"
    /\ pc[t] = "take_default" => op[t] = "close_default"
    /\ pc[t] = "close" => op[t] \in {"close_default", "close_with"}
    /\ pc[t] \in SolverPlaces => op[t] = "solve"
    /\ pc[t] = "new_client" => op[t] \in {"solve", "export"}
    /\ pc[t] \in EnvPlaces => op[t] \in {"hydrate", "export"}
    /\ pc[t] \in TalkPlaces => op[t] \in {"prove", "prove_with", "verify_with", "solve"}

(* A thread that talks to a Bridge, closes it or asks for the environment    *)
(* has a client; one that looks for the client of a solver has a solver.     *)
FrameOf(t) ==
    /\ pc[t] \in TalkPlaces \cup EnvPlaces \cup {"close"} => client[t] # 0
    /\ pc[t] \in {"look_client", "take_client"} => solver[t] # 0
    /\ pc[t] = "new_client" /\ op[t] = "solve" => solver[t] # 0
    /\ pc[t] = "take_solver" => global # 0
    /\ pc[t] = "take_client" => clientOf[solver[t]] # 0
    /\ pc[t] \in DefaultPlaces \cup SolverPlaces \cup {"check"} => todo[t] # 0
    /\ pc[t] = "new_client" => todo[t] # 0
    /\ pc[t] \in {"shake", "describe"} /\ op[t] \in Provers => todo[t] # 0

PlaceInv == \A t \in Threads : PlaceOf(t)
FrameInv == \A t \in Threads : FrameOf(t)
LifeInv  == TypeOK /\ PlaceInv /\ FrameInv

(* A client that is being made is made under the lock, for no other. *)
DefaultInv ==
    /\ \A t \in Threads : pc[t] = "new_default" => proverLock = t /\ prover = 0
    /\ OneDefaultClient

(* Resolving happens under the lock, while nothing is cached. *)
CacheInv ==
    /\ \A t \in Threads : pc[t] = "resolve" => cacheLock = t /\ cache = 0
    /\ resolved = cache
    /\ ResolvedOnce
    /\ EnvironmentGiven

(* A client without an environment has spawned from its program only.       *)
RouteOf(c) ==
    environment[c] = 0 =>
        /\ session[c] # 0 \/ contracted[c] => program[c]
        /\ session[c] # 0 => routes[session[c]] = "program"

(* While the thread's client has none: what it collects for its result was   *)
(* made by processes of the program, and will be told so.                    *)
RanFrom(t) ==
    /\ pc[t] \notin TalkPlaces => ran[t] = {}
    /\ client[t] # 0 /\ environment[client[t]] = 0 =>
        /\ \A p \in ran[t] : routes[p] = "program"
        /\ pc[t] = "describe" => program[client[t]]
        /\ pc[t] = "done" \/ (pc[t] = "check" /\ op[t] \in Provers) => told[t].route = "program"

ClientRoutes == \A c \in Clients : RouteOf(c)
ThreadRoutes == \A t \in Threads : RanFrom(t)
RouteInv     == ClientRoutes /\ ThreadRoutes

-----------------------------------------------------------------------------
LEMMA LifeInit == Init => LifeInv
  BY LifetimeAssumption
  DEF Init, LifeInv, PlaceInv, PlaceOf, FrameInv, FrameOf, TypeOK, PCs, NothingTold,
     Clients, Routes, Kept, DefaultPlaces, SolverPlaces, EnvPlaces, TalkPlaces

LEMMA GotoTypes ==
    ASSUME TypeOK, NEW t \in Threads, NEW place \in PCs, Goto(t, place)
    PROVE  pc' \in [Threads -> PCs]
  BY DEF TypeOK, Goto

LEMMA LeaveTypes ==
    ASSUME TypeOK, NEW t \in Threads, Leave(t)
    PROVE  /\ pc' \in [Threads -> PCs] /\ op' \in [Threads -> AllOps \cup {"none"}]
           /\ client' \in [Threads -> {0} \cup Clients]
           /\ solver' \in [Threads -> {0} \cup Solvers]
           /\ todo' \in [Threads -> 0 .. Checks]
           /\ told' \in [Threads -> [execution : {0} \cup Processes, route : Routes]]
           /\ ran' \in [Threads -> SUBSET Processes]
  BY LifetimeAssumption DEF Goto, TypeOK, Leave, Hold, PCs, NothingTold, Routes

LEMMA EnsureTypes ==
    ASSUME TypeOK, NEW c \in Clients, EnsureSession(c)
    PROVE  /\ routes' \in Seq(Routes)
           /\ Processes \subseteq Processes'
           /\ session' \in [Clients -> {0} \cup Processes']
           /\ session'[c] \in Processes'
           /\ program' \in [Clients -> BOOLEAN]
           /\ alive' \subseteq Processes'
<1>1. CASE Running(c)
  BY <1>1 DEF TypeOK, EnsureSession, Running, Processes
<1>2. CASE ~Running(c)
  <2> DEFINE route == IF environment[c] = 0 THEN "program" ELSE "environment"
  <2>1. /\ routes' = Append(routes, route)
        /\ session' = [session EXCEPT ![c] = Len(routes) + 1]
        /\ alive' = alive \cup {Len(routes) + 1}
        /\ program' = [program EXCEPT ![c] = @ \/ route = "program"]
    BY <1>2 DEF EnsureSession
  <2>2. routes' \in Seq(Routes) /\ Len(routes') = Len(routes) + 1
    BY <2>1 DEF TypeOK, Routes
  <2> HIDE DEF route
  <2>3. Processes \subseteq Processes' /\ Len(routes) + 1 \in Processes'
    BY <2>2 DEF TypeOK, Processes
  <2>4. program' \in [Clients -> BOOLEAN]
    BY <2>1, Zenon DEF TypeOK
  <2> QED
    BY <2>1, <2>2, <2>3, <2>4 DEF TypeOK
<1> QED
  BY <1>1, <1>2

LEMMA TypeStep == LifeInv /\ [Next]_vars => TypeOK'
<1> SUFFICES ASSUME LifeInv, [Next]_vars PROVE TypeOK'
  OBVIOUS
<1> USE LifetimeAssumption
<1>1. ASSUME NEW u \in Threads, EnterDefault(u) PROVE TypeOK'
  <2>1. pc' \in [Threads -> PCs]
    <3>1. Goto(u, "new_default") \/ Goto(u, "shake")
      BY <1>1 DEF EnterDefault
    <3> QED
      BY <3>1, GotoTypes DEF LifeInv, PCs
  <2>2. client' \in [Threads -> {0} \cup Clients] /\ proverLock' \in Threads \cup {NoThread}
    BY <1>1 DEF LifeInv, TypeOK, EnterDefault, Hold
  <2> QED
    BY <1>1, <2>1, <2>2
    DEF LifeInv, EnterDefault, TypeOK, Processes, bridges, envs, result, used
<1>2. ASSUME NEW u \in Threads, NewDefault(u) PROVE TypeOK'
  BY <1>2
  DEF Goto, LifeInv, NewDefault, Hold, TypeOK, PCs, Processes, bridges, envs, result, used
<1>3. ASSUME NEW u \in Threads, TakeDefault(u) PROVE TypeOK'
  <2>1. CASE prover = 0
    BY <1>3, <2>1, LeaveTypes
    DEF LifeInv, TakeDefault, TypeOK, Processes, bridges, envs, used
  <2>2. CASE prover # 0
    <3>1. pc' \in [Threads -> PCs]
      BY <1>3, <2>2, GotoTypes DEF LifeInv, TakeDefault, PCs
    <3>2. client' \in [Threads -> {0} \cup Clients]
      BY <1>3, <2>2 DEF LifeInv, TypeOK, TakeDefault, Hold
    <3> QED
      BY <1>3, <2>2, <3>1, <3>2
      DEF LifeInv, TakeDefault, TypeOK, Processes, bridges, envs, result, used
  <2> QED
    BY <2>1, <2>2
<1>4. ASSUME NEW u \in Threads, Close(u) PROVE TypeOK'
  BY <1>4, LeaveTypes DEF LifeInv, Close, Closed, TypeOK, Processes, owners, envs, used
<1>5. ASSUME NEW u \in Threads, LookSolver(u) PROVE TypeOK'
  BY <1>5
  DEF Goto, LookSolver, LifeInv, TypeOK, PCs, Processes, owners, bridges, envs, result,
      used
<1>6. ASSUME NEW u \in Threads, NewSolver(u) PROVE TypeOK'
  BY <1>6
  DEF Goto, LifeInv, NewSolver, Hold, TypeOK, PCs, Processes, bridges, envs, result, used
<1>7. ASSUME NEW u \in Threads, TakeSolver(u) PROVE TypeOK'
  BY <1>7
  DEF Goto, TakeSolver, LifeInv, TypeOK, PCs, Processes, owners, bridges, envs, result,
      used
<1>8. ASSUME NEW u \in Threads, LookClient(u) PROVE TypeOK'
  BY <1>8
  DEF Goto, LookClient, LifeInv, TypeOK, PCs, Processes, owners, bridges, envs, result,
      used
<1>9. ASSUME NEW u \in Threads, NewClient(u) PROVE TypeOK'
  <2>1. pc' \in [Threads -> PCs]
    <3>1. Goto(u, "look_env") \/ Goto(u, "take_client")
      BY <1>9 DEF NewClient
    <3> QED
      BY <3>1, GotoTypes DEF LifeInv, PCs
  <2>2. client' \in [Threads -> {0} \cup Clients] /\ clientOf' \in [Solvers -> {0} \cup Clients]
    BY <1>9 DEF LifeInv, TypeOK, NewClient, Hold
  <2> QED
    BY <1>9, <2>1, <2>2
    DEF LifeInv, NewClient, TypeOK, Processes, bridges, envs, result, used
<1>10. ASSUME NEW u \in Threads, TakeClient(u) PROVE TypeOK'
  BY <1>10
  DEF Goto, TakeClient, Hold, LifeInv, FrameInv, FrameOf, TypeOK, PCs, Processes, owners,
      bridges, envs, result, used
<1>11. ASSUME NEW u \in Threads, Shake(u) PROVE TypeOK'
  <2> client[u] \in Clients
    BY <1>11 DEF LifeInv, FrameInv, FrameOf, TypeOK, Shake, TalkPlaces
  <2>1. CASE contracted[client[u]]
    BY <1>11, <2>1
    DEF Goto, LifeInv, Shake, TypeOK, PCs, Processes, owners, bridges, envs, result,
        used
  <2>2. CASE ~contracted[client[u]]
    <3>1. EnsureSession(client[u])
      BY <1>11, <2>2 DEF Shake
    <3>2. /\ told \in [Threads -> [execution : {0} \cup Processes', route : Routes]]
          /\ ran \in [Threads -> SUBSET Processes']
      BY <3>1, EnsureTypes DEF LifeInv, TypeOK
    <3> QED
      BY <1>11, <2>2, <3>1, <3>2, EnsureTypes
      DEF Goto, LifeInv, Shake, TypeOK, PCs, owners, envs, result, used
  <2> QED
    BY <2>1, <2>2
<1>12. ASSUME NEW u \in Threads, Describe(u) PROVE TypeOK'
  BY <1>12
  DEF Goto, Describe, LifeInv, FrameInv, FrameOf, TypeOK, PCs, Processes, Routes,
      TalkPlaces, owners, bridges, envs, used
<1>13. ASSUME NEW u \in Threads, Check(u) PROVE TypeOK'
  <2> client[u] \in Clients
    BY <1>13 DEF LifeInv, FrameInv, FrameOf, TypeOK, Check, TalkPlaces
  <2>1. EnsureSession(client[u])
    BY <1>13 DEF Check
  <2>2. told \in [Threads -> [execution : {0} \cup Processes', route : Routes]]
    BY <2>1, EnsureTypes DEF LifeInv, TypeOK
  <2>3. ran' \in [Threads -> SUBSET Processes']
    BY <1>13, <2>1, EnsureTypes DEF LifeInv, TypeOK, Check
  <2>4. todo' \in [Threads -> 0 .. Checks]
    BY <1>13 DEF LifeInv, FrameInv, FrameOf, TypeOK, Check
  <2>5. contracted' \in [Clients -> BOOLEAN]
    BY <1>13, Zenon DEF LifeInv, TypeOK, Check
  <2>6. pc' \in [Threads -> PCs]
    BY <1>13, GotoTypes DEF LifeInv, Check, LastStep, PCs
  <2> QED
    BY <1>13, <2>1, <2>2, <2>3, <2>4, <2>5, <2>6, EnsureTypes
    DEF LifeInv, Check, TypeOK, owners, envs, used
<1>14. ASSUME NEW u \in Threads, SpawnFails(u) PROVE TypeOK'
  BY <1>14, LeaveTypes DEF LifeInv, SpawnFails, TypeOK, Processes, owners, envs, used
<1>15. ASSUME NEW u \in Threads, CallFails(u) PROVE TypeOK'
  <2>1. /\ session' \in [Clients -> {0} \cup Processes] /\ alive' \subseteq Processes
        /\ contracted' \in [Clients -> BOOLEAN]
    BY <1>15 DEF LifeInv, TypeOK, CallFails, Closed
  <2>2. UNCHANGED <<program, routes>> /\ deaths' \in Nat
    BY <1>15 DEF LifeInv, TypeOK, CallFails, Closed
  <2> QED
    BY <1>15, <2>1, <2>2, LeaveTypes DEF LifeInv, CallFails, TypeOK, Processes, owners, envs
<1>16. ASSUME NEW u \in Threads, Return(u) PROVE TypeOK'
  BY <1>16, LeaveTypes DEF LifeInv, Return, TypeOK, Processes, owners, bridges, envs, used
<1>17. ASSUME NEW u \in Threads, LookEnvironment(u) PROVE TypeOK'
  BY <1>17
  DEF Goto, LookEnvironment, LifeInv, TypeOK, PCs, Processes, owners, bridges, envs,
      result, used
<1>18. ASSUME NEW u \in Threads, LockEnvironment(u) PROVE TypeOK'
  BY <1>18
  DEF Goto, LifeInv, LockEnvironment, TypeOK, PCs, Processes, owners, bridges, result,
      used
<1>19. ASSUME NEW u \in Threads, Resolve(u) PROVE TypeOK'
  <2>1. pc' \in [Threads -> PCs]
    BY <1>19, GotoTypes DEF LifeInv, Resolve, PCs
  <2>2. environment' \in [Clients -> Nat] /\ cache' \in Nat /\ resolved' \in Nat
    <3>1. resolved + 1 \in Nat
      BY DEF LifeInv, TypeOK
    <3>2. /\ environment' = [environment EXCEPT ![client[u]] = resolved + 1]
          /\ cache' = resolved + 1 /\ resolved' = resolved + 1
      BY <1>19 DEF Resolve
    <3> QED
      BY <3>1, <3>2 DEF LifeInv, TypeOK
  <2> QED
    BY <1>19, <2>1, <2>2
    DEF LifeInv, Resolve, TypeOK, Processes, owners, bridges, result, used
<1>20. ASSUME NEW u \in Threads, ResolveFails(u) PROVE TypeOK'
  BY <1>20, LeaveTypes DEF LifeInv, ResolveFails, TypeOK, Processes, owners, bridges, used
<1>21. ASSUME NEW u \in Threads, Begin(u) PROVE TypeOK'
  <2> PICK o \in Ops : /\ op' = [op EXCEPT ![u] = o]
                       /\ Hold(u, FirstClient(o))
                       /\ Goto(u, FirstPlace(o))
    BY <1>21 DEF Begin
  <2>1. pc' \in [Threads -> PCs]
    BY DEF LifeInv, TypeOK, Goto, FirstPlace, PCs, AllOps, Provers
  <2>2. client' \in [Threads -> {0} \cup Clients] /\ op' \in [Threads -> AllOps \cup {"none"}]
    BY DEF LifeInv, TypeOK, Hold, FirstClient, Kept, Clients
  <2>3. todo' \in [Threads -> 0 .. Checks]
    BY <1>21 DEF LifeInv, TypeOK, Begin
  <2> QED
    BY <1>21, <2>1, <2>2, <2>3
    DEF LifeInv, Begin, TypeOK, Processes, owners, bridges, envs, result
<1>22. ASSUME NEW p \in alive, Die(p) PROVE TypeOK'
  BY <1>22 DEF LifeInv, Die, TypeOK, Processes, owners, envs, frame, result
<1>23. ASSUME NEW d \in Clients, Finalize(d) PROVE TypeOK'
  BY <1>23
  DEF Finalize, Closed, LifeInv, TypeOK, Processes, owners, envs, frame, result, used
<1>24. CASE UNCHANGED vars
  BY <1>24 DEF LifeInv, TypeOK, Processes, vars, owners, bridges, envs, frame, result, used
<1> QED
  BY <1>1, <1>2, <1>3, <1>4, <1>5, <1>6, <1>7, <1>8, <1>9, <1>10, <1>11, <1>12, <1>13,
     <1>14, <1>15, <1>16, <1>17, <1>18, <1>19, <1>20, <1>21, <1>22, <1>23, <1>24
  DEF Next, Continue, Default, Owned, Talk, Environment, Quiescent

LEMMA PlaceStep == LifeInv /\ [Next]_vars => PlaceInv'
<1> SUFFICES ASSUME LifeInv, [Next]_vars PROVE PlaceInv'
  OBVIOUS
<1> USE LifetimeAssumption
<1>1. ASSUME NEW u \in Threads, EnterDefault(u) PROVE PlaceInv'
  BY <1>1
  DEF Goto, EnterDefault, Hold, LifeInv, PlaceInv, PlaceOf, TypeOK, DefaultPlaces,
      SolverPlaces, EnvPlaces, TalkPlaces
<1>2. ASSUME NEW u \in Threads, NewDefault(u) PROVE PlaceInv'
  BY <1>2
  DEF Goto, NewDefault, Hold, LifeInv, PlaceInv, PlaceOf, TypeOK, DefaultPlaces,
      SolverPlaces, EnvPlaces
<1>3. ASSUME NEW u \in Threads, TakeDefault(u) PROVE PlaceInv'
  BY <1>3
  DEF Goto, TakeDefault, Hold, Leave, LifeInv, PlaceInv, PlaceOf, TypeOK, DefaultPlaces,
      SolverPlaces, EnvPlaces, TalkPlaces
<1>4. ASSUME NEW u \in Threads, Close(u) PROVE PlaceInv'
  BY <1>4
  DEF Goto, Close, Hold, Leave, Closed, LifeInv, PlaceInv, PlaceOf, TypeOK, DefaultPlaces,
      SolverPlaces, EnvPlaces, TalkPlaces
<1>5. ASSUME NEW u \in Threads, LookSolver(u) PROVE PlaceInv'
  BY <1>5
  DEF Goto, LookSolver, LifeInv, PlaceInv, PlaceOf, TypeOK, DefaultPlaces, SolverPlaces,
      EnvPlaces
<1>6. ASSUME NEW u \in Threads, NewSolver(u) PROVE PlaceInv'
  BY <1>6
  DEF Goto, NewSolver, LifeInv, PlaceInv, PlaceOf, TypeOK, DefaultPlaces, SolverPlaces,
      EnvPlaces
<1>7. ASSUME NEW u \in Threads, TakeSolver(u) PROVE PlaceInv'
  BY <1>7
  DEF Goto, TakeSolver, LifeInv, PlaceInv, PlaceOf, TypeOK, DefaultPlaces, SolverPlaces,
      EnvPlaces
<1>8. ASSUME NEW u \in Threads, LookClient(u) PROVE PlaceInv'
  BY <1>8
  DEF Goto, LookClient, LifeInv, PlaceInv, PlaceOf, TypeOK, DefaultPlaces, SolverPlaces,
      EnvPlaces
<1>9. ASSUME NEW u \in Threads, NewClient(u) PROVE PlaceInv'
  BY <1>9
  DEF Goto, NewClient, Hold, LifeInv, PlaceInv, PlaceOf, TypeOK, DefaultPlaces,
      SolverPlaces, EnvPlaces, TalkPlaces
<1>10. ASSUME NEW u \in Threads, TakeClient(u) PROVE PlaceInv'
  BY <1>10
  DEF Goto, TakeClient, Hold, LifeInv, PlaceInv, PlaceOf, TypeOK, DefaultPlaces,
      SolverPlaces, EnvPlaces
<1>11. ASSUME NEW u \in Threads, Shake(u) PROVE PlaceInv'
  BY <1>11
  DEF Goto, Shake, EnsureSession, Running, LifeInv, PlaceInv, PlaceOf, TypeOK,
      DefaultPlaces, SolverPlaces, EnvPlaces, TalkPlaces
<1>12. ASSUME NEW u \in Threads, Describe(u) PROVE PlaceInv'
  BY <1>12
  DEF Goto, Describe, LifeInv, PlaceInv, PlaceOf, TypeOK, DefaultPlaces, SolverPlaces,
      EnvPlaces, TalkPlaces
<1>13. ASSUME NEW u \in Threads, Check(u) PROVE PlaceInv'
  BY <1>13
  DEF Goto, Check, EnsureSession, Running, LastStep, LifeInv, PlaceInv, PlaceOf, TypeOK,
      DefaultPlaces, SolverPlaces, EnvPlaces, TalkPlaces
<1>14. ASSUME NEW u \in Threads, SpawnFails(u) PROVE PlaceInv'
  BY <1>14
  DEF Goto, SpawnFails, Hold, Leave, Running, LifeInv, PlaceInv, PlaceOf, TypeOK,
      DefaultPlaces, SolverPlaces, EnvPlaces, TalkPlaces
<1>15. ASSUME NEW u \in Threads, CallFails(u) PROVE PlaceInv'
  BY <1>15
  DEF Goto, CallFails, Hold, Leave, Closed, Running, LifeInv, PlaceInv, PlaceOf, TypeOK,
      DefaultPlaces, SolverPlaces, EnvPlaces, TalkPlaces
<1>16. ASSUME NEW u \in Threads, Return(u) PROVE PlaceInv'
  BY <1>16
  DEF Goto, Return, Hold, Leave, LifeInv, PlaceInv, PlaceOf, TypeOK, DefaultPlaces,
      SolverPlaces, EnvPlaces, TalkPlaces
<1>17. ASSUME NEW u \in Threads, LookEnvironment(u) PROVE PlaceInv'
  BY <1>17
  DEF Goto, LookEnvironment, LifeInv, PlaceInv, PlaceOf, TypeOK, DefaultPlaces,
      SolverPlaces, EnvPlaces, TalkPlaces
<1>18. ASSUME NEW u \in Threads, LockEnvironment(u) PROVE PlaceInv'
  BY <1>18
  DEF Goto, LockEnvironment, LifeInv, PlaceInv, PlaceOf, TypeOK, DefaultPlaces,
      SolverPlaces, EnvPlaces, TalkPlaces
<1>19. ASSUME NEW u \in Threads, Resolve(u) PROVE PlaceInv'
  BY <1>19
  DEF Goto, Resolve, LifeInv, PlaceInv, PlaceOf, TypeOK, DefaultPlaces, SolverPlaces,
      EnvPlaces, TalkPlaces
<1>20. ASSUME NEW u \in Threads, ResolveFails(u) PROVE PlaceInv'
  BY <1>20
  DEF Goto, ResolveFails, Hold, Leave, LifeInv, PlaceInv, PlaceOf, TypeOK, DefaultPlaces,
      SolverPlaces, EnvPlaces, TalkPlaces
<1>21. ASSUME NEW u \in Threads, Begin(u) PROVE PlaceInv'
  <2> PICK o \in Ops : /\ op' = [op EXCEPT ![u] = o]
                       /\ Hold(u, FirstClient(o))
                       /\ Goto(u, FirstPlace(o))
    BY <1>21 DEF Begin
  <2> SUFFICES ASSUME NEW t \in Threads PROVE PlaceOf(t)'
    BY DEF PlaceInv
  <2>1. CASE t = u
    <3>1. op'[t] = o /\ todo'[t] = Checks
      BY <1>21, <2>1 DEF LifeInv, TypeOK, Begin
    <3>2. client'[t] = FirstClient(o)
      BY <2>1 DEF LifeInv, TypeOK, Hold
    <3>3. pc'[t] = FirstPlace(o)
      BY <2>1 DEF LifeInv, TypeOK, Goto
    <3> QED
      BY <3>1, <3>2, <3>3
      DEF PlaceOf, FirstPlace, AllOps, Provers, DefaultPlaces, SolverPlaces, EnvPlaces, TalkPlaces
  <2>2. CASE t # u
    BY <1>21, <2>2 DEF Goto, Begin, LifeInv, PlaceInv, PlaceOf, TypeOK, Hold
  <2> QED
    BY <2>1, <2>2
<1>22. ASSUME NEW p \in alive, Die(p) PROVE PlaceInv'
  BY <1>22 DEF Die, LifeInv, PlaceInv, PlaceOf, TypeOK, frame
<1>23. ASSUME NEW d \in Clients, Finalize(d) PROVE PlaceInv'
  BY <1>23 DEF Finalize, LifeInv, PlaceInv, PlaceOf, TypeOK, frame
<1>24. CASE UNCHANGED vars
  BY <1>24 DEF LifeInv, PlaceInv, PlaceOf, TypeOK, vars, frame
<1> QED
  BY <1>1, <1>2, <1>3, <1>4, <1>5, <1>6, <1>7, <1>8, <1>9, <1>10, <1>11, <1>12, <1>13,
     <1>14, <1>15, <1>16, <1>17, <1>18, <1>19, <1>20, <1>21, <1>22, <1>23, <1>24
  DEF Next, Continue, Default, Owned, Talk, Environment, Quiescent

LEMMA FrameStep == LifeInv /\ [Next]_vars => FrameInv'
<1> SUFFICES ASSUME LifeInv, [Next]_vars PROVE FrameInv'
  OBVIOUS
<1> USE LifetimeAssumption
<1>1. ASSUME NEW u \in Threads, EnterDefault(u) PROVE FrameInv'
  BY <1>1
  DEF Goto, EnterDefault, Hold, LifeInv, FrameInv, FrameOf, TypeOK, DefaultPlaces,
      EnvPlaces, TalkPlaces
<1>2. ASSUME NEW u \in Threads, NewDefault(u) PROVE FrameInv'
  BY <1>2
  DEF Goto, NewDefault, Hold, LifeInv, FrameInv, FrameOf, TypeOK, Clients, DefaultPlaces
<1>3. ASSUME NEW u \in Threads, TakeDefault(u) PROVE FrameInv'
  <2> SUFFICES ASSUME NEW t \in Threads PROVE FrameOf(t)'
    BY DEF FrameInv
  <2>1. CASE t = u
    BY <1>3, <2>1
    DEF Goto, TakeDefault, LifeInv, FrameOf, TypeOK, DefaultPlaces, SolverPlaces,
        EnvPlaces, TalkPlaces, Hold, Leave
  <2>2. CASE t # u
    BY <1>3, <2>2 DEF Goto, TakeDefault, LifeInv, FrameInv, FrameOf, TypeOK, Hold, Leave
  <2> QED
    BY <2>1, <2>2
<1>4. ASSUME NEW u \in Threads, Close(u) PROVE FrameInv'
  BY <1>4
  DEF Goto, Close, Hold, Leave, Closed, LifeInv, FrameInv, FrameOf, TypeOK, DefaultPlaces,
      SolverPlaces, EnvPlaces, TalkPlaces, owners
<1>5. ASSUME NEW u \in Threads, LookSolver(u) PROVE FrameInv'
  BY <1>5
  DEF Goto, LookSolver, LifeInv, FrameInv, FrameOf, TypeOK, SolverPlaces, EnvPlaces,
      TalkPlaces, owners
<1>6. ASSUME NEW u \in Threads, NewSolver(u) PROVE FrameInv'
  <2> SUFFICES ASSUME NEW t \in Threads PROVE FrameOf(t)'
    BY DEF FrameInv
  <2>1. CASE t = u
    BY <1>6, <2>1
    DEF Goto, NewSolver, LifeInv, FrameInv, FrameOf, TypeOK, SolverPlaces, EnvPlaces,
        TalkPlaces, Hold, Solvers
  <2>2. CASE t # u
    BY <1>6, <2>2 DEF Goto, NewSolver, LifeInv, FrameInv, FrameOf, TypeOK, Hold, Solvers
  <2> QED
    BY <2>1, <2>2
<1>7. ASSUME NEW u \in Threads, TakeSolver(u) PROVE FrameInv'
  <2> SUFFICES ASSUME NEW t \in Threads PROVE FrameOf(t)'
    BY DEF FrameInv
  <2>1. CASE t = u
    BY <1>7, <2>1
    DEF Goto, TakeSolver, LifeInv, FrameInv, FrameOf, TypeOK, SolverPlaces, EnvPlaces,
        TalkPlaces, Hold
  <2>2. CASE t # u
    BY <1>7, <2>2 DEF Goto, TakeSolver, LifeInv, FrameInv, FrameOf, TypeOK, Hold, owners
  <2> QED
    BY <2>1, <2>2
<1>8. ASSUME NEW u \in Threads, LookClient(u) PROVE FrameInv'
  BY <1>8
  DEF Goto, LookClient, LifeInv, FrameInv, FrameOf, TypeOK, SolverPlaces, EnvPlaces,
      TalkPlaces, owners
<1>9. ASSUME NEW u \in Threads, NewClient(u) PROVE FrameInv'
  <2> SUFFICES ASSUME NEW t \in Threads PROVE FrameOf(t)'
    BY DEF FrameInv
  <2>1. CASE t = u
    BY <1>9, <2>1
    DEF Goto, NewClient, LifeInv, FrameInv, FrameOf, PlaceInv, PlaceOf, TypeOK,
        EnvPlaces, TalkPlaces, Hold, Clients
  <2>2. CASE t # u
    BY <1>9, <2>2 DEF Goto, NewClient, LifeInv, FrameInv, FrameOf, TypeOK, Hold, Clients
  <2> QED
    BY <2>1, <2>2
<1>10. ASSUME NEW u \in Threads, TakeClient(u) PROVE FrameInv'
  <2> SUFFICES ASSUME NEW t \in Threads PROVE FrameOf(t)'
    BY DEF FrameInv
  <2>1. CASE t = u
    BY <1>10, <2>1
    DEF Goto, TakeClient, LifeInv, FrameInv, FrameOf, TypeOK, SolverPlaces, Hold
  <2>2. CASE t # u
    BY <1>10, <2>2 DEF Goto, TakeClient, LifeInv, FrameInv, FrameOf, TypeOK, Hold, owners
  <2> QED
    BY <2>1, <2>2
<1>11. ASSUME NEW u \in Threads, Shake(u) PROVE FrameInv'
  <2> SUFFICES ASSUME NEW t \in Threads PROVE FrameOf(t)'
    BY DEF FrameInv
  <2>1. CASE t = u
    BY <1>11, <2>1
    DEF Goto, Shake, LifeInv, FrameInv, FrameOf, TypeOK, DefaultPlaces, SolverPlaces,
        TalkPlaces, Hold
  <2>2. CASE t # u
    BY <1>11, <2>2 DEF Goto, Shake, LifeInv, FrameInv, FrameOf, TypeOK, Hold, owners
  <2> QED
    BY <2>1, <2>2
<1>12. ASSUME NEW u \in Threads, Describe(u) PROVE FrameInv'
  <2> SUFFICES ASSUME NEW t \in Threads PROVE FrameOf(t)'
    BY DEF FrameInv
  <2>1. CASE t = u
    BY <1>12, <2>1
    DEF Goto, Describe, LifeInv, FrameInv, FrameOf, TypeOK, DefaultPlaces, SolverPlaces,
        TalkPlaces, Hold
  <2>2. CASE t # u
    BY <1>12, <2>2 DEF Goto, Describe, LifeInv, FrameInv, FrameOf, TypeOK, Hold, owners
  <2> QED
    BY <2>1, <2>2
<1>13. ASSUME NEW u \in Threads, Check(u) PROVE FrameInv'
  <2> SUFFICES ASSUME NEW t \in Threads PROVE FrameOf(t)'
    BY DEF FrameInv
  <2>1. CASE t = u
    BY <1>13, <2>1
    DEF Goto, Check, LifeInv, FrameInv, FrameOf, TypeOK, DefaultPlaces, SolverPlaces,
        TalkPlaces, Hold, LastStep
  <2>2. CASE t # u
    BY <1>13, <2>2
    DEF Goto, Check, LifeInv, FrameInv, FrameOf, TypeOK, Hold, owners, LastStep
  <2> QED
    BY <2>1, <2>2
<1>14. ASSUME NEW u \in Threads, SpawnFails(u) PROVE FrameInv'
  BY <1>14
  DEF Goto, SpawnFails, Hold, Leave, Running, LifeInv, FrameInv, FrameOf, TypeOK,
      DefaultPlaces, SolverPlaces, EnvPlaces, TalkPlaces, owners
<1>15. ASSUME NEW u \in Threads, CallFails(u) PROVE FrameInv'
  BY <1>15
  DEF Goto, CallFails, Hold, Leave, Closed, Running, LifeInv, FrameInv, FrameOf, TypeOK,
      DefaultPlaces, SolverPlaces, EnvPlaces, TalkPlaces, owners
<1>16. ASSUME NEW u \in Threads, Return(u) PROVE FrameInv'
  BY <1>16
  DEF Goto, Return, Hold, Leave, LifeInv, FrameInv, FrameOf, TypeOK, DefaultPlaces,
      SolverPlaces, EnvPlaces, TalkPlaces, owners
<1>17. ASSUME NEW u \in Threads, LookEnvironment(u) PROVE FrameInv'
  BY <1>17
  DEF Goto, LookEnvironment, LifeInv, FrameInv, FrameOf, TypeOK, DefaultPlaces,
      SolverPlaces, EnvPlaces, owners
<1>18. ASSUME NEW u \in Threads, LockEnvironment(u) PROVE FrameInv'
  <2> SUFFICES ASSUME NEW t \in Threads PROVE FrameOf(t)'
    BY DEF FrameInv
  <2>1. CASE t = u
    BY <1>18, <2>1
    DEF Goto, LockEnvironment, LifeInv, FrameInv, FrameOf, TypeOK, DefaultPlaces,
        SolverPlaces, EnvPlaces, Hold
  <2>2. CASE t # u
    BY <1>18, <2>2
    DEF Goto, LockEnvironment, LifeInv, FrameInv, FrameOf, TypeOK, Hold, owners
  <2> QED
    BY <2>1, <2>2
<1>19. ASSUME NEW u \in Threads, Resolve(u) PROVE FrameInv'
  BY <1>19
  DEF Goto, Resolve, LifeInv, FrameInv, FrameOf, TypeOK, DefaultPlaces, SolverPlaces,
      EnvPlaces, owners
<1>20. ASSUME NEW u \in Threads, ResolveFails(u) PROVE FrameInv'
  BY <1>20
  DEF Goto, ResolveFails, Hold, Leave, LifeInv, FrameInv, FrameOf, TypeOK, DefaultPlaces,
      SolverPlaces, EnvPlaces, TalkPlaces, owners
<1>21. ASSUME NEW u \in Threads, Begin(u) PROVE FrameInv'
  <2> PICK o \in Ops : /\ op' = [op EXCEPT ![u] = o]
                       /\ Hold(u, FirstClient(o))
                       /\ Goto(u, FirstPlace(o))
    BY <1>21 DEF Begin
  <2> SUFFICES ASSUME NEW t \in Threads PROVE FrameOf(t)'
    BY DEF FrameInv
  <2>1. CASE t = u
    <3>1. op'[t] = o /\ todo'[t] = Checks
      BY <1>21, <2>1 DEF LifeInv, TypeOK, Begin
    <3>2. client'[t] = FirstClient(o)
      BY <2>1 DEF LifeInv, TypeOK, Hold
    <3>3. pc'[t] = FirstPlace(o)
      BY <2>1 DEF LifeInv, TypeOK, Goto
    <3> QED
      BY <3>1, <3>2, <3>3
      DEF FrameOf, FirstPlace, FirstClient, AllOps, Provers, Kept, EnvPlaces, TalkPlaces
  <2>2. CASE t # u
    BY <1>21, <2>2 DEF Goto, Begin, LifeInv, FrameInv, FrameOf, TypeOK, Hold, owners
  <2> QED
    BY <2>1, <2>2
<1>22. ASSUME NEW p \in alive, Die(p) PROVE FrameInv'
  BY <1>22 DEF Die, LifeInv, FrameInv, FrameOf, TypeOK, owners, frame
<1>23. ASSUME NEW d \in Clients, Finalize(d) PROVE FrameInv'
  BY <1>23 DEF Finalize, LifeInv, FrameInv, FrameOf, TypeOK, owners, frame
<1>24. CASE UNCHANGED vars
  BY <1>24 DEF LifeInv, FrameInv, FrameOf, TypeOK, vars, owners, frame
<1> QED
  BY <1>1, <1>2, <1>3, <1>4, <1>5, <1>6, <1>7, <1>8, <1>9, <1>10, <1>11, <1>12, <1>13,
     <1>14, <1>15, <1>16, <1>17, <1>18, <1>19, <1>20, <1>21, <1>22, <1>23, <1>24
  DEF Next, Continue, Default, Owned, Talk, Environment, Quiescent

LEMMA DefaultStep == LifeInv /\ DefaultInv /\ [Next]_vars => DefaultInv'
<1> SUFFICES ASSUME LifeInv, DefaultInv, [Next]_vars PROVE DefaultInv'
  OBVIOUS
<1> USE LifetimeAssumption
<1>1. ASSUME NEW u \in Threads, EnterDefault(u) PROVE DefaultInv'
  <2>1. ASSUME NEW t \in Threads, pc'[t] = "new_default" PROVE proverLock' = t /\ prover' = 0
    BY <1>1, <2>1
    DEF Goto, EnterDefault, LifeInv, DefaultInv, OneDefaultClient, TypeOK, Hold
  <2>2. ASSUME NEW t \in Threads, op'[t] = "prove", client'[t] # 0
        PROVE  client'[t] \in taken' \cup {prover'}
    <3>1. CASE t = u
      BY <1>1, <2>2, <3>1
      DEF EnterDefault, LifeInv, DefaultInv, OneDefaultClient, TypeOK, Hold
    <3>2. CASE t # u
      BY <1>1, <2>2, <3>2
      DEF EnterDefault, LifeInv, DefaultInv, OneDefaultClient, TypeOK, Hold
    <3> QED
      BY <3>1, <3>2
  <2> QED
    BY <2>1, <2>2 DEF DefaultInv, OneDefaultClient
<1>2. ASSUME NEW u \in Threads, NewDefault(u) PROVE DefaultInv'
  BY <1>2 DEF Goto, NewDefault, Hold, LifeInv, DefaultInv, OneDefaultClient, TypeOK
<1>3. ASSUME NEW u \in Threads, TakeDefault(u) PROVE DefaultInv'
  <2>1. ASSUME NEW t \in Threads, pc'[t] = "new_default" PROVE proverLock' = t /\ prover' = 0
    BY <1>3, <2>1
    DEF Goto, TakeDefault, Leave, LifeInv, DefaultInv, OneDefaultClient, TypeOK, Hold
  <2>2. ASSUME NEW t \in Threads, op'[t] = "prove", client'[t] # 0
        PROVE  client'[t] \in taken' \cup {prover'}
    <3>1. CASE t = u
      BY <1>3, <2>2, <3>1
      DEF TakeDefault, Leave, LifeInv, DefaultInv, OneDefaultClient, TypeOK, Hold
    <3>2. CASE t # u
      BY <1>3, <2>2, <3>2
      DEF TakeDefault, Leave, LifeInv, DefaultInv, OneDefaultClient, TypeOK, Hold
    <3> QED
      BY <3>1, <3>2
  <2> QED
    BY <2>1, <2>2 DEF DefaultInv, OneDefaultClient
<1>4. ASSUME NEW u \in Threads, Close(u) PROVE DefaultInv'
  BY <1>4 DEF Goto, Close, Hold, Leave, Closed, DefaultInv, OneDefaultClient, owners
<1>5. ASSUME NEW u \in Threads, LookSolver(u) PROVE DefaultInv'
  BY <1>5 DEF LookSolver, Goto, DefaultInv, OneDefaultClient, owners
<1>6. ASSUME NEW u \in Threads, NewSolver(u) PROVE DefaultInv'
  BY <1>6 DEF NewSolver, Goto, LifeInv, DefaultInv, OneDefaultClient, TypeOK
<1>7. ASSUME NEW u \in Threads, TakeSolver(u) PROVE DefaultInv'
  BY <1>7 DEF TakeSolver, Goto, DefaultInv, OneDefaultClient, owners
<1>8. ASSUME NEW u \in Threads, LookClient(u) PROVE DefaultInv'
  BY <1>8 DEF LookClient, Goto, DefaultInv, OneDefaultClient, owners
<1>9. ASSUME NEW u \in Threads, NewClient(u) PROVE DefaultInv'
  <2>1. ASSUME NEW t \in Threads, pc'[t] = "new_default" PROVE proverLock' = t /\ prover' = 0
    BY <1>9, <2>1 DEF Goto, NewClient, LifeInv, DefaultInv, OneDefaultClient, TypeOK, Hold
  <2>2. ASSUME NEW t \in Threads, op'[t] = "prove", client'[t] # 0
        PROVE  client'[t] \in taken' \cup {prover'}
    <3>1. CASE t = u
      BY <1>9, <2>2, <3>1 DEF NewClient, LifeInv, DefaultInv, OneDefaultClient, TypeOK
    <3>2. CASE t # u
      BY <1>9, <2>2, <3>2 DEF NewClient, LifeInv, DefaultInv, OneDefaultClient, TypeOK, Hold
    <3> QED
      BY <3>1, <3>2
  <2> QED
    BY <2>1, <2>2 DEF DefaultInv, OneDefaultClient
<1>10. ASSUME NEW u \in Threads, TakeClient(u) PROVE DefaultInv'
  BY <1>10
  DEF Goto, TakeClient, Hold, LifeInv, DefaultInv, OneDefaultClient, PlaceInv, PlaceOf,
      TypeOK, SolverPlaces, owners
<1>11. ASSUME NEW u \in Threads, Shake(u) PROVE DefaultInv'
  BY <1>11 DEF Goto, Shake, EnsureSession, Running, DefaultInv, OneDefaultClient, owners
<1>12. ASSUME NEW u \in Threads, Describe(u) PROVE DefaultInv'
  BY <1>12 DEF Describe, Goto, DefaultInv, OneDefaultClient, owners
<1>13. ASSUME NEW u \in Threads, Check(u) PROVE DefaultInv'
  BY <1>13
  DEF Goto, Check, EnsureSession, Running, LastStep, DefaultInv, OneDefaultClient, owners
<1>14. ASSUME NEW u \in Threads, SpawnFails(u) PROVE DefaultInv'
  BY <1>14 DEF Goto, SpawnFails, Hold, Leave, Running, DefaultInv, OneDefaultClient, owners
<1>15. ASSUME NEW u \in Threads, CallFails(u) PROVE DefaultInv'
  BY <1>15
  DEF Goto, CallFails, Hold, Leave, Closed, Running, DefaultInv, OneDefaultClient, owners
<1>16. ASSUME NEW u \in Threads, Return(u) PROVE DefaultInv'
  BY <1>16 DEF Goto, Return, Hold, Leave, DefaultInv, OneDefaultClient, owners
<1>17. ASSUME NEW u \in Threads, LookEnvironment(u) PROVE DefaultInv'
  BY <1>17 DEF LookEnvironment, Goto, DefaultInv, OneDefaultClient, owners
<1>18. ASSUME NEW u \in Threads, LockEnvironment(u) PROVE DefaultInv'
  BY <1>18 DEF Goto, LockEnvironment, LifeInv, DefaultInv, OneDefaultClient, TypeOK, owners
<1>19. ASSUME NEW u \in Threads, Resolve(u) PROVE DefaultInv'
  BY <1>19 DEF Resolve, Goto, DefaultInv, OneDefaultClient, owners
<1>20. ASSUME NEW u \in Threads, ResolveFails(u) PROVE DefaultInv'
  BY <1>20 DEF Goto, ResolveFails, Hold, Leave, DefaultInv, OneDefaultClient, owners
<1>21. ASSUME NEW u \in Threads, Begin(u) PROVE DefaultInv'
  <2> PICK o \in Ops : /\ op' = [op EXCEPT ![u] = o]
                       /\ Hold(u, FirstClient(o))
                       /\ Goto(u, FirstPlace(o))
    BY <1>21 DEF Begin
  <2>1. /\ op' = [op EXCEPT ![u] = o] /\ pc'[u] # "new_default"
        /\ o = "prove" => client'[u] = 0
    BY DEF LifeInv, TypeOK, Goto, Hold, FirstPlace, FirstClient, AllOps, Provers
  <2>2. ASSUME NEW t \in Threads, pc'[t] = "new_default" PROVE proverLock' = t /\ prover' = 0
    BY <1>21, <2>1, <2>2
    DEF Goto, Begin, LifeInv, DefaultInv, OneDefaultClient, TypeOK, Hold, owners
  <2>3. ASSUME NEW t \in Threads, op'[t] = "prove", client'[t] # 0
        PROVE  client'[t] \in taken' \cup {prover'}
    <3>1. CASE t = u
      BY <2>1, <2>3, <3>1 DEF LifeInv, TypeOK
    <3>2. CASE t # u
      BY <1>21, <2>3, <3>2 DEF Begin, DefaultInv, OneDefaultClient, Goto, Hold, owners
    <3> QED
      BY <3>1, <3>2
  <2> QED
    BY <2>2, <2>3 DEF DefaultInv, OneDefaultClient
<1>22. ASSUME NEW p \in alive, Die(p) PROVE DefaultInv'
  BY <1>22 DEF Die, DefaultInv, OneDefaultClient, vars, owners, frame
<1>23. ASSUME NEW d \in Clients, Finalize(d) PROVE DefaultInv'
  BY <1>23 DEF Finalize, DefaultInv, OneDefaultClient, vars, owners, frame
<1>24. CASE UNCHANGED vars
  BY <1>24 DEF DefaultInv, OneDefaultClient, vars, owners, frame
<1> QED
  BY <1>1, <1>2, <1>3, <1>4, <1>5, <1>6, <1>7, <1>8, <1>9, <1>10, <1>11, <1>12, <1>13,
     <1>14, <1>15, <1>16, <1>17, <1>18, <1>19, <1>20, <1>21, <1>22, <1>23, <1>24
  DEF Next, Continue, Default, Owned, Talk, Environment, Quiescent

LEMMA CacheStep == LifeInv /\ CacheInv /\ [Next]_vars => CacheInv'
<1> SUFFICES ASSUME LifeInv, CacheInv, [Next]_vars PROVE CacheInv'
  OBVIOUS
<1> USE LifetimeAssumption
<1>1. ASSUME NEW u \in Threads, EnterDefault(u) PROVE CacheInv'
  <2>1. UNCHANGED envs
    BY <1>1 DEF EnterDefault
  <2>2. \A t \in Threads : /\ pc'[t] = "resolve" => pc[t] = "resolve"
                           /\ pc'[t] = "give_env" => pc[t] = "give_env" /\ client'[t] = client[t]
    BY <1>1 DEF LifeInv, TypeOK, EnterDefault, Goto, Hold
  <2> QED
    BY <2>1, <2>2 DEF CacheInv, ResolvedOnce, EnvironmentGiven, envs
<1>2. ASSUME NEW u \in Threads, NewDefault(u) PROVE CacheInv'
  <2>1. UNCHANGED envs
    BY <1>2 DEF NewDefault
  <2>2. \A t \in Threads : /\ pc'[t] = "resolve" => pc[t] = "resolve"
                           /\ pc'[t] = "give_env" => pc[t] = "give_env" /\ client'[t] = client[t]
    BY <1>2 DEF LifeInv, TypeOK, NewDefault, Goto, Hold
  <2> QED
    BY <2>1, <2>2 DEF CacheInv, ResolvedOnce, EnvironmentGiven, envs
<1>3. ASSUME NEW u \in Threads, TakeDefault(u) PROVE CacheInv'
  <2>1. UNCHANGED envs
    BY <1>3 DEF TakeDefault, Leave
  <2>2. \A t \in Threads : /\ pc'[t] = "resolve" => pc[t] = "resolve"
                           /\ pc'[t] = "give_env" => pc[t] = "give_env" /\ client'[t] = client[t]
    BY <1>3 DEF LifeInv, TypeOK, TakeDefault, Leave, Goto, Hold
  <2> QED
    BY <2>1, <2>2 DEF CacheInv, ResolvedOnce, EnvironmentGiven, envs
<1>4. ASSUME NEW u \in Threads, Close(u) PROVE CacheInv'
  BY <1>4
  DEF Goto, Close, Hold, Leave, Closed, CacheInv, ResolvedOnce, EnvironmentGiven, envs
<1>5. ASSUME NEW u \in Threads, LookSolver(u) PROVE CacheInv'
  BY <1>5 DEF LookSolver, Goto, CacheInv, ResolvedOnce, EnvironmentGiven, envs
<1>6. ASSUME NEW u \in Threads, NewSolver(u) PROVE CacheInv'
  BY <1>6 DEF NewSolver, Goto, CacheInv, ResolvedOnce, EnvironmentGiven, envs
<1>7. ASSUME NEW u \in Threads, TakeSolver(u) PROVE CacheInv'
  BY <1>7 DEF TakeSolver, Goto, CacheInv, ResolvedOnce, EnvironmentGiven, envs
<1>8. ASSUME NEW u \in Threads, LookClient(u) PROVE CacheInv'
  BY <1>8 DEF LookClient, Goto, CacheInv, ResolvedOnce, EnvironmentGiven, envs
<1>9. ASSUME NEW u \in Threads, NewClient(u) PROVE CacheInv'
  <2>1. UNCHANGED envs
    BY <1>9 DEF NewClient
  <2>2. \A t \in Threads : /\ pc'[t] = "resolve" => pc[t] = "resolve"
                           /\ pc'[t] = "give_env" => pc[t] = "give_env" /\ client'[t] = client[t]
    BY <1>9 DEF LifeInv, TypeOK, NewClient, Goto, Hold
  <2> QED
    BY <2>1, <2>2 DEF CacheInv, ResolvedOnce, EnvironmentGiven, envs
<1>10. ASSUME NEW u \in Threads, TakeClient(u) PROVE CacheInv'
  <2>1. UNCHANGED envs
    BY <1>10 DEF TakeClient
  <2>2. \A t \in Threads : /\ pc'[t] = "resolve" => pc[t] = "resolve"
                           /\ pc'[t] = "give_env" => pc[t] = "give_env" /\ client'[t] = client[t]
    BY <1>10 DEF LifeInv, TypeOK, TakeClient, Goto, Hold
  <2> QED
    BY <2>1, <2>2 DEF CacheInv, ResolvedOnce, EnvironmentGiven, envs
<1>11. ASSUME NEW u \in Threads, Shake(u) PROVE CacheInv'
  BY <1>11
  DEF Goto, Shake, EnsureSession, Running, CacheInv, ResolvedOnce, EnvironmentGiven, envs
<1>12. ASSUME NEW u \in Threads, Describe(u) PROVE CacheInv'
  BY <1>12 DEF Describe, Goto, CacheInv, ResolvedOnce, EnvironmentGiven, envs
<1>13. ASSUME NEW u \in Threads, Check(u) PROVE CacheInv'
  BY <1>13
  DEF Goto, Check, EnsureSession, Running, LastStep, CacheInv, ResolvedOnce,
      EnvironmentGiven, envs
<1>14. ASSUME NEW u \in Threads, SpawnFails(u) PROVE CacheInv'
  BY <1>14
  DEF Goto, SpawnFails, Hold, Leave, Running, CacheInv, ResolvedOnce, EnvironmentGiven,
      envs
<1>15. ASSUME NEW u \in Threads, CallFails(u) PROVE CacheInv'
  BY <1>15
  DEF Goto, CallFails, Hold, Leave, Closed, Running, CacheInv, ResolvedOnce,
      EnvironmentGiven, envs
<1>16. ASSUME NEW u \in Threads, Return(u) PROVE CacheInv'
  BY <1>16
  DEF Goto, Return, Hold, Leave, LifeInv, CacheInv, ResolvedOnce, EnvironmentGiven,
      TypeOK, envs
<1>17. ASSUME NEW u \in Threads, LookEnvironment(u) PROVE CacheInv'
  BY <1>17 DEF LookEnvironment, Goto, CacheInv, ResolvedOnce, EnvironmentGiven, envs
<1>18. ASSUME NEW u \in Threads, LockEnvironment(u) PROVE CacheInv'
  BY <1>18
  DEF Goto, LockEnvironment, LifeInv, CacheInv, ResolvedOnce, EnvironmentGiven, FrameInv,
      FrameOf, TypeOK, EnvPlaces
<1>19. ASSUME NEW u \in Threads, Resolve(u) PROVE CacheInv'
  BY <1>19
  DEF Goto, Resolve, LifeInv, CacheInv, ResolvedOnce, EnvironmentGiven, FrameInv, FrameOf,
      TypeOK, EnvPlaces
<1>20. ASSUME NEW u \in Threads, ResolveFails(u) PROVE CacheInv'
  BY <1>20
  DEF Goto, ResolveFails, Hold, Leave, LifeInv, CacheInv, ResolvedOnce, EnvironmentGiven,
      TypeOK
<1>21. ASSUME NEW u \in Threads, Begin(u) PROVE CacheInv'
  BY <1>21
  DEF Goto, Begin, FirstPlace, Hold, CacheInv, ResolvedOnce, EnvironmentGiven, Provers, AllOps, envs
<1>22. ASSUME NEW p \in alive, Die(p) PROVE CacheInv'
  BY <1>22 DEF Die, CacheInv, ResolvedOnce, EnvironmentGiven, envs, frame
<1>23. ASSUME NEW d \in Clients, Finalize(d) PROVE CacheInv'
  BY <1>23 DEF Finalize, CacheInv, ResolvedOnce, EnvironmentGiven, envs, frame
<1>24. CASE UNCHANGED vars
  BY <1>24 DEF CacheInv, ResolvedOnce, EnvironmentGiven, vars, envs, frame
<1> QED
  BY <1>1, <1>2, <1>3, <1>4, <1>5, <1>6, <1>7, <1>8, <1>9, <1>10, <1>11, <1>12, <1>13,
     <1>14, <1>15, <1>16, <1>17, <1>18, <1>19, <1>20, <1>21, <1>22, <1>23, <1>24
  DEF Next, Continue, Default, Owned, Talk, Environment, Quiescent

(* No client goes back from its environment to the program. *)
LEMMA EnvironmentStays ==
    ASSUME LifeInv, CacheInv, [Next]_vars
    PROVE  \A c \in Clients : environment'[c] = 0 => environment[c] = 0
<1>1. ASSUME NEW u \in Threads, LockEnvironment(u)
      PROVE  \A c \in Clients : environment'[c] = 0 => environment[c] = 0
  BY <1>1 DEF LockEnvironment, CacheInv, ResolvedOnce, LifeInv, TypeOK
<1>2. ASSUME NEW u \in Threads, Resolve(u)
      PROVE  \A c \in Clients : environment'[c] = 0 => environment[c] = 0
  BY <1>2 DEF Resolve, LifeInv, TypeOK
<1>3. CASE UNCHANGED environment
  BY <1>3
<1>4. \/ \E u \in Threads : LockEnvironment(u) \/ Resolve(u)
      \/ UNCHANGED environment
  BY DEF Next, Continue, Default, Owned, Talk, Environment, Quiescent, Begin, EnterDefault,
         NewDefault, TakeDefault, Close, LookSolver, NewSolver, TakeSolver, LookClient, NewClient,
         TakeClient, Shake, Describe, Check, SpawnFails, CallFails, Return, LookEnvironment,
         ResolveFails, Die, Finalize, vars, envs
<1> QED
  BY <1>1, <1>2, <1>3, <1>4

(* The actions that change a session, a contract, a program or a route. *)
LEMMA BridgeSteps ==
    ASSUME [Next]_vars
    PROVE  \/ UNCHANGED <<session, contracted, program, routes>>
           \/ \E u \in Threads : \/ Close(u) \/ Shake(u) \/ Check(u)
                                 \/ SpawnFails(u) \/ CallFails(u)
           \/ \E c \in Clients : Finalize(c)
  BY DEF Next, Continue, Default, Owned, Talk, Environment, Quiescent, Begin, EnterDefault,
         NewDefault, TakeDefault, LookSolver, NewSolver, TakeSolver, LookClient, NewClient,
         TakeClient, Describe, Return, LookEnvironment, LockEnvironment, Resolve,
         ResolveFails, Die, vars, bridges

(* What EnsureSession does to the records of clients and processes. *)
LEMMA EnsureRoutes ==
    ASSUME LifeInv, ClientRoutes, NEW c \in Clients, EnsureSession(c)
    PROVE  /\ \A p \in Processes : routes'[p] = routes[p]
           /\ \A d \in Clients : program[d] => program'[d]
           /\ \A d \in Clients \ {c} : session'[d] = session[d]
           /\ environment[c] = 0 => program'[c] /\ routes'[session'[c]] = "program"
<1>1. CASE Running(c)
  <2>1. session[c] # 0
    BY <1>1 DEF Running, LifeInv, TypeOK, Processes
  <2> QED
    BY <1>1, <2>1 DEF EnsureSession, ClientRoutes, RouteOf
<1>2. CASE ~Running(c)
  <2> DEFINE route == IF environment[c] = 0 THEN "program" ELSE "environment"
  <2>1. /\ routes' = Append(routes, route)
        /\ session' = [session EXCEPT ![c] = Len(routes) + 1]
        /\ program' = [program EXCEPT ![c] = @ \/ route = "program"]
    BY <1>2 DEF EnsureSession
  <2>2. environment[c] = 0 => route = "program"
    OBVIOUS
  <2>3. route \in Routes
    BY DEF Routes
  <2> HIDE DEF route
  <2>4. /\ \A p \in Processes : routes'[p] = routes[p]
        /\ routes'[Len(routes) + 1] = route
    BY <2>1, <2>3 DEF LifeInv, TypeOK, Processes
  <2>5. \A d \in Clients : program[d] => program'[d]
    BY <2>1, Zenon DEF LifeInv, TypeOK
  <2>6. route = "program" => program'[c]
    BY <2>1, Zenon DEF LifeInv, TypeOK
  <2>7. session'[c] = Len(routes) + 1 /\ \A d \in Clients \ {c} : session'[d] = session[d]
    BY <2>1 DEF LifeInv, TypeOK
  <2> QED
    BY <2>2, <2>4, <2>5, <2>6, <2>7
<1> QED
  BY <1>1, <1>2

(* Nothing of what was spawned or downloaded is forgotten. *)
LEMMA RoutesStay ==
    ASSUME LifeInv, ClientRoutes, [Next]_vars
    PROVE  /\ \A p \in Processes : routes'[p] = routes[p]
           /\ \A c \in Clients : program[c] => program'[c]
<1> DEFINE Stay == /\ \A p \in Processes : routes'[p] = routes[p]
                   /\ \A c \in Clients : program[c] => program'[c]
<1>1. CASE UNCHANGED <<session, contracted, program, routes>>
  BY <1>1
<1>2. ASSUME NEW u \in Threads, Close(u) \/ SpawnFails(u) \/ CallFails(u) PROVE Stay
  BY <1>2 DEF Close, SpawnFails, CallFails, Closed
<1>3. ASSUME NEW u \in Threads, Shake(u) PROVE Stay
  <2>1. client[u] \in Clients
    BY <1>3 DEF LifeInv, FrameInv, FrameOf, TypeOK, Shake, TalkPlaces
  <2>2. UNCHANGED <<program, routes>> \/ EnsureSession(client[u])
    BY <1>3 DEF Shake, bridges
  <2> QED
    BY <2>1, <2>2, EnsureRoutes
<1>4. ASSUME NEW u \in Threads, Check(u) PROVE Stay
  <2>1. client[u] \in Clients
    BY <1>4 DEF LifeInv, FrameInv, FrameOf, TypeOK, Check, TalkPlaces
  <2> QED
    BY <1>4, <2>1, EnsureRoutes DEF Check
<1>5. ASSUME NEW c \in Clients, Finalize(c) PROVE Stay
  BY <1>5 DEF Finalize, Closed
<1> QED
  BY <1>1, <1>2, <1>3, <1>4, <1>5, BridgeSteps

LEMMA ClientRoutesStep ==
    ASSUME LifeInv, CacheInv, RouteInv, [Next]_vars
    PROVE  ClientRoutes'
<1> SUFFICES ASSUME NEW c \in Clients, environment'[c] = 0
             PROVE  /\ session'[c] # 0 \/ contracted'[c] => program'[c]
                    /\ session'[c] # 0 => routes'[session'[c]] = "program"
  BY DEF ClientRoutes, RouteOf
<1>1. environment[c] = 0
  BY EnvironmentStays
<1>2. /\ session[c] # 0 \/ contracted[c] => program[c]
      /\ session[c] # 0 => routes[session[c]] = "program"
  BY <1>1 DEF RouteInv, ClientRoutes, RouteOf
<1>3. program[c] => program'[c]
  BY RoutesStay DEF RouteInv
<1>4. session[c] # 0 => routes'[session[c]] = "program"
  BY <1>2, RoutesStay DEF RouteInv, LifeInv, TypeOK
<1> DEFINE Kept2 == session'[c] \in {0, session[c]} /\ (contracted'[c] => contracted[c])
<1>5. CASE Kept2
  BY <1>2, <1>3, <1>4, <1>5
<1>6. CASE UNCHANGED <<session, contracted, program, routes>>
  BY <1>5, <1>6
<1>7. ASSUME NEW u \in Threads, Close(u) \/ SpawnFails(u) \/ CallFails(u) PROVE Kept2
  BY <1>7 DEF Close, SpawnFails, CallFails, Closed, LifeInv, TypeOK
<1>8. ASSUME NEW d \in Clients, Finalize(d) PROVE Kept2
  BY <1>8 DEF Finalize, Closed, LifeInv, TypeOK
<1>9. ASSUME NEW u \in Threads, client[u] \in Clients, EnsureSession(client[u]),
             \A d \in Clients \ {client[u]} : contracted'[d] = contracted[d]
      PROVE  /\ session'[c] # 0 \/ contracted'[c] => program'[c]
             /\ session'[c] # 0 => routes'[session'[c]] = "program"
  <2>1. CASE c = client[u]
    BY <1>1, <1>9, <2>1, EnsureRoutes DEF RouteInv
  <2>2. CASE c # client[u]
    <3>1. Kept2
      BY <1>9, <2>2, EnsureRoutes DEF RouteInv
    <3> QED
      BY <1>5, <3>1
  <2> QED
    BY <2>1, <2>2
<1>10. ASSUME NEW u \in Threads, Shake(u)
       PROVE  /\ session'[c] # 0 \/ contracted'[c] => program'[c]
              /\ session'[c] # 0 => routes'[session'[c]] = "program"
  <2>1. client[u] \in Clients
    BY <1>10 DEF LifeInv, FrameInv, FrameOf, TypeOK, Shake, TalkPlaces
  <2>2. CASE contracted[client[u]]
    BY <1>5, <1>10, <2>2 DEF Shake, bridges
  <2>3. CASE ~contracted[client[u]]
    <3>1. /\ EnsureSession(client[u])
          /\ \A d \in Clients \ {client[u]} : contracted'[d] = contracted[d]
      BY <1>10, <2>3 DEF Shake, LifeInv, TypeOK
    <3> QED
      BY <1>9, <2>1, <3>1
  <2> QED
    BY <2>2, <2>3
<1>11. ASSUME NEW u \in Threads, Check(u)
       PROVE  /\ session'[c] # 0 \/ contracted'[c] => program'[c]
              /\ session'[c] # 0 => routes'[session'[c]] = "program"
  <2>1. client[u] \in Clients
    BY <1>11 DEF LifeInv, FrameInv, FrameOf, TypeOK, Check, TalkPlaces
  <2>2. /\ EnsureSession(client[u])
          /\ \A d \in Clients \ {client[u]} : contracted'[d] = contracted[d]
    BY <1>11 DEF Check, LifeInv, TypeOK
  <2> QED
    BY <1>9, <2>1, <2>2
<1> QED
  BY <1>5, <1>6, <1>7, <1>8, <1>10, <1>11, BridgeSteps

(* A thread that does nothing is not affected by what others do. *)
LEMMA RanFromStays ==
    ASSUME LifeInv, CacheInv, RouteInv, [Next]_vars, NEW t \in Threads,
           pc'[t] = pc[t], op'[t] = op[t], client'[t] = client[t],
           ran'[t] = ran[t], told'[t] = told[t]
    PROVE  RanFrom(t)'
<1>1. RanFrom(t)
  BY DEF RouteInv, ThreadRoutes
<1>2. client[t] # 0 => client[t] \in Clients
  BY DEF LifeInv, TypeOK
<1>3. client'[t] # 0 /\ environment'[client'[t]] = 0 => environment[client[t]] = 0
  BY <1>2, EnvironmentStays
<1>4. \A p \in ran[t] : routes'[p] = routes[p]
  BY RoutesStay DEF RouteInv, LifeInv, TypeOK
<1>5. client[t] # 0 /\ program[client[t]] => program'[client[t]]
  BY <1>2, RoutesStay DEF RouteInv
<1> QED
  BY <1>1, <1>3, <1>4, <1>5 DEF RanFrom

LEMMA LeftNothing ==
    ASSUME LifeInv, NEW t \in Threads, Leave(t)
    PROVE  RanFrom(t)'
  BY DEF LifeInv, TypeOK, Leave, Goto, Hold, RanFrom, TalkPlaces

(* A thread that talks to nobody yet has nothing to tell. *)
LEMMA NothingRan ==
    ASSUME LifeInv, RouteInv, NEW t \in Threads, pc[t] \notin TalkPlaces, ran' = ran,
           pc'[t] \notin {"describe", "done"}, pc'[t] = "check" => op'[t] \notin Provers
    PROVE  RanFrom(t)'
  BY DEF RouteInv, ThreadRoutes, RanFrom


LEMMA ThreadRoutesStep ==
    ASSUME LifeInv, CacheInv, RouteInv, [Next]_vars
    PROVE  ThreadRoutes'
<1> SUFFICES ASSUME NEW t \in Threads PROVE RanFrom(t)'
  BY DEF ThreadRoutes
<1> DEFINE Idle  == /\ pc'[t] = pc[t] /\ op'[t] = op[t] /\ client'[t] = client[t]
                    /\ ran'[t] = ran[t] /\ told'[t] = told[t]
           Quiet == /\ pc[t] \notin TalkPlaces /\ ran' = ran
                    /\ pc'[t] \notin {"describe", "done"}
                    /\ pc'[t] = "check" => op'[t] \notin Provers
<1>1. CASE Idle
  BY <1>1, RanFromStays
<1>2. CASE Quiet
  BY <1>2, NothingRan
<1>3. CASE Leave(t)
  BY <1>3, LeftNothing
<1>4. ASSUME NEW u \in Threads, EnterDefault(u) PROVE Idle \/ Quiet
  BY <1>4 DEF EnterDefault, Goto, Hold, LifeInv, TypeOK, TalkPlaces, result
<1>5. ASSUME NEW u \in Threads, NewDefault(u) PROVE Idle \/ Quiet
  BY <1>5 DEF NewDefault, Goto, Hold, LifeInv, TypeOK, TalkPlaces, result
<1>6. ASSUME NEW u \in Threads, TakeDefault(u) PROVE Idle \/ Leave(t) \/ Quiet
  <2>1. CASE Leave(u)
    BY <2>1 DEF Leave, Goto, Hold, LifeInv, TypeOK
  <2>2. CASE ~Leave(u)
    BY <1>6, <2>2 DEF TakeDefault, Goto, Hold, LifeInv, TypeOK, TalkPlaces, result
  <2> QED
    BY <2>1, <2>2
<1>7. ASSUME NEW u \in Threads, Close(u) PROVE Idle \/ Leave(t)
  BY <1>7 DEF Close, Leave, Goto, Hold, LifeInv, TypeOK
<1>8. ASSUME NEW u \in Threads, LookSolver(u) PROVE Idle \/ Quiet
  BY <1>8 DEF LookSolver, Goto, Hold, LifeInv, TypeOK, TalkPlaces, result
<1>9. ASSUME NEW u \in Threads, NewSolver(u) PROVE Idle \/ Quiet
  BY <1>9 DEF NewSolver, Goto, Hold, LifeInv, TypeOK, TalkPlaces, result
<1>10. ASSUME NEW u \in Threads, TakeSolver(u) PROVE Idle \/ Quiet
  BY <1>10 DEF TakeSolver, Goto, Hold, LifeInv, TypeOK, TalkPlaces, result
<1>11. ASSUME NEW u \in Threads, LookClient(u) PROVE Idle \/ Quiet
  BY <1>11 DEF LookClient, Goto, Hold, LifeInv, TypeOK, TalkPlaces, result
<1>12. ASSUME NEW u \in Threads, NewClient(u) PROVE Idle \/ Quiet
  BY <1>12 DEF NewClient, Goto, Hold, LifeInv, TypeOK, TalkPlaces, result
<1>13. ASSUME NEW u \in Threads, TakeClient(u) PROVE Idle \/ Quiet
  <2>1. pc[u] = "take_client" /\ op[u] = "solve" /\ op' = op
    BY <1>13 DEF TakeClient, LifeInv, PlaceInv, PlaceOf, SolverPlaces
  <2> QED
    BY <1>13, <2>1 DEF TakeClient, Goto, Hold, LifeInv, TypeOK, TalkPlaces, Provers, result
<1>14. ASSUME NEW u \in Threads, Shake(u), ~Idle PROVE RanFrom(t)'
  <2>1. t = u /\ pc[t] = "shake" /\ pc'[t] = "describe" /\ UNCHANGED <<client, environment, ran>>
    BY <1>14 DEF Shake, Goto, LifeInv, TypeOK, result, envs
  <2>2. client[t] \in Clients /\ client[t] # 0
    BY <2>1 DEF LifeInv, FrameInv, FrameOf, TypeOK, TalkPlaces
  <2>3. environment[client[t]] = 0 => \A p \in ran[t] : routes'[p] = "program"
    BY <2>2, RoutesStay DEF RouteInv, ThreadRoutes, RanFrom, LifeInv, TypeOK
  <2>4. contracted'[client[t]]
    BY <1>14, <2>1, <2>2 DEF Shake, LifeInv, TypeOK, bridges
  <2>5. environment[client[t]] = 0 => program'[client[t]]
    BY <2>1, <2>2, <2>4, ClientRoutesStep DEF ClientRoutes, RouteOf
  <2> QED
    BY <2>1, <2>2, <2>3, <2>5 DEF RanFrom, TalkPlaces
<1>15. ASSUME NEW u \in Threads, Describe(u), ~Idle PROVE RanFrom(t)'
  <2>1. t = u /\ pc[t] = "describe" /\ pc'[t] \in {"check", "done"}
    BY <1>15 DEF Describe, Goto, LifeInv, TypeOK
  <2>2. UNCHANGED <<client, environment, ran, routes>>
    BY <1>15 DEF Describe, envs, bridges
  <2>3. program[client[t]] => told'[t].route = "program"
    BY <1>15, <2>1 DEF Describe, LifeInv, TypeOK
  <2>4. client[t] # 0 /\ environment[client[t]] = 0 =>
          /\ \A p \in ran[t] : routes[p] = "program"
          /\ program[client[t]]
    BY <2>1 DEF RouteInv, ThreadRoutes, RanFrom
  <2>5. pc'[t] \in TalkPlaces /\ pc'[t] # "describe"
    BY <2>1 DEF TalkPlaces
  <2> QED
    BY <2>2, <2>3, <2>4, <2>5 DEF RanFrom
<1>16. ASSUME NEW u \in Threads, Check(u), ~Idle PROVE RanFrom(t)'
  <2>1. t = u /\ pc[t] = "check" /\ UNCHANGED <<client, environment, op, told>>
    BY <1>16 DEF Check, Goto, LifeInv, TypeOK, envs
  <2>2. client[t] \in Clients /\ client[t] # 0
    BY <2>1 DEF LifeInv, FrameInv, FrameOf, TypeOK, TalkPlaces
  <2>3. EnsureSession(client[t]) /\ ran'[t] = ran[t] \cup {session'[client[t]]}
    BY <1>16, <2>1 DEF Check, LifeInv, TypeOK
  <2>4. environment[client[t]] = 0 => \A p \in ran'[t] : routes'[p] = "program"
    <3>1. environment[client[t]] = 0 => \A p \in ran[t] : routes'[p] = "program"
      BY <2>2, RoutesStay DEF RouteInv, ThreadRoutes, RanFrom, LifeInv, TypeOK
    <3>2. environment[client[t]] = 0 => routes'[session'[client[t]]] = "program"
      BY <2>2, <2>3, EnsureRoutes DEF RouteInv
    <3> QED
      BY <2>3, <3>1, <3>2
  <2>5. \/ pc'[t] = "check"
        \/ pc'[t] = "shake" /\ op[t] \notin Provers
        \/ pc'[t] = "done" /\ op[t] \in Provers
    BY <1>16, <2>1 DEF Check, Goto, LastStep, LifeInv, TypeOK
  <2>6. environment[client[t]] = 0 /\ op[t] \in Provers => told[t].route = "program"
    BY <2>1, <2>2 DEF RouteInv, ThreadRoutes, RanFrom
  <2>7. pc'[t] \in TalkPlaces /\ pc'[t] # "describe"
    BY <2>5 DEF TalkPlaces
  <2> QED
    BY <2>1, <2>2, <2>4, <2>5, <2>6, <2>7 DEF RanFrom
<1>17. ASSUME NEW u \in Threads, SpawnFails(u) PROVE Idle \/ Leave(t)
  BY <1>17 DEF SpawnFails, Leave, Goto, Hold, LifeInv, TypeOK
<1>18. ASSUME NEW u \in Threads, CallFails(u) PROVE Idle \/ Leave(t)
  BY <1>18 DEF CallFails, Leave, Goto, Hold, LifeInv, TypeOK
<1>19. ASSUME NEW u \in Threads, Return(u) PROVE Idle \/ Leave(t)
  BY <1>19 DEF Return, Leave, Goto, Hold, LifeInv, TypeOK
<1>20. ASSUME NEW u \in Threads, LookEnvironment(u) PROVE Idle \/ Quiet
  BY <1>20 DEF LookEnvironment, Goto, Hold, LifeInv, TypeOK, TalkPlaces, result
<1>21. ASSUME NEW u \in Threads, LockEnvironment(u) PROVE Idle \/ Quiet
  BY <1>21 DEF LockEnvironment, Goto, Hold, LifeInv, TypeOK, TalkPlaces, result
<1>22. ASSUME NEW u \in Threads, Resolve(u) PROVE Idle \/ Quiet
  BY <1>22 DEF Resolve, Goto, Hold, LifeInv, TypeOK, TalkPlaces, result
<1>23. ASSUME NEW u \in Threads, ResolveFails(u) PROVE Idle \/ Leave(t)
  BY <1>23 DEF ResolveFails, Leave, Goto, Hold, LifeInv, TypeOK
<1>24. ASSUME NEW u \in Threads, Begin(u) PROVE Idle \/ Quiet
  <2>1. PICK o \in Ops : /\ op' = [op EXCEPT ![u] = o]
                       /\ Hold(u, FirstClient(o))
                       /\ Goto(u, FirstPlace(o))
    BY <1>24 DEF Begin
  <2>2. pc[u] = "idle" /\ UNCHANGED result
    BY <1>24 DEF Begin
  <2>3. CASE t # u
    BY <2>1, <2>2, <2>3 DEF Goto, Hold, LifeInv, TypeOK, result
  <2>4. CASE t = u
    <3>1. o \in AllOps
      BY LifetimeAssumption
    <3>2. op'[t] = o /\ pc'[t] \notin {"describe", "done"}
          /\ (pc'[t] = "check" => o = "verify_with")
      BY <2>1, <2>4, <3>1 DEF Goto, FirstPlace, LifeInv, TypeOK, AllOps, Provers
    <3> QED
      BY <2>2, <2>4, <3>2 DEF TalkPlaces, Provers, result
  <2> QED
    BY <2>3, <2>4
<1>25. ASSUME NEW p \in alive, Die(p) PROVE Idle
  BY <1>25 DEF Die, frame, result
<1>26. ASSUME NEW c \in Clients, Finalize(c) PROVE Idle
  BY <1>26 DEF Finalize, frame, result
<1>27. CASE UNCHANGED vars
  BY <1>1, <1>27 DEF vars, frame, result
<1> QED
  BY <1>1, <1>2, <1>3, <1>4, <1>5, <1>6, <1>7, <1>8, <1>9, <1>10, <1>11, <1>12, <1>13,
     <1>14, <1>15, <1>16, <1>17, <1>18, <1>19, <1>20, <1>21, <1>22, <1>23, <1>24, <1>25,
     <1>26, <1>27
  DEF Next, Continue, Default, Owned, Talk, Environment, Quiescent

-----------------------------------------------------------------------------
LEMMA LifeAlways == Spec => []LifeInv
<1>1. LifeInv /\ [Next]_vars => LifeInv'
  BY TypeStep, PlaceStep, FrameStep DEF LifeInv
<1> QED
  BY <1>1, LifeInit, PTL DEF Spec

(* The variables keep their types: every owner of a lock is a thread, every   *)
(* client in a frame was constructed, every process named by a session or a   *)
(* result was spawned.                                                        *)
THEOREM TypeOKAlways == Spec => []TypeOK
<1>1. LifeInv => TypeOK
  BY DEF LifeInv
<1> QED
  BY <1>1, LifeAlways, PTL

(* However many threads call prove and close_default_prove_client at once, a   *)
(* call of prove holds the default client, or one that was taken out to be     *)
(* closed: _DEFAULT_PROVE_CLIENT_LOCK suffices.                                *)
THEOREM OneDefaultClientAlways == Spec => []OneDefaultClient
<1>1. Init => DefaultInv
  BY DEF Init, DefaultInv, OneDefaultClient
<1>2. LifeInv /\ DefaultInv /\ [Next]_vars => DefaultInv'
  BY DefaultStep
<1>3. DefaultInv => OneDefaultClient
  BY DEF DefaultInv
<1> QED
  BY <1>1, <1>2, <1>3, LifeAlways, PTL DEF Spec

LEMMA CacheAlways == Spec => []CacheInv
<1>1. Init => CacheInv
  BY DEF Init, CacheInv, ResolvedOnce, EnvironmentGiven
<1>2. LifeInv /\ CacheInv /\ [Next]_vars => CacheInv'
  BY CacheStep
<1> QED
  BY <1>1, <1>2, LifeAlways, PTL DEF Spec

(* LeanClient.environment: the default environment is resolved at most once,   *)
(* by the thread that holds _DEFAULT_ENVIRONMENTS_LOCK and found no other.     *)
THEOREM ResolvedOnceAlways == Spec => []ResolvedOnce
<1>1. CacheInv => ResolvedOnce
  BY DEF CacheInv
<1> QED
  BY <1>1, CacheAlways, PTL

(* LeanClient.environment never returns None.                                  *)
THEOREM EnvironmentGivenAlways == Spec => []EnvironmentGiven
<1>1. CacheInv => EnvironmentGiven
  BY DEF CacheInv
<1> QED
  BY <1>1, CacheAlways, PTL

(* The default environment: resolved once, shared, and never given half made. *)
THEOREM EnvironmentSharedAlways == Spec => []EnvironmentShared
<1>1. ResolvedOnce /\ EnvironmentGiven => EnvironmentShared
  BY DEF EnvironmentShared
<1> QED BY <1>1, ResolvedOnceAlways, EnvironmentGivenAlways, PTL

(* bridge_provenance says the truth of how the processes of a result were      *)
(* started, however often they died and were replaced, as long as nobody asked *)
(* the client of the result for its environment; others may have theirs.       *)
THEOREM RouteIsTrueAlways == Spec => []RouteIsTrue
<1>1. Init => RouteInv
  BY DEF Init, RouteInv, ClientRoutes, ThreadRoutes, RouteOf, RanFrom, TalkPlaces
<1>2. LifeInv /\ CacheInv /\ RouteInv /\ [Next]_vars => RouteInv'
  BY ClientRoutesStep, ThreadRoutesStep DEF RouteInv
<1>3. LifeInv /\ RouteInv => RouteIsTrue
  <2> SUFFICES ASSUME LifeInv, RouteInv, NEW t \in Threads,
                      pc[t] = "done", environment[client[t]] = 0, NEW p \in ran[t]
               PROVE  told[t].route = routes[p]
    BY DEF RouteIsTrue
  <2>1. client[t] # 0
    BY DEF LifeInv, FrameInv, FrameOf, TalkPlaces
  <2> QED
    BY <2>1 DEF RouteInv, ThreadRoutes, RanFrom
<1> QED
  BY <1>1, <1>2, <1>3, LifeAlways, CacheAlways, PTL DEF Spec
=============================================================================
