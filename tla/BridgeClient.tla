---------------------------- MODULE BridgeClient ----------------------------
(***************************************************************************)
(* LeanClient of leancert/client.py: one Bridge process per client, reached *)
(* over line-delimited JSON, shared by the threads that hold the client.    *)
(*                                                                          *)
(* Bridge processes are numbered by generation: generation g is the g-th    *)
(* process this client spawned, 0 stands for Python's None.  A process is   *)
(* started from the client's pinned program, so all of them advertise the   *)
(* same operations (Advertised).  The process itself and lean_runtime's     *)
(* InteractiveSession are external: what they may do is Answer, Die and     *)
(* the failures in Faults.                                                  *)
(***************************************************************************)
EXTENDS Naturals, Sequences, FiniteSets

CONSTANTS
    Threads,     \* Python threads sharing the client
    NoThread,    \* _io_lock is free
    Methods,     \* the client methods the threads call
    Advertised,  \* operations the handshake of the pinned program advertises
    Faults,      \* what may go wrong: a subset of FaultKinds
    MaxCalls,    \* bound: calls begun by all threads together
    MaxDeaths,   \* bound: processes that die of themselves
    MaxEchoes    \* bound: answers the process prints twice

FaultKinds == {"error", "envelope", "garbage", "incompatible", "spawn", "encode"}

(* How the method treats its result once the lock is released. *)
DirectReaders   == {"check_bound", "check_strict_bound"}
PropertyReaders == {"verify_adaptive", "check_unique_system_root", "check_eventual_bound",
                    "check_scalar_root", "check_integral"}
PlainMethods    == {"eval_interval", "global_min", "integrate", "find_roots"}
Unguarded       == {"ping", "get_info"}
AllMethods      == DirectReaders \cup PropertyReaders \cup PlainMethods
                     \cup Unguarded \cup {"close"}

ASSUME ClientAssumption ==
    /\ NoThread \notin Threads
    /\ Methods \subseteq AllMethods
    /\ Advertised \subseteq AllMethods
    /\ Faults \subseteq FaultKinds
    /\ MaxCalls \in Nat /\ MaxDeaths \in Nat /\ MaxEchoes \in Nat

VARIABLES
    session,     \* _session: generation of the held InteractiveSession
    spawned,     \* number of processes spawned so far
    alive,       \* generations whose process is running
    stdin,       \* requests written to the current session, not yet read
    stdout,      \* lines the current session printed, not yet read
    requestId,   \* _request_id
    checked,     \* _contract_checked
    contract,    \* _bridge_contract: generation it describes
    info,        \* _bridge_info: likewise
    lock,        \* owner of _io_lock
    pc,          \* where each thread is
    op,          \* the method each thread called last
    doing,       \* the method whose request it makes: op, or get_info for bridge_contract
    hand,        \* generation of the handshake a get_info call holds
    outcome,     \* what the last call of each thread came to
    shaken,      \* history: generations whose valid handshake was received
    calls,       \* calls begun so far
    deaths,      \* processes that died so far
    echoes       \* lines printed twice so far

pipe   == <<stdin, stdout, requestId>>
hold   == <<session, spawned, alive>>
terms  == <<checked, contract, info>>
local  == <<op, doing, hand>>
past   == <<shaken>>
used   == <<calls, deaths, echoes>>
vars   == <<hold, pipe, terms, lock, pc, local, outcome, past, used>>

Kinds == {"result", "error", "envelope", "garbage", "incompatible"}
PCs   == {"idle", "enter", "gate", "send_info", "recv_info", "send", "recv",
          "parse", "note", "install", "confirm", "assert"}

(* from: generation that answered (0: the call raised or is under way);     *)
(* reply: the method that answer was for; by: generation of the contract    *)
(* the answer was parsed under (0: the untyped legacy parser or none).      *)
NoOutcome == [from |-> 0, reply |-> "none", by |-> 0]

Request == [id : Nat, method : AllMethods]
Line    == [id : Nat, method : AllMethods, kind : Kinds]

TypeOK ==
    /\ session \in Nat /\ spawned \in Nat /\ alive \subseteq Nat
    /\ stdin \in Seq(Request) /\ stdout \in Seq(Line) /\ requestId \in Nat
    /\ checked \in BOOLEAN /\ contract \in Nat /\ info \in Nat
    /\ lock \in Threads \cup {NoThread}
    /\ pc \in [Threads -> PCs]
    /\ op \in [Threads -> AllMethods \cup {"none"}]
    /\ doing \in [Threads -> AllMethods \cup {"none"}]
    /\ hand \in [Threads -> Nat]
    /\ outcome \in [Threads -> [from : Nat, reply : AllMethods \cup {"none"}, by : Nat]]
    /\ shaken \subseteq Nat
    /\ calls \in Nat /\ deaths \in Nat /\ echoes \in Nat

Init ==
    /\ session = 0 /\ spawned = 0 /\ alive = {}
    /\ stdin = <<>> /\ stdout = <<>> /\ requestId = 0
    /\ checked = FALSE /\ contract = 0 /\ info = 0
    /\ lock = NoThread
    /\ pc = [t \in Threads |-> "idle"]
    /\ op = [t \in Threads |-> "none"]
    /\ doing = [t \in Threads |-> "none"]
    /\ hand = [t \in Threads |-> 0]
    /\ outcome = [t \in Threads |-> NoOutcome]
    /\ shaken = {}
    /\ calls = 0 /\ deaths = 0 /\ echoes = 0

-----------------------------------------------------------------------------
(* Helpers *)

Goto(t, where) == pc' = [pc EXCEPT ![t] = where]

(* The method whose request a thread is sending: its own, or the handshake. *)
Sending(t) ==
    IF pc[t] \in {"send_info", "recv_info"} THEN "get_info" ELSE doing[t]

(* Mutant of Raise: an error path that leaves _io_lock held. *)
RaiseKeepsLock(t) ==
    /\ Goto(t, "idle")
    /\ outcome' = [outcome EXCEPT ![t] = NoOutcome]
    /\ UNCHANGED lock

(* The call leaves with an exception; `with self._io_lock` releases the lock. *)
Raise(t) ==
    /\ Goto(t, "idle")
    /\ outcome' = [outcome EXCEPT ![t] = NoOutcome]
    /\ lock' = IF lock = t THEN NoThread ELSE lock

(* Mutant of ForgetContract: only the flag is cleared. *)
ForgetFlagOnly == checked' = FALSE /\ UNCHANGED <<contract, info>>

(* Mutant of ForgetContract: what the session said of itself is kept. *)
ForgetKeepsInfo == checked' = FALSE /\ contract' = 0 /\ UNCHANGED info

ForgetContract == checked' = FALSE /\ contract' = 0 /\ info' = 0

(* _ensure_session, when it has to spawn and the spawn succeeds. *)
Respawn ==
    /\ session \notin alive
    /\ spawned' = spawned + 1
    /\ session' = spawned + 1
    /\ alive' = (alive \ {session}) \cup {spawned + 1}
    /\ ForgetContract

(* _ensure_session, when the held session still runs. *)
Reuse ==
    /\ session \in alive
    /\ UNCHANGED <<hold, terms>>

EnsureSession == Reuse \/ Respawn

(* Mutant of DropSession: the session is forgotten but not closed. *)
DropWithoutClosing ==
    /\ UNCHANGED alive
    /\ session' = 0
    /\ stdin' = <<>> /\ stdout' = <<>>
    /\ ForgetContract
    /\ UNCHANGED <<spawned, requestId>>

(* The held process is closed and the client keeps no session. *)
DropSession ==
    /\ alive' = alive \ {session}
    /\ session' = 0
    /\ stdin' = <<>> /\ stdout' = <<>>
    /\ ForgetContract
    /\ UNCHANGED <<spawned, requestId>>

-----------------------------------------------------------------------------
(* A thread calls a method; all of them but close go through call(). *)
Begin(t) ==
    /\ pc[t] = "idle"
    /\ calls < MaxCalls
    /\ calls' = calls + 1
    /\ \E m \in Methods : /\ op' = [op EXCEPT ![t] = m]
                          /\ doing' = [doing EXCEPT ![t] = m]
    /\ outcome' = [outcome EXCEPT ![t] = NoOutcome]
    /\ Goto(t, "enter")
    /\ UNCHANGED <<hold, pipe, terms, lock, hand, past, deaths, echoes>>

(* close(), under the lock from its first statement to its last. *)
Close(t) ==
    /\ pc[t] = "enter" /\ op[t] = "close" /\ lock = NoThread
    /\ DropSession
    /\ Goto(t, "idle")
    /\ UNCHANGED <<lock, local, outcome, past, used>>

(* Mutant of Enter: the handshake is left out. *)
EnterUnshaken(t) ==
    /\ pc[t] = "enter" /\ op[t] # "close" /\ lock = NoThread
    /\ lock' = t
    /\ Goto(t, "gate")
    /\ UNCHANGED <<hold, pipe, terms, local, outcome, past, used>>

(* call() takes the lock and decides, once, whether a handshake is due. *)
Enter(t) ==
    /\ pc[t] = "enter" /\ op[t] # "close" /\ lock = NoThread
    /\ lock' = t
    /\ Goto(t, IF Sending(t) \in Unguarded \/ checked THEN "gate" ELSE "send_info")
    /\ UNCHANGED <<hold, pipe, terms, local, outcome, past, used>>

(* Mutant of Gate: the method is sent whatever the contract says. *)
GateOpen(t) ==
    /\ pc[t] = "gate"
    /\ Goto(t, "send")
    /\ UNCHANGED <<hold, pipe, terms, lock, local, outcome, past, used>>

(* call() compares the method with the cached contract, if there is one; the *)
(* refusal names the version in _bridge_info, and raises when there is none.  *)
Gate(t) ==
    /\ pc[t] = "gate"
    /\ IF contract # 0 /\ Sending(t) \notin Advertised
         THEN Raise(t)
         ELSE Goto(t, "send") /\ UNCHANGED <<lock, outcome>>
    /\ UNCHANGED <<hold, pipe, terms, local, past, used>>

(* _call_raw up to session.request_line: ensure a session, number the       *)
(* request, write it.                                                       *)
Send(t) ==
    /\ pc[t] \in {"send_info", "send"}
    /\ EnsureSession
    /\ requestId' = requestId + 1
    /\ LET req == [id |-> requestId + 1, method |-> Sending(t)]
       IN  IF session \in alive
             THEN stdin' = Append(stdin, req) /\ UNCHANGED stdout
             ELSE stdin' = <<req>> /\ stdout' = <<>>
    /\ Goto(t, IF pc[t] = "send_info" THEN "recv_info" ELSE "recv")
    /\ UNCHANGED <<lock, local, outcome, past, used>>

(* spawn_interactive raises: the dead session is closed and the contract    *)
(* cleared, but _session still names it.                                    *)
SpawnFails(t) ==
    /\ "spawn" \in Faults
    /\ pc[t] \in {"send_info", "send"}
    /\ session \notin alive
    /\ ForgetContract
    /\ Raise(t)
    /\ UNCHANGED <<hold, pipe, local, past, used>>

(* json.dumps rejects the parameters after the session and id were taken.   *)
EncodeFails(t) ==
    /\ "encode" \in Faults
    /\ pc[t] = "send" /\ Sending(t) \notin Unguarded
    /\ EnsureSession
    /\ requestId' = requestId + 1
    /\ IF session \in alive THEN UNCHANGED <<stdin, stdout>>
                            ELSE stdin' = <<>> /\ stdout' = <<>>
    /\ Raise(t)
    /\ UNCHANGED <<local, past, used>>

(* request_line raises because the process is gone: retire the session.     *)
TransportFails(t) ==
    /\ pc[t] \in {"recv_info", "recv"}
    /\ session \notin alive
    /\ DropSession
    /\ Raise(t)
    /\ UNCHANGED <<local, past, used>>

(* The line is not JSON: retire the session. *)
ReceiveGarbage(t) ==
    /\ pc[t] \in {"recv_info", "recv"}
    /\ stdout # <<>> /\ Head(stdout).kind = "garbage"
    /\ DropSession
    /\ Raise(t)
    /\ UNCHANGED <<local, past, used>>

(* Mutant of Accepts: the response id is not compared. *)
AcceptsAnyId(line) == line.kind \in {"result", "incompatible"}

(* The line answers the request that this thread has just sent. *)
Accepts(line) == line.id = requestId /\ line.kind \in {"result", "incompatible"}

(* A JSON line that is not an acceptable envelope, has another id or        *)
(* carries a remote error: the call raises and the session is kept.         *)
ReceiveRejected(t) ==
    /\ pc[t] \in {"recv_info", "recv"}
    /\ stdout # <<>> /\ Head(stdout).kind # "garbage"
    /\ ~Accepts(Head(stdout))
    /\ stdout' = Tail(stdout)
    /\ Raise(t)
    /\ UNCHANGED <<hold, stdin, requestId, terms, local, past, used>>

(* get_info answered, but BridgeHandshake.parse or the profile validation   *)
(* rejects it: the session is kept, unshaken.                               *)
ReceiveIncompatible(t) ==
    /\ pc[t] \in {"recv_info", "recv"} /\ Sending(t) = "get_info"
    /\ stdout # <<>> /\ Accepts(Head(stdout)) /\ Head(stdout).kind = "incompatible"
    /\ stdout' = Tail(stdout)
    /\ Raise(t)
    /\ UNCHANGED <<hold, stdin, requestId, terms, local, past, used>>

(* Mutant of ReceiveHandshake: the contract is not stored. *)
ReceiveHandshakeUnstored(t) ==
    /\ pc[t] = "recv_info"
    /\ stdout # <<>> /\ Accepts(Head(stdout)) /\ Head(stdout).kind = "result"
    /\ stdout' = Tail(stdout)
    /\ checked' = TRUE
    /\ shaken' = shaken \cup {session}
    /\ Goto(t, "gate")
    /\ UNCHANGED <<hold, stdin, requestId, contract, info, lock, local, outcome, used>>

(* _check_bridge_contract receives its handshake, still under the lock. *)
ReceiveHandshake(t) ==
    /\ pc[t] = "recv_info"
    /\ stdout # <<>> /\ Accepts(Head(stdout)) /\ Head(stdout).kind = "result"
    /\ stdout' = Tail(stdout)
    /\ checked' = TRUE /\ contract' = session /\ info' = session
    /\ shaken' = shaken \cup {session}
    /\ Goto(t, "gate")
    /\ UNCHANGED <<hold, stdin, requestId, lock, local, outcome, used>>

(* call() returns the result and releases the lock; what follows in the     *)
(* calling method runs without it.                                          *)
Receive(t) ==
    /\ pc[t] = "recv"
    /\ stdout # <<>> /\ Accepts(Head(stdout)) /\ Head(stdout).kind = "result"
    /\ stdout' = Tail(stdout)
    /\ lock' = NoThread
    /\ IF Sending(t) = "get_info"
         THEN /\ hand' = [hand EXCEPT ![t] = session]
              /\ shaken' = shaken \cup {session}
              /\ Goto(t, "note")
              /\ UNCHANGED outcome
         ELSE /\ outcome' = [outcome EXCEPT ![t] =
                    [from |-> session, reply |-> Head(stdout).method, by |-> 0]]
              /\ Goto(t, IF op[t] \in DirectReaders \cup PropertyReaders
                           THEN "parse" ELSE "idle")
              /\ UNCHANGED <<hand, shaken>>
    /\ UNCHANGED <<hold, stdin, requestId, terms, op, doing, used>>

(* get_info, after the lock: _bridge_info is stored first ... *)
Note(t) ==
    /\ pc[t] = "note"
    /\ info' = hand[t]
    /\ Goto(t, "install")
    /\ UNCHANGED <<hold, pipe, checked, contract, lock, local, outcome, past, used>>

(* ... then the contract ... *)
Install(t) ==
    /\ pc[t] = "install"
    /\ contract' = hand[t]
    /\ Goto(t, "confirm")
    /\ UNCHANGED <<hold, pipe, checked, info, lock, local, outcome, past, used>>

(* ... then _contract_checked. *)
Confirm(t) ==
    /\ pc[t] = "confirm"
    /\ checked' = TRUE
    /\ Goto(t, IF doing[t] = op[t] THEN "idle" ELSE "assert")
    /\ UNCHANGED <<hold, pipe, contract, info, lock, local, outcome, past, used>>

(* Mutant of ParseUnder: the result keeps the contract and loses the answer. *)
ParseUnderAlone(t, g) ==
    /\ outcome' = [outcome EXCEPT ![t] = [by |-> g]]
    /\ Goto(t, "idle")

ParseUnder(t, g) ==
    /\ outcome' = [outcome EXCEPT ![t].by = g]
    /\ Goto(t, "idle")

(* check_bound, check_strict_bound: _bridge_contract is read after the      *)
(* lock is released; None selects the untyped parser.                       *)
ParseDirectly(t) ==
    /\ pc[t] = "parse" /\ op[t] \in DirectReaders
    /\ ParseUnder(t, contract)
    /\ UNCHANGED <<hold, pipe, terms, lock, local, past, used>>

(* verify_adaptive and the other contract-2.2+ methods: the bridge_contract *)
(* property calls get_info when the contract is gone.                       *)
ParseByProperty(t) ==
    /\ pc[t] = "parse" /\ op[t] \in PropertyReaders
    /\ IF contract # 0
         THEN ParseUnder(t, contract) /\ UNCHANGED doing
         ELSE /\ doing' = [doing EXCEPT ![t] = "get_info"]
              /\ Goto(t, "enter")
              /\ UNCHANGED outcome
    /\ UNCHANGED <<hold, pipe, terms, lock, op, hand, past, used>>

(* bridge_contract, after its get_info: `assert ... is not None`. *)
AssertContract(t) ==
    /\ pc[t] = "assert"
    /\ IF contract # 0 THEN ParseUnder(t, contract) /\ UNCHANGED lock ELSE Raise(t)
    /\ UNCHANGED <<hold, pipe, terms, local, past, used>>

-----------------------------------------------------------------------------
(* The Bridge process (external): it answers its oldest request, possibly   *)
(* printing the line twice, or it dies (a crash, or the execution policy's  *)
(* time limit).                                                             *)
AnswerKinds(m) ==
    {"result"} \cup (Faults \cap {"error", "envelope", "garbage"})
      \cup IF m = "get_info" THEN Faults \cap {"incompatible"} ELSE {}

Answer ==
    /\ session \in alive /\ stdin # <<>>
    /\ stdin' = Tail(stdin)
    /\ \E kind \in AnswerKinds(Head(stdin).method), twice \in BOOLEAN :
         LET line == [id |-> Head(stdin).id, method |-> Head(stdin).method, kind |-> kind]
         IN  /\ twice => echoes < MaxEchoes
             /\ stdout' = stdout \o IF twice THEN <<line, line>> ELSE <<line>>
             /\ echoes' = IF twice THEN echoes + 1 ELSE echoes
    /\ UNCHANGED <<hold, requestId, terms, lock, pc, local, outcome, past, calls, deaths>>

Die ==
    /\ session \in alive
    /\ deaths < MaxDeaths
    /\ deaths' = deaths + 1
    /\ alive' = alive \ {session}
    /\ UNCHANGED <<session, spawned, pipe, terms, lock, pc, local, outcome, past, calls, echoes>>

(* Every call has returned and no thread makes another one. *)
Quiescent ==
    /\ calls = MaxCalls
    /\ \A t \in Threads : pc[t] = "idle"
    /\ UNCHANGED vars

Locked(t)   == \/ Enter(t) \/ Gate(t) \/ Send(t) \/ SpawnFails(t) \/ EncodeFails(t)
               \/ TransportFails(t) \/ ReceiveGarbage(t) \/ ReceiveRejected(t)
               \/ ReceiveIncompatible(t) \/ ReceiveHandshake(t) \/ Receive(t)
Unlocked(t) == \/ Note(t) \/ Install(t) \/ Confirm(t) \/ ParseDirectly(t)
               \/ ParseByProperty(t) \/ AssertContract(t)
Continue(t) == Close(t) \/ Locked(t) \/ Unlocked(t)

Next ==
    \/ \E t \in Threads : Begin(t) \/ Continue(t)
    \/ Answer
    \/ Die
    \/ Quiescent

Spec == Init /\ [][Next]_vars

(* A thread inside a call keeps running, and a request written to a live    *)
(* process is answered unless the process dies (the execution policy's time *)
(* limit kills one that does not answer).  No thread has to make a call.    *)
Fairness == /\ \A t \in Threads : WF_vars(Continue(t))
            /\ WF_vars(Answer)
FairSpec == Spec /\ Fairness

-----------------------------------------------------------------------------
(* No process is left running that the client does not hold: whatever dies,  *)
(* misbehaves or is closed, and however the threads interleave, _ensure_session,
   _retire_session and close leave at most the held session alive.           *)
OneProcess == alive \subseteq {session}

(* A call never returns the answer to another call, however many lines the   *)
(* process prints twice: the id test of _call_raw.                            *)
OwnAnswer ==
    \A t \in Threads : outcome[t].from # 0 => outcome[t].reply = op[t]

(* The cached contract describes the process the client holds, the cached    *)
(* handshake data is of that process too, and is there when call() names the *)
(* Bridge version in a refusal; _contract_checked never outlives them         *)
(* (_ensure_session, _retire_session, close).                                 *)
ContractIsCurrent ==
    /\ info # 0 => info = session
    /\ contract # 0 => contract = info
    /\ checked => contract # 0

(* docs/protocol-v2.md: the client refuses unadvertised operations.           *)
OnlyAdvertised ==
    \A i \in DOMAIN stdin : stdin[i].method \in Unguarded \cup Advertised

(* docs/protocol-v2.md: the contract is negotiated before any checked        *)
(* operation is sent; _check_bridge_contract: once per process lifecycle.     *)
ShakenFirst ==
    \A i \in DOMAIN stdin : stdin[i].method \notin Unguarded => session \in shaken

(* A result is validated against the contract of the process that gave it:    *)
(* the backend, schema and route negotiated with that process.                *)
ParsedByOwnContract ==
    \A t \in Threads :
        (pc[t] = "idle" /\ outcome[t].from # 0 /\ op[t] \in DirectReaders \cup PropertyReaders)
            => outcome[t].by = outcome[t].from

(* Both hold as long as the first process of the client runs, whatever the    *)
(* threads do with it: neither the unlocked writes of get_info nor the read   *)
(* of the contract after the lock can go wrong before a process is replaced.  *)
FirstRuns   == 1 \in alive
FirstShaken == FirstRuns => ShakenFirst
FirstParsed == FirstRuns => ParsedByOwnContract

(* With its first process a client is right to trust what it has cached: it  *)
(* asks nothing before the handshake, and reads answers by its outcome.      *)
FirstTrusted == FirstShaken /\ FirstParsed

(* What the callers of a client see: the calls under way, and the answers    *)
(* they have.                                                                 *)
Call(t)   == [caller |-> t, method |-> op[t]]
Given(t)  == [caller |-> t, method |-> outcome[t].reply, by |-> outcome[t].from]
Calls     == {Call(t) : t \in {u \in Threads : pc[u] # "idle"}}
Answers   == {Given(t) : t \in {u \in Threads : outcome[u].from # 0}}

Promise == INSTANCE Service WITH
    Callers <- Threads,
    calling <- Calls,
    given   <- Answers,
    serving <- alive,
    started <- spawned

(* Out of all the locking, numbering, respawning and reading back, whatever   *)
(* fails, callers see Service: every call is answered at most once, in one    *)
(* step, by the process started last and for the method that was called; and  *)
(* no process is started while one runs (call, _call_raw, _ensure_session).   *)
ServiceSpec == Promise!Spec

(* Every call returns or raises: no path through call, get_info or            *)
(* _retire_session keeps the lock, and a dead process wakes its caller.       *)
CallsReturn == \A t \in Threads : pc[t] # "idle" ~> pc[t] = "idle"
=============================================================================
