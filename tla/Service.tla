------------------------------ MODULE Service -------------------------------
(***************************************************************************)
(* What the solver, the verifiers and prove() take a client for, without    *)
(* locks, request ids, pipes and lines: a caller calls a method; the call   *)
(* is answered in one step, at most once, by the process started last and   *)
(* for that very method, or it returns without an answer.  A new process is *)
(* started only when none runs.                                             *)
(***************************************************************************)
EXTENDS Naturals

CONSTANTS
    Callers,   \* who calls
    Methods    \* what is called

VARIABLES
    calling,   \* the calls under way: [caller, method]
    given,     \* the answers callers have: [caller, method, by]
    serving,   \* the processes that run
    started    \* the number of processes started

vars == <<calling, given, serving, started>>

Init == calling = {} /\ given = {} /\ serving = {} /\ started = 0

Others(S, c) == {x \in S : x.caller # c}

(* A caller makes one call at a time, and forgets its last answer.          *)
Call(c, m) ==
    /\ \A call \in calling : call.caller # c
    /\ calling' = calling \cup {[caller |-> c, method |-> m]}
    /\ given' = Others(given, c)
    /\ UNCHANGED <<serving, started>>

(* The answer may still have to be read: the call goes on or is over.       *)
Answer(call) ==
    /\ \A answer \in given : answer.caller # call.caller
    /\ started # 0
    /\ given' = given \cup
         {[caller |-> call.caller, method |-> call.method, by |-> started]}
    /\ calling' \in {calling, calling \ {call}}
    /\ UNCHANGED <<serving, started>>

(* A call is over; when it raises, an answer it had is lost.                *)
Return(call) ==
    /\ calling' = calling \ {call}
    /\ given' \in {given, Others(given, call.caller)}

Start ==
    /\ serving = {}
    /\ started' = started + 1
    /\ serving' = {started + 1}

Stop == serving' = {} /\ UNCHANGED started

(* A process starts and stops at any time, also in the step of a return.    *)
Manage == Start \/ Stop \/ UNCHANGED <<serving, started>>

Next ==
    \/ \E c \in Callers, m \in Methods : Call(c, m)
    \/ \E call \in calling : Answer(call)
    \/ Manage /\ \E call \in calling : Return(call)
    \/ Manage /\ UNCHANGED <<calling, given>>

Spec == Init /\ [][Next]_vars
=============================================================================
