------------------------- MODULE BridgeClientProofs -------------------------
(***************************************************************************)
(* Proofs about BridgeClient for every set of threads, of methods, of       *)
(* advertised operations and of faults, and for every bound.                *)
(***************************************************************************)
EXTENDS BridgeClient, TLAPS

(* The actions a step of Next may be, with the disjunctions unfolded once.  *)
LEMMA NextCases ==
    ASSUME Next
    PROVE  \/ \E t \in Threads : \/ Begin(t) \/ Close(t) \/ Enter(t) \/ Gate(t) \/ Send(t)
                                 \/ SpawnFails(t) \/ EncodeFails(t) \/ TransportFails(t)
                                 \/ ReceiveGarbage(t) \/ ReceiveRejected(t)
                                 \/ ReceiveIncompatible(t) \/ ReceiveHandshake(t)
                                 \/ Receive(t) \/ Note(t) \/ Install(t) \/ Confirm(t)
                                 \/ ParseDirectly(t) \/ ParseByProperty(t)
                                 \/ AssertContract(t)
           \/ Answer \/ Die \/ UNCHANGED vars
  BY DEF Next, Continue, Locked, Unlocked, Quiescent

(* How a step may change the session, the contract and the outcomes: the    *)
(* same few ways whatever the action.                                       *)
LEMMA HoldSteps ==
    ASSUME [Next]_vars
    PROVE  UNCHANGED hold \/ EnsureSession \/ DropSession \/ Die
<1>1. CASE UNCHANGED vars
  BY <1>1 DEF vars
<1>2. CASE Next
  BY <1>2, NextCases DEF Begin, Close, Enter, Gate, Send, SpawnFails, EncodeFails,
     TransportFails, ReceiveGarbage, ReceiveRejected, ReceiveIncompatible,
     ReceiveHandshake, Receive, Note, Install, Confirm, ParseDirectly, ParseByProperty,
     AssertContract, Answer, vars
<1> QED BY <1>1, <1>2

LEMMA TermsSteps ==
    ASSUME [Next]_vars
    PROVE  \/ UNCHANGED terms
           \/ EnsureSession
           \/ ForgetContract
           \/ \E t \in Threads : ReceiveHandshake(t) \/ Note(t) \/ Install(t) \/ Confirm(t)
<1>1. CASE UNCHANGED vars
  BY <1>1 DEF vars
<1>2. CASE Next
  BY <1>2, NextCases DEF Begin, Close, Enter, Gate, Send, SpawnFails, EncodeFails,
     TransportFails, ReceiveGarbage, ReceiveRejected, ReceiveIncompatible,
     Receive, ParseDirectly, ParseByProperty, AssertContract, Answer, Die,
     DropSession, vars
<1> QED BY <1>1, <1>2

-----------------------------------------------------------------------------
(* Theorem: at most the held process runs, whatever the threads, faults and *)
(* bounds.  Inductive as it stands: every step that changes session also    *)
(* takes the old session out of alive.                                      *)
THEOREM OneProcessAlways == Spec => []OneProcess
<1>1. Init => OneProcess
  BY DEF Init, OneProcess
<1>2. OneProcess /\ [Next]_vars => OneProcess'
  <2> SUFFICES ASSUME OneProcess, [Next]_vars PROVE OneProcess'
    OBVIOUS
  <2>1. CASE UNCHANGED hold
    BY <2>1 DEF hold, OneProcess
  <2>2. CASE EnsureSession
    BY <2>2 DEF EnsureSession, Reuse, Respawn, hold, OneProcess
  <2>3. CASE DropSession
    BY <2>3 DEF DropSession, OneProcess
  <2>4. CASE Die
    BY <2>4 DEF Die, OneProcess
  <2> QED BY <2>1, <2>2, <2>3, <2>4, HoldSteps
<1> QED BY <1>1, <1>2, PTL DEF Spec

-----------------------------------------------------------------------------
(* Type correctness, one part of the state at a time. *)
ProcessTyped == session \in Nat /\ spawned \in Nat /\ alive \subseteq Nat

TermsTyped == checked \in BOOLEAN /\ contract \in Nat /\ info \in Nat

PipeTyped == stdin \in Seq(Request) /\ stdout \in Seq(Line) /\ requestId \in Nat

ThreadTyped ==
    /\ lock \in Threads \cup {NoThread}
    /\ pc \in [Threads -> PCs]
    /\ op \in [Threads -> AllMethods \cup {"none"}]
    /\ doing \in [Threads -> AllMethods \cup {"none"}]
    /\ hand \in [Threads -> Nat]

(* A thread that is not idle is doing some method. *)
Busy == \A t \in Threads : pc[t] # "idle" => doing[t] \in AllMethods

OutcomeTyped ==
    outcome \in [Threads -> [from : Nat, reply : AllMethods \cup {"none"}, by : Nat]]

PastTyped == /\ shaken \subseteq Nat
             /\ calls \in Nat /\ deaths \in Nat /\ echoes \in Nat

Typed == /\ ProcessTyped /\ TermsTyped /\ PipeTyped /\ ThreadTyped
         /\ Busy /\ OutcomeTyped /\ PastTyped

LEMMA TypedIsTypeOK == Typed => TypeOK
  BY DEF Typed, ProcessTyped, TermsTyped, PipeTyped, ThreadTyped, OutcomeTyped,
     PastTyped, TypeOK

LEMMA InitTyped == Init => Typed
<1> SUFFICES ASSUME Init PROVE Typed
  OBVIOUS
<1>1. ProcessTyped /\ TermsTyped
  BY DEF Init, ProcessTyped, TermsTyped
<1>2. PipeTyped
  BY DEF Init, PipeTyped
<1>3. ThreadTyped /\ Busy
  BY DEF Init, ThreadTyped, Busy, PCs
<1>4. OutcomeTyped /\ PastTyped
  BY DEF Init, OutcomeTyped, NoOutcome, PastTyped
<1> QED BY <1>1, <1>2, <1>3, <1>4 DEF Typed

LEMMA ProcessStep == ASSUME ProcessTyped, [Next]_vars PROVE ProcessTyped'
<1>1. CASE UNCHANGED hold
  BY <1>1 DEF hold, ProcessTyped
<1>2. CASE Respawn
  BY <1>2 DEF Respawn, ProcessTyped
<1>3. CASE DropSession
  BY <1>3 DEF DropSession, ProcessTyped
<1>4. CASE Die
  BY <1>4 DEF Die, ProcessTyped
<1> QED BY <1>1, <1>2, <1>3, <1>4, HoldSteps DEF EnsureSession, Reuse

LEMMA TermsStep ==
    ASSUME TermsTyped, ProcessTyped, ThreadTyped, [Next]_vars PROVE TermsTyped'
<1>1. CASE UNCHANGED terms
  BY <1>1 DEF terms, TermsTyped
<1>2. CASE ForgetContract
  BY <1>2 DEF ForgetContract, TermsTyped
<1>3. CASE \E t \in Threads : ReceiveHandshake(t)
  BY <1>3 DEF ReceiveHandshake, ProcessTyped, TermsTyped
<1>4. CASE \E t \in Threads : Note(t) \/ Install(t)
  BY <1>4 DEF Note, Install, ThreadTyped, TermsTyped
<1>5. CASE \E t \in Threads : Confirm(t)
  BY <1>5 DEF Confirm, TermsTyped
<1> QED BY <1>1, <1>2, <1>3, <1>4, <1>5, TermsSteps DEF EnsureSession, Reuse, Respawn

LEMMA RaiseTyped ==
    ASSUME ThreadTyped, Busy, NEW t \in Threads, Raise(t), UNCHANGED local
    PROVE  ThreadTyped' /\ Busy'
<1>1. ThreadTyped'
  BY DEF Raise, Goto, ThreadTyped, PCs, local
<1>2. Busy'
  BY DEF Raise, Goto, ThreadTyped, Busy, local
<1> QED BY <1>1, <1>2

LEMMA GotoTyped ==
    ASSUME ThreadTyped, Busy, NEW t \in Threads, NEW where \in PCs, Goto(t, where),
           pc[t] # "idle", UNCHANGED <<op, doing>>,
           lock' \in Threads \cup {NoThread}, hand' \in [Threads -> Nat]
    PROVE  ThreadTyped' /\ Busy'
<1>1. ThreadTyped'
  BY DEF Goto, ThreadTyped
<1>2. Busy'
  BY DEF Goto, ThreadTyped, Busy
<1> QED BY <1>1, <1>2

LEMMA ThreadStep ==
    ASSUME ThreadTyped, Busy, ProcessTyped, [Next]_vars
    PROVE  ThreadTyped' /\ Busy'
<1>1. CASE UNCHANGED <<lock, pc, local>>
  BY <1>1 DEF local, ThreadTyped, Busy
<1>2. ASSUME NEW t \in Threads, Begin(t) PROVE ThreadTyped' /\ Busy'
  <2>1. ThreadTyped'
    BY <1>2, ClientAssumption DEF Begin, Goto, ThreadTyped, PCs
  <2>2. Busy'
    BY <1>2, ClientAssumption DEF Begin, Goto, ThreadTyped, Busy
  <2> QED BY <2>1, <2>2
<1>3. ASSUME NEW t \in Threads, Close(t) PROVE ThreadTyped' /\ Busy'
  BY <1>3, GotoTyped DEF Close, local, ThreadTyped, PCs
<1>4. ASSUME NEW t \in Threads, Enter(t) PROVE ThreadTyped' /\ Busy'
  BY <1>4, GotoTyped DEF Enter, local, ThreadTyped, PCs
<1>5. ASSUME NEW t \in Threads, Gate(t) PROVE ThreadTyped' /\ Busy'
  <2>1. CASE Raise(t)
    BY <1>5, <2>1, RaiseTyped DEF Gate
  <2>2. CASE Goto(t, "send") /\ UNCHANGED lock
    BY <1>5, <2>2, GotoTyped DEF Gate, local, ThreadTyped, PCs
  <2> QED BY <1>5, <2>1, <2>2 DEF Gate
<1>6. ASSUME NEW t \in Threads, Send(t) PROVE ThreadTyped' /\ Busy'
  BY <1>6, GotoTyped DEF Send, local, ThreadTyped, PCs
<1>7. ASSUME NEW t \in Threads, Raise(t) /\ UNCHANGED local PROVE ThreadTyped' /\ Busy'
  BY <1>7, RaiseTyped
<1>8. ASSUME NEW t \in Threads, ReceiveHandshake(t) PROVE ThreadTyped' /\ Busy'
  BY <1>8, GotoTyped DEF ReceiveHandshake, local, ThreadTyped, PCs
<1>9. ASSUME NEW t \in Threads, Receive(t) PROVE ThreadTyped' /\ Busy'
  <2>1. hand' \in [Threads -> Nat]
    BY <1>9 DEF Receive, ThreadTyped, ProcessTyped
  <2>2. PICK where \in {"note", "parse", "idle"} : Goto(t, where)
    BY <1>9 DEF Receive
  <2> QED BY <1>9, <2>1, <2>2, GotoTyped DEF Receive, PCs
<1>10. ASSUME NEW t \in Threads, Note(t) \/ Install(t) PROVE ThreadTyped' /\ Busy'
  BY <1>10, GotoTyped DEF Note, Install, local, ThreadTyped, PCs
<1>11. ASSUME NEW t \in Threads, Confirm(t) PROVE ThreadTyped' /\ Busy'
  BY <1>11, GotoTyped DEF Confirm, local, ThreadTyped, PCs
<1>12. ASSUME NEW t \in Threads, ParseDirectly(t) PROVE ThreadTyped' /\ Busy'
  BY <1>12, GotoTyped DEF ParseDirectly, ParseUnder, local, ThreadTyped, PCs
<1>13. ASSUME NEW t \in Threads, ParseByProperty(t) PROVE ThreadTyped' /\ Busy'
  <2>1. CASE UNCHANGED doing
    BY <1>13, <2>1, GotoTyped DEF ParseByProperty, ParseUnder, ThreadTyped, PCs
  <2>2. CASE doing' = [doing EXCEPT ![t] = "get_info"] /\ Goto(t, "enter")
    <3>1. ThreadTyped'
      BY <1>13, <2>2 DEF ParseByProperty, Goto, ThreadTyped, PCs, AllMethods, Unguarded
    <3>2. Busy'
      BY <1>13, <2>2 DEF ParseByProperty, Goto, ThreadTyped, Busy, AllMethods, Unguarded
    <3> QED BY <3>1, <3>2
  <2> QED BY <1>13, <2>1, <2>2 DEF ParseByProperty
<1>14. ASSUME NEW t \in Threads, AssertContract(t) PROVE ThreadTyped' /\ Busy'
  <2>1. CASE Raise(t)
    BY <1>14, <2>1, RaiseTyped DEF AssertContract
  <2>2. CASE ParseUnder(t, contract) /\ UNCHANGED lock
    BY <1>14, <2>2, GotoTyped DEF AssertContract, ParseUnder, local, ThreadTyped, PCs
  <2> QED BY <1>14, <2>1, <2>2 DEF AssertContract
<1>15. CASE UNCHANGED vars
  BY <1>1, <1>15 DEF vars
<1>16. CASE Answer \/ Die
  BY <1>1, <1>16 DEF Answer, Die
<1>17. CASE \E t \in Threads : \/ SpawnFails(t) \/ EncodeFails(t) \/ TransportFails(t)
                               \/ ReceiveGarbage(t) \/ ReceiveRejected(t)
                               \/ ReceiveIncompatible(t)
  BY <1>7, <1>17 DEF SpawnFails, EncodeFails, TransportFails, ReceiveGarbage,
     ReceiveRejected, ReceiveIncompatible
<1> QED BY <1>2, <1>3, <1>4, <1>5, <1>6, <1>8, <1>9, <1>10, <1>11, <1>12, <1>13, <1>14,
           <1>15, <1>16, <1>17, NextCases

-----------------------------------------------------------------------------
(* The two pipes: what a step may do to them. *)
NewRequest(t) == [id |-> requestId + 1, method |-> Sending(t)]

PipeUnread == stdout # <<>> /\ stdout' = Tail(stdout) /\ UNCHANGED <<stdin, requestId>>

LEMMA PipeSteps ==
    ASSUME [Next]_vars
    PROVE  \/ UNCHANGED pipe
           \/ DropSession
           \/ PipeUnread
           \/ \E t \in Threads : Send(t) \/ EncodeFails(t)
           \/ Answer
<1>1. CASE UNCHANGED vars
  BY <1>1 DEF vars
<1>2. CASE Next
  <2>1. CASE \E t \in Threads : \/ ReceiveRejected(t) \/ ReceiveIncompatible(t)
                                \/ ReceiveHandshake(t) \/ Receive(t)
    <3>1. PICK t \in Threads : \/ ReceiveRejected(t) \/ ReceiveIncompatible(t)
                              \/ ReceiveHandshake(t) \/ Receive(t)
      BY <2>1
    <3>2. PipeUnread
      BY <3>1 DEF ReceiveRejected, ReceiveIncompatible, ReceiveHandshake, Receive,
         PipeUnread
    <3> QED BY <3>2
  <2>2. CASE \E t \in Threads : Close(t) \/ TransportFails(t) \/ ReceiveGarbage(t)
    BY <2>2 DEF Close, TransportFails, ReceiveGarbage
  <2>3. CASE \E t \in Threads : \/ Begin(t) \/ Enter(t) \/ Gate(t) \/ SpawnFails(t)
                                \/ Note(t) \/ Install(t) \/ Confirm(t) \/ ParseDirectly(t)
                                \/ ParseByProperty(t) \/ AssertContract(t)
    BY <2>3 DEF Begin, Enter, Gate, SpawnFails, Note, Install, Confirm, ParseDirectly,
       ParseByProperty, AssertContract
  <2>4. CASE Die
    BY <2>4 DEF Die
  <2> QED BY <1>1, <1>2, <2>1, <2>2, <2>3, <2>4, NextCases
<1> QED BY <1>1, <1>2

LEMMA SendingTyped ==
    ASSUME Busy, NEW t \in Threads, pc[t] # "idle"
    PROVE  Sending(t) \in AllMethods
  BY DEF Sending, Busy, AllMethods, Unguarded

(* Every line the process prints answers the request at the head of stdin.  *)
LEMMA AnswerLines ==
    ASSUME PipeTyped, Answer
    PROVE  \E line \in Line :
             /\ line.id = Head(stdin).id /\ line.method = Head(stdin).method
             /\ line.kind \in AnswerKinds(line.method)
             /\ stdout' = Append(stdout, line) \/ stdout' = Append(Append(stdout, line), line)
<1>1. Head(stdin) \in Request
  BY DEF Answer, PipeTyped
<1>2. PICK kind \in AnswerKinds(Head(stdin).method), twice \in BOOLEAN :
        LET line == [id |-> Head(stdin).id, method |-> Head(stdin).method, kind |-> kind]
        IN  stdout' = stdout \o IF twice THEN <<line, line>> ELSE <<line>>
  BY DEF Answer
<1> DEFINE line == [id |-> Head(stdin).id, method |-> Head(stdin).method, kind |-> kind]
<1>3. line \in Line
  BY <1>1, <1>2 DEF Line, Request, AnswerKinds, Kinds
<1>4. /\ line.id = Head(stdin).id /\ line.method = Head(stdin).method
      /\ line.kind \in AnswerKinds(line.method)
  BY <1>2
<1>5. stdout' = stdout \o <<line, line>> \/ stdout' = stdout \o <<line>>
  BY <1>2
<1> HIDE DEF line
<1>6. stdout \o <<line>> = Append(stdout, line)
  BY <1>3 DEF PipeTyped
<1>7. stdout \o <<line, line>> = Append(Append(stdout, line), line)
  BY <1>3 DEF PipeTyped
<1> QED BY <1>3, <1>4, <1>5, <1>6, <1>7

LEMMA PipeStep == ASSUME PipeTyped, Busy, [Next]_vars PROVE PipeTyped'
<1>1. CASE UNCHANGED pipe
  BY <1>1 DEF pipe, PipeTyped
<1>2. CASE DropSession
  BY <1>2 DEF DropSession, PipeTyped
<1>3. CASE PipeUnread
  BY <1>3 DEF PipeUnread, PipeTyped
<1>4. ASSUME NEW t \in Threads, Send(t) PROVE PipeTyped'
  <2>1. NewRequest(t) \in Request
    BY <1>4, SendingTyped DEF Send, NewRequest, Request, PipeTyped
  <2>2. \/ stdin' = Append(stdin, NewRequest(t)) /\ UNCHANGED stdout
        \/ stdin' = <<NewRequest(t)>> /\ stdout' = <<>>
    BY <1>4 DEF Send, NewRequest
  <2>3. requestId' = requestId + 1
    BY <1>4 DEF Send
  <2>4. stdin \in Seq(Request) /\ stdout \in Seq(Line)
    BY DEF PipeTyped
  <2>5. stdin' \in Seq(Request) /\ stdout' \in Seq(Line)
    <3>1. CASE stdin' = Append(stdin, NewRequest(t)) /\ stdout' = stdout
      BY <2>1, <2>4, <3>1
    <3>2. CASE stdin' = <<NewRequest(t)>> /\ stdout' = <<>>
      <4>1. stdin' \in Seq(Request)
        BY <2>1, <3>2
      <4>2. stdout' \in Seq(Line)
        BY <3>2
      <4> QED BY <4>1, <4>2
    <3> QED BY <2>2, <3>1, <3>2
  <2> QED BY <2>3, <2>5 DEF PipeTyped
<1>5. ASSUME NEW t \in Threads, EncodeFails(t) PROVE PipeTyped'
  <2>1. UNCHANGED <<stdin, stdout>> \/ (stdin' = <<>> /\ stdout' = <<>>)
    BY <1>5 DEF EncodeFails
  <2>2. requestId' = requestId + 1
    BY <1>5 DEF EncodeFails
  <2>3. CASE UNCHANGED <<stdin, stdout>>
    BY <2>2, <2>3 DEF PipeTyped
  <2>4. CASE stdin' = <<>> /\ stdout' = <<>>
    BY <2>2, <2>4 DEF PipeTyped
  <2> QED BY <2>1, <2>3, <2>4
<1>6. CASE Answer
  <2>1. stdin' \in Seq(Request) /\ requestId' \in Nat
    BY <1>6 DEF Answer, PipeTyped
  <2>2. stdout' \in Seq(Line)
    <3>1. PICK line \in Line : \/ stdout' = Append(stdout, line)
                              \/ stdout' = Append(Append(stdout, line), line)
      BY <1>6, AnswerLines
    <3>2. stdout \in Seq(Line)
      BY DEF PipeTyped
    <3>3. Append(stdout, line) \in Seq(Line)
      BY <3>2
    <3>4. Append(Append(stdout, line), line) \in Seq(Line)
      BY <3>3
    <3> QED BY <3>1, <3>3, <3>4
  <2> QED BY <2>1, <2>2 DEF PipeTyped
<1> QED BY <1>1, <1>2, <1>3, <1>4, <1>5, <1>6, PipeSteps

-----------------------------------------------------------------------------
LEMMA OutcomeStep ==
    ASSUME OutcomeTyped, ProcessTyped, TermsTyped, PipeTyped, [Next]_vars
    PROVE  OutcomeTyped'
<1>1. CASE UNCHANGED outcome
  BY <1>1 DEF OutcomeTyped
<1>2. ASSUME NEW t \in Threads, outcome' = [outcome EXCEPT ![t] = NoOutcome]
      PROVE  OutcomeTyped'
  BY <1>2 DEF OutcomeTyped, NoOutcome
<1>3. ASSUME NEW t \in Threads, ParseUnder(t, contract) PROVE OutcomeTyped'
  BY <1>3 DEF ParseUnder, OutcomeTyped, TermsTyped
<1>4. ASSUME NEW t \in Threads, Receive(t) PROVE OutcomeTyped'
  <2>1. Head(stdout).method \in AllMethods
    <3>1. stdout \in Seq(Line) /\ stdout # <<>>
      BY <1>4 DEF Receive, PipeTyped
    <3>2. Head(stdout) \in Line
      BY <3>1
    <3> QED BY <3>2 DEF Line
  <2>2. \/ UNCHANGED outcome
        \/ outcome' = [outcome EXCEPT ![t] =
               [from |-> session, reply |-> Head(stdout).method, by |-> 0]]
    BY <1>4 DEF Receive
  <2> QED BY <2>1, <2>2 DEF OutcomeTyped, ProcessTyped
<1>5. CASE UNCHANGED vars
  BY <1>1, <1>5 DEF vars
<1>6. CASE Next
  <2>1. \/ UNCHANGED vars \/ UNCHANGED outcome
        \/ \E t \in Threads : \/ outcome' = [outcome EXCEPT ![t] = NoOutcome]
                              \/ ParseUnder(t, contract)
                              \/ Receive(t)
    BY <1>6, NextCases DEF Begin, Close, Enter, Gate, Send, SpawnFails, EncodeFails,
       TransportFails, ReceiveGarbage, ReceiveRejected, ReceiveIncompatible,
       ReceiveHandshake, Note, Install, Confirm, ParseDirectly, ParseByProperty,
       AssertContract, Raise, Answer, Die
  <2> QED BY <2>1, <1>1, <1>2, <1>3, <1>4, <1>5
<1> QED BY <1>5, <1>6

LEMMA PastStep == ASSUME PastTyped, ProcessTyped, [Next]_vars PROVE PastTyped'
<1>1. /\ shaken' = shaken \/ shaken' = shaken \cup {session}
      /\ calls' = calls \/ calls' = calls + 1
      /\ deaths' = deaths \/ deaths' = deaths + 1
      /\ echoes' = echoes \/ echoes' = echoes + 1
  <2>1. CASE UNCHANGED vars
    BY <2>1 DEF vars, past, used
  <2>2. CASE Answer
    BY <2>2 DEF Answer, past
  <2>3. CASE Next
    BY <2>1, <2>2, <2>3, NextCases DEF Begin, Close, Enter, Gate, Send, SpawnFails,
       EncodeFails, TransportFails, ReceiveGarbage, ReceiveRejected, ReceiveIncompatible,
       ReceiveHandshake, Receive, Note, Install, Confirm, ParseDirectly, ParseByProperty,
       AssertContract, Die, past, used
  <2> QED BY <2>1, <2>3
<1>2. shaken' \subseteq Nat
  BY <1>1 DEF PastTyped, ProcessTyped
<1>3. calls' \in Nat /\ deaths' \in Nat /\ echoes' \in Nat
  BY <1>1 DEF PastTyped
<1> QED BY <1>2, <1>3 DEF PastTyped

LEMMA TypedAlways == Spec => []Typed
<1>1. Typed /\ [Next]_vars => Typed'
  BY ProcessStep, TermsStep, PipeStep, ThreadStep, OutcomeStep, PastStep DEF Typed
<1> QED BY InitTyped, <1>1, PTL DEF Spec

(* Theorem: every variable keeps its type, whatever the threads, methods,   *)
(* faults and bounds.                                                       *)
THEOREM TypeCorrect == Spec => []TypeOK
  BY TypedAlways, TypedIsTypeOK, PTL

-----------------------------------------------------------------------------
(* What is on the wire: the request ids, with their methods, that the       *)
(* process has still to read or the client has still to read back.          *)
Tags(s) == {<<s[i].id, s[i].method>> : i \in DOMAIN s}
Wire    == Tags(stdin) \cup Tags(stdout)

LEMMA TagsEmpty == Tags(<<>>) = {}
  BY DEF Tags

LEMMA TagsTail ==
    ASSUME NEW S, NEW s \in Seq(S), s # <<>>
    PROVE  Tags(Tail(s)) \subseteq Tags(s) /\ <<Head(s).id, Head(s).method>> \in Tags(s)
<1>1. \A i \in DOMAIN Tail(s) : i + 1 \in DOMAIN s /\ Tail(s)[i] = s[i + 1]
  OBVIOUS
<1>2. 1 \in DOMAIN s /\ Head(s) = s[1]
  OBVIOUS
<1> QED BY <1>1, <1>2 DEF Tags

LEMMA TagsAppend ==
    ASSUME NEW S, NEW s \in Seq(S), NEW e \in S
    PROVE  Tags(Append(s, e)) \subseteq Tags(s) \cup {<<e.id, e.method>>}
<1>1. \A i \in DOMAIN Append(s, e) :
        (i \in DOMAIN s /\ Append(s, e)[i] = s[i]) \/ Append(s, e)[i] = e
  OBVIOUS
<1> QED BY <1>1 DEF Tags

LEMMA WireSteps ==
    ASSUME PipeTyped, Busy, [Next]_vars
    PROVE  \/ Wire' \subseteq Wire /\ requestId' = requestId
           \/ \E t \in Threads : EncodeFails(t) /\ Wire' \subseteq Wire
           \/ \E t \in Threads : /\ Send(t)
                                 /\ Wire' \subseteq Wire \cup {<<requestId + 1, Sending(t)>>}
<1> USE DEF PipeTyped
<1>1. CASE UNCHANGED pipe
  BY <1>1 DEF pipe, Wire
<1>2. CASE DropSession
  BY <1>2, TagsEmpty DEF DropSession, Wire
<1>3. CASE PipeUnread
  BY <1>3, TagsTail DEF PipeUnread, Wire
<1>4. ASSUME NEW t \in Threads, EncodeFails(t) PROVE Wire' \subseteq Wire
  <2>1. UNCHANGED <<stdin, stdout>> \/ (stdin' = <<>> /\ stdout' = <<>>)
    BY <1>4 DEF EncodeFails
  <2> QED BY <2>1, TagsEmpty DEF Wire
<1>5. ASSUME NEW t \in Threads, Send(t)
      PROVE  Wire' \subseteq Wire \cup {<<requestId + 1, Sending(t)>>}
  <2>1. NewRequest(t) \in Request
    BY <1>5, SendingTyped DEF Send, NewRequest, Request
  <2>2. NewRequest(t).id = requestId + 1 /\ NewRequest(t).method = Sending(t)
    BY DEF NewRequest
  <2>3. CASE stdin' = Append(stdin, NewRequest(t)) /\ stdout' = stdout
    BY <2>1, <2>2, <2>3, TagsAppend DEF Wire
  <2>4. CASE stdin' = <<NewRequest(t)>> /\ stdout' = <<>>
    <3>1. Tags(stdin') = {<<requestId + 1, Sending(t)>>}
      BY <2>2, <2>4 DEF Tags
    <3>2. Tags(stdout') = {}
      BY <2>4, TagsEmpty
    <3> QED BY <3>1, <3>2 DEF Wire
  <2>5. \/ stdin' = Append(stdin, NewRequest(t)) /\ stdout' = stdout
        \/ stdin' = <<NewRequest(t)>> /\ stdout' = <<>>
    BY <1>5 DEF Send, NewRequest
  <2> QED BY <2>3, <2>4, <2>5
<1>6. CASE Answer
  <2>1. PICK line \in Line :
          /\ line.id = Head(stdin).id /\ line.method = Head(stdin).method
          /\ stdout' = Append(stdout, line) \/ stdout' = Append(Append(stdout, line), line)
    BY <1>6, AnswerLines
  <2>2. <<line.id, line.method>> \in Tags(stdin) /\ Tags(stdin') \subseteq Tags(stdin)
    BY <1>6, <2>1, TagsTail DEF Answer
  <2>3. Append(stdout, line) \in Seq(Line)
    BY <2>1
  <2>4. Tags(stdout') \subseteq Tags(stdout) \cup {<<line.id, line.method>>}
    <3>1. Tags(Append(stdout, line)) \subseteq Tags(stdout) \cup {<<line.id, line.method>>}
      BY TagsAppend
    <3>2. Tags(Append(Append(stdout, line), line))
            \subseteq Tags(Append(stdout, line)) \cup {<<line.id, line.method>>}
      BY <2>3, TagsAppend
    <3> QED BY <2>1, <3>1, <3>2
  <2>5. requestId' = requestId
    BY <1>6 DEF Answer
  <2> QED BY <2>2, <2>4, <2>5 DEF Wire
<1> QED BY <1>1, <1>2, <1>3, <1>4, <1>5, <1>6, PipeSteps DEF pipe, DropSession, PipeUnread

-----------------------------------------------------------------------------
(* _io_lock is held by the thread inside call(), so by one thread at most.  *)
Receiving == {"recv_info", "recv"}
Critical  == {"gate", "send_info", "send"} \cup Receiving

LockHeld == \A t \in Threads : pc[t] \in Critical => lock = t

LEMMA RaiseUnlocks ==
    ASSUME LockHeld, ThreadTyped, NEW t \in Threads, Raise(t)
    PROVE  LockHeld'
  BY DEF LockHeld, ThreadTyped, Raise, Goto, Critical, Receiving

(* A thread moves where the lock allows it: it keeps the lock, or goes      *)
(* where none is needed.                                                    *)
LEMMA GotoKeepsLock ==
    ASSUME LockHeld, ThreadTyped, NEW t \in Threads, NEW where \in PCs, Goto(t, where),
           lock' = lock, where \in Critical => pc[t] \in Critical
    PROVE  LockHeld'
  BY DEF LockHeld, ThreadTyped, Goto

LEMMA LockStep == ASSUME LockHeld, ThreadTyped, [Next]_vars PROVE LockHeld'
<1> USE DEF Critical, Receiving, PCs
<1>1. CASE UNCHANGED <<lock, pc>>
  BY <1>1 DEF LockHeld
<1>2. ASSUME NEW t \in Threads, Raise(t) PROVE LockHeld'
  BY <1>2, RaiseUnlocks
<1>3. ASSUME NEW t \in Threads, NEW where \in PCs, Goto(t, where), lock' = lock,
             where \in Critical => pc[t] \in Critical
      PROVE  LockHeld'
  BY <1>3, GotoKeepsLock
<1>4. ASSUME NEW t \in Threads, Enter(t) PROVE LockHeld'
  BY <1>4, ClientAssumption DEF Enter, Goto, LockHeld, ThreadTyped
<1>5. ASSUME NEW t \in Threads, Receive(t) PROVE LockHeld'
  <2>1. PICK where \in {"note", "parse", "idle"} : Goto(t, where)
    BY <1>5 DEF Receive
  <2>2. lock = t /\ lock' = NoThread
    BY <1>5 DEF Receive, LockHeld
  <2> QED BY <2>1, <2>2 DEF Goto, LockHeld, ThreadTyped
<1>6. ASSUME NEW t \in Threads, Begin(t) \/ Close(t) PROVE LockHeld'
  BY <1>3, <1>6 DEF Begin, Close
<1>7. ASSUME NEW t \in Threads, Gate(t) PROVE LockHeld'
  BY <1>2, <1>3, <1>7 DEF Gate
<1>8. ASSUME NEW t \in Threads, Send(t) \/ ReceiveHandshake(t) PROVE LockHeld'
  BY <1>3, <1>8 DEF Send, ReceiveHandshake
<1>9. ASSUME NEW t \in Threads, Note(t) \/ Install(t) \/ Confirm(t) \/ ParseDirectly(t)
      PROVE  LockHeld'
  BY <1>3, <1>9 DEF Note, Install, Confirm, ParseDirectly, ParseUnder
<1>10. ASSUME NEW t \in Threads, ParseByProperty(t) \/ AssertContract(t)
       PROVE  LockHeld'
  BY <1>2, <1>3, <1>10 DEF ParseByProperty, AssertContract, ParseUnder
<1>11. ASSUME NEW t \in Threads, \/ SpawnFails(t) \/ EncodeFails(t) \/ TransportFails(t)
                                 \/ ReceiveGarbage(t) \/ ReceiveRejected(t)
                                 \/ ReceiveIncompatible(t)
       PROVE  LockHeld'
  BY <1>2, <1>11 DEF SpawnFails, EncodeFails, TransportFails, ReceiveGarbage,
     ReceiveRejected, ReceiveIncompatible
<1>12. CASE Answer \/ Die \/ UNCHANGED vars
  BY <1>1, <1>12 DEF Answer, Die, vars
<1> QED BY <1>4, <1>5, <1>6, <1>7, <1>8, <1>9, <1>10, <1>11, <1>12, NextCases

-----------------------------------------------------------------------------
(* Why no call returns the answer to another one: ids on the wire are not   *)
(* newer than the last one given out, and the last one, while its thread    *)
(* waits, belongs to what that thread asked.                                *)
OldIds == \A x \in Wire : x[1] <= requestId

OwnId ==
    \A t \in Threads : pc[t] \in Receiving =>
        \A x \in Wire : x[1] = requestId => x[2] = Sending(t)

DoingOwn == \A t \in Threads : doing[t] \in {op[t], "get_info"}

OwnInv == Typed /\ LockHeld /\ OldIds /\ OwnId /\ DoingOwn /\ OwnAnswer

LEMMA TagsNat == ASSUME PipeTyped PROVE \A x \in Wire : x[1] \in Nat
<1>1. \A i \in DOMAIN stdin : stdin[i].id \in Nat
  <2>1. \A i \in DOMAIN stdin : stdin[i] \in Request
    BY DEF PipeTyped
  <2> QED BY <2>1 DEF Request
<1>2. \A i \in DOMAIN stdout : stdout[i].id \in Nat
  <2>1. \A i \in DOMAIN stdout : stdout[i] \in Line
    BY DEF PipeTyped
  <2> QED BY <2>1 DEF Line
<1> QED BY <1>1, <1>2 DEF Wire, Tags

LEMMA OldIdsStep == ASSUME OldIds, PipeTyped, Busy, [Next]_vars PROVE OldIds'
<1>1. CASE Wire' \subseteq Wire /\ requestId' = requestId
  BY <1>1 DEF OldIds
<1>2. ASSUME NEW t \in Threads, EncodeFails(t), Wire' \subseteq Wire PROVE OldIds'
  BY <1>2, TagsNat DEF EncodeFails, OldIds, PipeTyped
<1>3. ASSUME NEW t \in Threads, Send(t),
             Wire' \subseteq Wire \cup {<<requestId + 1, Sending(t)>>}
      PROVE  OldIds'
  <2>1. requestId' = requestId + 1 /\ requestId \in Nat
    BY <1>3 DEF Send, PipeTyped
  <2> QED BY <1>3, <2>1, TagsNat DEF OldIds
<1> QED BY <1>1, <1>2, <1>3, WireSteps

(* Only Send makes a thread wait for an answer. *)
LEMMA WaitSteps ==
    ASSUME ThreadTyped, [Next]_vars, NEW u \in Threads, pc'[u] \in Receiving
    PROVE  Send(u) \/ (pc'[u] = pc[u] /\ doing'[u] = doing[u])
<1> USE DEF Receiving, ThreadTyped, Goto
<1>1. CASE UNCHANGED <<pc, doing>>
  BY <1>1
<1>2. ASSUME NEW t \in Threads, Raise(t), UNCHANGED local
      PROVE  pc'[u] = pc[u] /\ doing'[u] = doing[u]
  BY <1>2 DEF Raise, local
<1>4. ASSUME NEW t \in Threads, Begin(t)
      PROVE  pc'[u] = pc[u] /\ doing'[u] = doing[u]
  BY <1>4 DEF Begin
<1>5. ASSUME NEW t \in Threads, Send(t)
      PROVE  Send(u) \/ (pc'[u] = pc[u] /\ doing'[u] = doing[u])
  BY <1>5 DEF Send, local
<1>6. ASSUME NEW t \in Threads, Receive(t)
      PROVE  pc'[u] = pc[u] /\ doing'[u] = doing[u]
  BY <1>6 DEF Receive
<1>7. ASSUME NEW t \in Threads, ParseByProperty(t)
      PROVE  pc'[u] = pc[u] /\ doing'[u] = doing[u]
  BY <1>7 DEF ParseByProperty, ParseUnder
<1>8. ASSUME NEW t \in Threads, Gate(t) \/ AssertContract(t)
      PROVE  pc'[u] = pc[u] /\ doing'[u] = doing[u]
  BY <1>8 DEF Gate, AssertContract, ParseUnder, Raise, local
<1>9. ASSUME NEW t \in Threads, \/ Close(t) \/ Enter(t) \/ ReceiveHandshake(t)
                                \/ Note(t) \/ Install(t) \/ Confirm(t) \/ ParseDirectly(t)
      PROVE  pc'[u] = pc[u] /\ doing'[u] = doing[u]
  BY <1>9 DEF Close, Enter, ReceiveHandshake, Note, Install, Confirm, ParseDirectly,
     ParseUnder, local
<1>10. ASSUME NEW t \in Threads, \/ SpawnFails(t) \/ EncodeFails(t) \/ TransportFails(t)
                                 \/ ReceiveGarbage(t) \/ ReceiveRejected(t)
                                 \/ ReceiveIncompatible(t)
       PROVE  pc'[u] = pc[u] /\ doing'[u] = doing[u]
  BY <1>2, <1>10 DEF SpawnFails, EncodeFails, TransportFails, ReceiveGarbage,
     ReceiveRejected, ReceiveIncompatible
<1>11. CASE Answer \/ Die \/ UNCHANGED vars
  BY <1>1, <1>11 DEF Answer, Die, vars, local
<1> QED BY <1>4, <1>5, <1>6, <1>7, <1>8, <1>9, <1>10, <1>11, NextCases

LEMMA OwnIdStep ==
    ASSUME OwnId, OldIds, LockHeld, ThreadTyped, PipeTyped, Busy, [Next]_vars
    PROVE  OwnId'
<1> SUFFICES ASSUME NEW u \in Threads, pc'[u] \in Receiving,
                    NEW x \in Wire', x[1] = requestId'
             PROVE  x[2] = Sending(u)'
  BY DEF OwnId
<1>1. CASE /\ pc'[u] = pc[u] /\ doing'[u] = doing[u]
           /\ Wire' \subseteq Wire /\ requestId' = requestId
  BY <1>1 DEF OwnId, Sending
<1>2. ASSUME NEW t \in Threads, EncodeFails(t)
      PROVE  FALSE
  <2>1. pc[t] = "send" /\ pc'[t] = "idle"
    BY <1>2 DEF EncodeFails, Raise, Goto, ThreadTyped
  <2>2. lock = t
    BY <2>1 DEF LockHeld, Critical
  <2>3. u # t
    BY <2>1 DEF Receiving
  <2>4. ~Send(u)
    BY <2>2, <2>3 DEF Send, LockHeld, Critical
  <2>5. pc[u] \in Receiving
    BY <2>4, WaitSteps
  <2> QED BY <2>2, <2>3, <2>5 DEF LockHeld, Critical
<1>3. ASSUME NEW t \in Threads, Send(t),
             Wire' \subseteq Wire \cup {<<requestId + 1, Sending(t)>>}
      PROVE  x[2] = Sending(u)'
  <2>1. pc[t] \in {"send_info", "send"} /\ requestId' = requestId + 1
    BY <1>3 DEF Send
  <2>2. lock = t
    BY <2>1 DEF LockHeld, Critical
  <2>3. u = t
    <3>1. CASE Send(u)
      BY <2>2, <3>1 DEF Send, LockHeld, Critical
    <3>2. CASE pc[u] \in Receiving
      BY <2>2, <3>2 DEF LockHeld, Critical
    <3> QED BY <3>1, <3>2, WaitSteps
  <2>4. x = <<requestId + 1, Sending(t)>>
    BY <1>3, <2>1, TagsNat DEF OldIds, PipeTyped
  <2>5. Sending(t)' = Sending(t)
    BY <1>3 DEF Send, Sending, Goto, local, ThreadTyped
  <2> QED BY <2>3, <2>4, <2>5
<1>4. CASE Send(u)
  <2>1. pc[u] \in {"send_info", "send"} /\ requestId' = requestId + 1 /\ requestId \in Nat
    BY <1>4 DEF Send, PipeTyped
  <2>2. \E t \in Threads : /\ Send(t)
                           /\ Wire' \subseteq Wire \cup {<<requestId + 1, Sending(t)>>}
    BY <1>2, <2>1, WireSteps
  <2> QED BY <1>3, <2>2
<1> QED BY <1>1, <1>2, <1>3, <1>4, WireSteps, WaitSteps

LEMMA DoingStep == ASSUME DoingOwn, ThreadTyped, [Next]_vars PROVE DoingOwn'
<1>1. CASE UNCHANGED <<op, doing>>
  BY <1>1 DEF DoingOwn
<1>2. ASSUME NEW t \in Threads, Begin(t) PROVE DoingOwn'
  BY <1>2 DEF Begin, DoingOwn, ThreadTyped
<1>3. ASSUME NEW t \in Threads, ParseByProperty(t) PROVE DoingOwn'
  BY <1>1, <1>3 DEF ParseByProperty, DoingOwn, ThreadTyped
<1>4. CASE \E t \in Threads : Begin(t) \/ ParseByProperty(t)
  BY <1>2, <1>3, <1>4
<1>5. CASE UNCHANGED vars
  BY <1>1, <1>5 DEF vars, local
<1>6. CASE Next
  <2>1. \/ \E t \in Threads : Begin(t) \/ ParseByProperty(t)
        \/ UNCHANGED vars \/ UNCHANGED <<op, doing>>
    BY <1>6, NextCases DEF Close, Enter, Gate, Send, SpawnFails, EncodeFails,
       TransportFails, ReceiveGarbage, ReceiveRejected, ReceiveIncompatible,
       ReceiveHandshake, Receive, Note, Install, Confirm, ParseDirectly, AssertContract,
       Answer, Die, local
  <2> QED BY <2>1, <1>1, <1>4, <1>5
<1> QED BY <1>5, <1>6

LEMMA OwnAnswerStep ==
    ASSUME OwnAnswer, OwnId, DoingOwn, Typed, [Next]_vars
    PROVE  OwnAnswer'
<1> USE DEF Typed
<1>1. CASE UNCHANGED <<op, outcome>>
  BY <1>1 DEF OwnAnswer
<1>2. ASSUME NEW t \in Threads, outcome' = [outcome EXCEPT ![t] = NoOutcome],
             \A u \in Threads : u # t => op'[u] = op[u]
      PROVE  OwnAnswer'
  BY <1>2 DEF OwnAnswer, NoOutcome, OutcomeTyped
<1>3. ASSUME NEW t \in Threads, ParseUnder(t, contract), UNCHANGED op
      PROVE  OwnAnswer'
  BY <1>3 DEF OwnAnswer, ParseUnder, OutcomeTyped
<1>4. ASSUME NEW t \in Threads, Receive(t) PROVE OwnAnswer'
  <2>1. op' = op
    BY <1>4 DEF Receive
  <2>2. CASE UNCHANGED outcome
    BY <1>1, <2>1, <2>2
  <2>3. CASE outcome' = [outcome EXCEPT ![t] =
               [from |-> session, reply |-> Head(stdout).method, by |-> 0]]
             /\ Sending(t) # "get_info"
    <3>1. Head(stdout).method = Sending(t)
      <4>1. <<Head(stdout).id, Head(stdout).method>> \in Wire
        BY <1>4, TagsTail DEF Receive, Wire, PipeTyped
      <4>2. Head(stdout).id = requestId /\ pc[t] \in Receiving
        BY <1>4 DEF Receive, Accepts, Receiving
      <4> QED BY <4>1, <4>2 DEF OwnId
    <3>2. Sending(t) = op[t]
      BY <1>4, <2>3 DEF Receive, Sending, DoingOwn
    <3> QED BY <2>1, <2>3, <3>1, <3>2 DEF OwnAnswer, OutcomeTyped
  <2> QED BY <1>4, <2>2, <2>3 DEF Receive
<1>5. ASSUME NEW t \in Threads, Begin(t) PROVE OwnAnswer'
  BY <1>2, <1>5 DEF Begin, ThreadTyped
<1>6. ASSUME NEW t \in Threads, ParseDirectly(t) \/ ParseByProperty(t) \/ AssertContract(t)
      PROVE  OwnAnswer'
  BY <1>1, <1>2, <1>3, <1>6 DEF ParseDirectly, ParseByProperty, AssertContract, Raise, local
<1>7. ASSUME NEW t \in Threads, \/ Gate(t) \/ SpawnFails(t) \/ EncodeFails(t)
                                \/ TransportFails(t) \/ ReceiveGarbage(t)
                                \/ ReceiveRejected(t) \/ ReceiveIncompatible(t)
      PROVE  OwnAnswer'
  BY <1>1, <1>2, <1>7 DEF Gate, SpawnFails, EncodeFails, TransportFails, ReceiveGarbage,
     ReceiveRejected, ReceiveIncompatible, Raise, local
<1>8. ASSUME NEW t \in Threads, \/ Close(t) \/ Enter(t) \/ Send(t) \/ ReceiveHandshake(t)
                                \/ Note(t) \/ Install(t) \/ Confirm(t)
      PROVE  OwnAnswer'
  BY <1>1, <1>8 DEF Close, Enter, Send, ReceiveHandshake, Note, Install, Confirm, local
<1>9. CASE Answer \/ Die \/ UNCHANGED vars
  BY <1>1, <1>9 DEF Answer, Die, vars, local
<1> QED BY <1>4, <1>5, <1>6, <1>7, <1>8, <1>9, NextCases

LEMMA OwnAlways == Spec => []OwnInv
<1>1. Init => OwnInv
  <2> SUFFICES ASSUME Init PROVE OwnInv
    OBVIOUS
  <2>1. LockHeld /\ DoingOwn /\ OwnId
    BY DEF Init, LockHeld, DoingOwn, OwnId, Critical, Receiving
  <2>2. OldIds
    BY TagsEmpty DEF Init, OldIds, Wire
  <2>3. OwnAnswer
    BY DEF Init, OwnAnswer, NoOutcome
  <2> QED BY <2>1, <2>2, <2>3, InitTyped DEF OwnInv
<1>2. OwnInv /\ [Next]_vars => OwnInv'
  <2> SUFFICES ASSUME OwnInv, [Next]_vars PROVE OwnInv'
    OBVIOUS
  <2>1. Typed'
    BY ProcessStep, TermsStep, PipeStep, ThreadStep, OutcomeStep, PastStep DEF OwnInv, Typed
  <2>2. LockHeld'
    BY LockStep DEF OwnInv, Typed
  <2>3. OldIds' /\ OwnId'
    BY OldIdsStep, OwnIdStep DEF OwnInv, Typed
  <2>4. DoingOwn' /\ OwnAnswer'
    BY DoingStep, OwnAnswerStep DEF OwnInv, Typed
  <2> QED BY <2>1, <2>2, <2>3, <2>4 DEF OwnInv
<1> QED BY <1>1, <1>2, PTL DEF Spec

(* Theorem: the id test of _call_raw is enough for a call never to return   *)
(* the answer to another call, even when the process prints lines twice.    *)
THEOREM OwnAnswerAlways == Spec => []OwnAnswer
<1>1. OwnInv => OwnAnswer
  BY DEF OwnInv
<1> QED BY <1>1, OwnAlways, PTL

-----------------------------------------------------------------------------
(***************************************************************************)
(* What holds of the contract a client caches as long as get_info, which    *)
(* writes it after the lock is released, is not overtaken: nobody calls it, *)
(* directly or through the bridge_contract property, or one thread makes    *)
(* all the calls.  The run getinfo of MCBridgeClient shows that this is     *)
(* needed.                                                                  *)
(***************************************************************************)

InfoMethods == {"get_info"} \cup PropertyReaders
NoInfo      == Methods \cap InfoMethods = {}
OneCaller   == \A t, u \in Threads : t = u
Undisturbed == NoInfo \/ OneCaller

(* No thread is in the part of get_info that runs after the lock.           *)
Quiet ==
    \A t \in Threads : /\ op[t] \notin InfoMethods /\ doing[t] # "get_info"
                       /\ pc[t] \notin {"note", "install", "confirm", "assert"}

(* Without a session there is nothing to read.                              *)
SilentWithoutSession == 0 \notin alive /\ (session = 0 => stdout = <<>>)

LEMMA QuietRaise ==
    ASSUME Quiet, ThreadTyped, NEW t \in Threads, Raise(t), UNCHANGED local
    PROVE  Quiet'
  BY DEF Quiet, ThreadTyped, Raise, Goto, local

LEMMA QuietGoto ==
    ASSUME Quiet, ThreadTyped, NEW t \in Threads,
           NEW where \in PCs \ {"note", "install", "confirm", "assert"}, Goto(t, where),
           UNCHANGED <<op, doing>>
    PROVE  Quiet'
  BY DEF Quiet, ThreadTyped, Goto

LEMMA QuietStep == ASSUME NoInfo, Quiet, ThreadTyped, [Next]_vars PROVE Quiet'
<1> USE DEF PCs
<1>1. CASE UNCHANGED <<pc, op, doing>>
  BY <1>1 DEF Quiet
<1>2. ASSUME NEW t \in Threads, Begin(t) PROVE Quiet'
  <2>1. PICK m \in Methods : /\ op' = [op EXCEPT ![t] = m]
                             /\ doing' = [doing EXCEPT ![t] = m]
    BY <1>2 DEF Begin
  <2>2. m \notin InfoMethods
    BY <2>1 DEF NoInfo
  <2>3. pc' = [pc EXCEPT ![t] = "enter"]
    BY <1>2 DEF Begin, Goto
  <2> QED BY <2>1, <2>2, <2>3 DEF Quiet, ThreadTyped, InfoMethods
<1>3. ASSUME NEW t \in Threads, Receive(t) PROVE Quiet'
  <2>1. Sending(t) # "get_info"
    BY <1>3 DEF Receive, Sending, Quiet
  <2>2. PICK where \in {"parse", "idle"} : Goto(t, where)
    BY <1>3, <2>1 DEF Receive
  <2> QED BY <1>3, <2>2, QuietGoto DEF Receive
<1>4. ASSUME NEW t \in Threads, ParseByProperty(t) PROVE Quiet'
  BY <1>4 DEF ParseByProperty, Quiet, InfoMethods
<1>5. ASSUME NEW t \in Threads, Note(t) \/ Install(t) \/ Confirm(t) \/ AssertContract(t)
      PROVE  Quiet'
  BY <1>5 DEF Note, Install, Confirm, AssertContract, Quiet
<1>6. ASSUME NEW t \in Threads, Close(t) \/ Enter(t) \/ Send(t) PROVE Quiet'
  BY <1>6, QuietGoto DEF Close, Enter, Send, local
<1>7. ASSUME NEW t \in Threads, ReceiveHandshake(t) \/ ParseDirectly(t) PROVE Quiet'
  BY <1>7, QuietGoto DEF ReceiveHandshake, ParseDirectly, ParseUnder, local
<1>8. ASSUME NEW t \in Threads, Gate(t) PROVE Quiet'
  <2>1. CASE Raise(t)
    BY <1>8, <2>1, QuietRaise DEF Gate
  <2>2. CASE Goto(t, "send")
    BY <1>8, <2>2, QuietGoto DEF Gate, local
  <2> QED BY <1>8, <2>1, <2>2 DEF Gate
<1>9. ASSUME NEW t \in Threads, \/ SpawnFails(t) \/ EncodeFails(t) \/ TransportFails(t)
                                \/ ReceiveGarbage(t) \/ ReceiveRejected(t)
                                \/ ReceiveIncompatible(t)
      PROVE  Quiet'
  BY <1>9, QuietRaise DEF SpawnFails, EncodeFails, TransportFails, ReceiveGarbage,
     ReceiveRejected, ReceiveIncompatible
<1>10. CASE Answer \/ Die \/ UNCHANGED vars
  BY <1>1, <1>10 DEF Answer, Die, vars, local
<1> QED BY <1>2, <1>3, <1>4, <1>5, <1>6, <1>7, <1>8, <1>9, <1>10, NextCases

LEMMA SilentStep ==
    ASSUME SilentWithoutSession, ProcessTyped, [Next]_vars
    PROVE  SilentWithoutSession'
<1> USE DEF SilentWithoutSession, ProcessTyped
<1>1. CASE DropSession
  BY <1>1 DEF DropSession
<1>2. CASE Respawn
  <2>1. session' # 0 /\ alive' = (alive \ {session}) \cup {spawned + 1} /\ spawned + 1 # 0
    BY <1>2 DEF Respawn
  <2> QED BY <2>1
<1>3. CASE Die
  BY <1>3 DEF Die, pipe
<1>4. CASE UNCHANGED hold
  <2>1. CASE UNCHANGED pipe
    BY <1>4, <2>1 DEF hold, pipe
  <2>2. CASE PipeUnread
    BY <1>4, <2>2 DEF hold, PipeUnread
  <2>3. CASE \E t \in Threads : Send(t) \/ EncodeFails(t)
    <3>1. session \in alive
      BY <1>4, <2>3 DEF Send, EncodeFails, EnsureSession, Reuse, Respawn, hold
    <3> QED BY <1>4, <3>1 DEF hold
  <2>4. CASE Answer
    BY <1>4, <2>4 DEF hold, Answer
  <2> QED BY <1>1, <2>1, <2>2, <2>3, <2>4, PipeSteps
<1> QED BY <1>1, <1>2, <1>3, <1>4, HoldSteps DEF EnsureSession, Reuse

(* What get_info holds between its steps.                                   *)
Holding == OneCaller \/ Quiet
Held(t) == /\ pc[t] \in {"note", "install"} => hand[t] = session /\ session # 0
           /\ pc[t] = "install" => info = session
           /\ pc[t] = "confirm" => contract # 0
HeldAll == \A t \in Threads : Held(t)

(* The contract follows the session: together they stay, or it is forgotten,
   or it is received.                                                        *)
LEMMA ContractSteps ==
    ASSUME [Next]_vars
    PROVE  \/ UNCHANGED <<session, terms>>
           \/ ForgetContract
           \/ \E t \in Threads : ReceiveHandshake(t) \/ Note(t) \/ Install(t) \/ Confirm(t)
<1>1. CASE UNCHANGED vars
  BY <1>1 DEF vars, hold
<1>2. CASE Next
  BY <1>1, <1>2, NextCases DEF Begin, Close, Enter, Gate, Send, SpawnFails,
     EncodeFails, TransportFails, ReceiveGarbage, ReceiveRejected, ReceiveIncompatible,
     Receive, ParseDirectly, ParseByProperty, AssertContract, Answer, Die, DropSession,
     EnsureSession, Reuse, Respawn, hold
<1> QED BY <1>1, <1>2

LEMMA ContractStep ==
    ASSUME ContractIsCurrent, SilentWithoutSession, HeldAll, [Next]_vars
    PROVE  ContractIsCurrent'
<1>1. CASE UNCHANGED <<session, terms>>
  BY <1>1 DEF terms, ContractIsCurrent
<1>2. CASE ForgetContract
  BY <1>2 DEF ForgetContract, ContractIsCurrent
<1>3. CASE \E t \in Threads : ReceiveHandshake(t)
  BY <1>3 DEF ReceiveHandshake, hold, SilentWithoutSession, ContractIsCurrent
<1>4. CASE \E t \in Threads : Note(t) \/ Install(t) \/ Confirm(t)
  BY <1>4 DEF Note, Install, Confirm, hold, HeldAll, Held, ContractIsCurrent
<1> QED BY <1>1, <1>2, <1>3, <1>4, ContractSteps

(* Only its own steps bring a thread to where it holds a handshake.         *)
LEMMA HeldStep ==
    ASSUME Holding, Quiet' \/ OneCaller, HeldAll, SilentWithoutSession, ThreadTyped,
           [Next]_vars
    PROVE  HeldAll'
<1>1. CASE Quiet'
  BY <1>1 DEF HeldAll, Held, Quiet
<1>2. CASE OneCaller
  <2> SUFFICES ASSUME NEW u \in Threads PROVE Held(u)'
    BY DEF HeldAll
  <2> USE DEF Held, ThreadTyped
  <2>1. \A t \in Threads : t = u
    BY <1>2 DEF OneCaller
  <2>2. CASE pc'[u] \notin {"note", "install", "confirm"}
    BY <2>2
  <2>3. CASE UNCHANGED <<session, contract, info, pc, hand>>
    BY <2>3 DEF HeldAll
  <2>4. CASE Receive(u)
    BY <2>4 DEF Receive, Goto, hold, terms, SilentWithoutSession
  <2>5. CASE Note(u) \/ Install(u)
    BY <2>5 DEF Note, Install, Goto, hold, local, HeldAll
  <2>6. CASE Confirm(u)
    BY <2>2, <2>6 DEF Confirm, Goto
  <2>7. CASE Begin(u) \/ Close(u) \/ Enter(u) \/ Gate(u) \/ Send(u) \/ ReceiveHandshake(u)
    BY <2>2, <2>7 DEF Begin, Close, Enter, Gate, Send, ReceiveHandshake, Goto, Raise
  <2>8. CASE \/ SpawnFails(u) \/ EncodeFails(u) \/ TransportFails(u) \/ ReceiveGarbage(u)
             \/ ReceiveRejected(u) \/ ReceiveIncompatible(u)
    BY <2>2, <2>8 DEF SpawnFails, EncodeFails, TransportFails, ReceiveGarbage,
       ReceiveRejected, ReceiveIncompatible, Goto, Raise
  <2>9. CASE ParseDirectly(u) \/ ParseByProperty(u) \/ AssertContract(u)
    BY <2>2, <2>9 DEF ParseDirectly, ParseByProperty, AssertContract, ParseUnder, Goto, Raise
  <2>10. CASE Answer \/ Die \/ UNCHANGED vars
    BY <2>3, <2>10 DEF Answer, Die, vars, hold, terms, local
  <2> QED
    BY <2>1, <2>4, <2>5, <2>6, <2>7, <2>8, <2>9, <2>10, NextCases
<1> QED BY <1>1, <1>2

TrustInv == /\ Typed /\ Holding /\ HeldAll
            /\ SilentWithoutSession /\ ContractIsCurrent

LEMMA TrustAlways == ASSUME Undisturbed PROVE Spec => []TrustInv
<1>1. Init => TrustInv
  <2> SUFFICES ASSUME Init PROVE TrustInv
    OBVIOUS
  <2>1. Holding
    BY DEF Init, Holding, Quiet, InfoMethods, PropertyReaders
  <2>2. HeldAll /\ SilentWithoutSession /\ ContractIsCurrent
    BY DEF Init, HeldAll, Held, SilentWithoutSession, ContractIsCurrent
  <2> QED BY <2>1, <2>2, InitTyped DEF TrustInv
<1>2. TrustInv /\ [Next]_vars => TrustInv'
  <2> SUFFICES ASSUME TrustInv, [Next]_vars PROVE TrustInv'
    OBVIOUS
  <2>1. Typed'
    BY ProcessStep, TermsStep, PipeStep, ThreadStep, OutcomeStep, PastStep
       DEF TrustInv, Typed
  <2>2. Quiet' \/ OneCaller
    BY QuietStep DEF TrustInv, Typed, Holding, Undisturbed
  <2>3. HeldAll'
    BY <2>2, HeldStep DEF TrustInv, Typed
  <2>4. SilentWithoutSession' /\ ContractIsCurrent'
    BY SilentStep, ContractStep DEF TrustInv, Typed
  <2> QED BY <2>1, <2>2, <2>3, <2>4 DEF TrustInv, Holding
<1> QED BY <1>1, <1>2, PTL DEF Spec

(* Theorem: while no get_info is overtaken, the cached contract is that of   *)
(* the held process and _contract_checked never outlives it, however the     *)
(* process dies and whatever it prints.                                      *)
THEOREM ContractIsCurrentAlways ==
    ASSUME Undisturbed PROVE Spec => []ContractIsCurrent
<1>1. TrustInv => ContractIsCurrent
  BY DEF TrustInv
<1> QED BY <1>1, TrustAlways, PTL

-----------------------------------------------------------------------------
(* What a thread knows once call() has compared its method with the         *)
(* contract, and while it is about to.                                      *)
GateShaken ==
    \A t \in Threads : pc[t] = "gate" /\ doing[t] \notin Unguarded => contract # 0

SendAllowed ==
    \A t \in Threads : pc[t] = "send" => doing[t] \in Unguarded \cup Advertised

WireAdvertised == \A x \in Wire : x[2] \in Unguarded \cup Advertised

(* Only Enter, ReceiveHandshake and Gate bring a thread to the gate or past *)
(* it; until then its method is the one it began with.                      *)
LEMMA GateSteps ==
    ASSUME ThreadTyped, [Next]_vars, NEW u \in Threads, pc'[u] \in {"gate", "send"}
    PROVE  \/ pc'[u] = pc[u] /\ doing'[u] = doing[u]
           \/ Enter(u) \/ ReceiveHandshake(u) \/ Gate(u)
<1> USE DEF ThreadTyped, Goto
<1>1. CASE UNCHANGED <<pc, doing>>
  BY <1>1
<1>2. ASSUME NEW t \in Threads, Raise(t), UNCHANGED local
      PROVE  pc'[u] = pc[u] /\ doing'[u] = doing[u]
  BY <1>2 DEF Raise, local
<1>3. ASSUME NEW t \in Threads, Begin(t)
      PROVE  pc'[u] = pc[u] /\ doing'[u] = doing[u]
  BY <1>3 DEF Begin
<1>4. ASSUME NEW t \in Threads, Enter(t) \/ ReceiveHandshake(t) \/ Gate(t)
      PROVE  \/ pc'[u] = pc[u] /\ doing'[u] = doing[u]
             \/ Enter(u) \/ ReceiveHandshake(u) \/ Gate(u)
  BY <1>4 DEF Enter, ReceiveHandshake, Gate, Raise, local
<1>5. ASSUME NEW t \in Threads, Send(t) \/ Close(t)
      PROVE  pc'[u] = pc[u] /\ doing'[u] = doing[u]
  BY <1>5 DEF Send, Close, local
<1>6. ASSUME NEW t \in Threads, Receive(t)
      PROVE  pc'[u] = pc[u] /\ doing'[u] = doing[u]
  BY <1>6 DEF Receive
<1>7. ASSUME NEW t \in Threads, ParseByProperty(t)
      PROVE  pc'[u] = pc[u] /\ doing'[u] = doing[u]
  BY <1>7 DEF ParseByProperty, ParseUnder
<1>8. ASSUME NEW t \in Threads, \/ Note(t) \/ Install(t) \/ Confirm(t) \/ ParseDirectly(t)
                                \/ AssertContract(t)
      PROVE  pc'[u] = pc[u] /\ doing'[u] = doing[u]
  BY <1>8 DEF Note, Install, Confirm, ParseDirectly, AssertContract, ParseUnder, Raise, local
<1>9. ASSUME NEW t \in Threads, \/ SpawnFails(t) \/ EncodeFails(t) \/ TransportFails(t)
                                \/ ReceiveGarbage(t) \/ ReceiveRejected(t)
                                \/ ReceiveIncompatible(t)
      PROVE  pc'[u] = pc[u] /\ doing'[u] = doing[u]
  BY <1>2, <1>9 DEF SpawnFails, EncodeFails, TransportFails, ReceiveGarbage,
     ReceiveRejected, ReceiveIncompatible
<1>10. CASE Answer \/ Die \/ UNCHANGED vars
  BY <1>1, <1>10 DEF Answer, Die, vars, local
<1> QED BY <1>3, <1>4, <1>5, <1>6, <1>7, <1>8, <1>9, <1>10, NextCases

(* The lock keeps the contract where it is for a thread at the gate.        *)
LEMMA ContractStable ==
    ASSUME LockHeld, Holding, [Next]_vars, NEW u \in Threads, pc[u] = "gate"
    PROVE  contract' = contract
<1> USE DEF Critical, Receiving
<1>1. lock = u /\ lock # NoThread
  BY ClientAssumption DEF LockHeld
<1>2. ASSUME NEW t \in Threads, pc[t] \in Critical \ {"gate"} PROVE FALSE
  BY <1>1, <1>2 DEF LockHeld
<1>3. ASSUME NEW t \in Threads, \/ Close(t) \/ Enter(t) \/ Send(t) \/ SpawnFails(t)
                                \/ EncodeFails(t) \/ TransportFails(t) \/ ReceiveGarbage(t)
                                \/ ReceiveHandshake(t)
      PROVE  FALSE
  BY <1>1, <1>2, <1>3 DEF Close, Enter, Send, SpawnFails, EncodeFails, TransportFails,
     ReceiveGarbage, ReceiveHandshake
<1>4. ASSUME NEW t \in Threads, Note(t) \/ Install(t) \/ Confirm(t) \/ AssertContract(t) PROVE FALSE
  <2>1. pc[t] \in {"note", "install", "confirm", "assert"}
    BY <1>4 DEF Note, Install, Confirm, AssertContract
  <2> QED BY <2>1 DEF Holding, OneCaller, Quiet
<1>5. CASE UNCHANGED terms
  BY <1>5 DEF terms
<1>6. CASE Next
  BY <1>3, <1>4, <1>5, <1>6, NextCases DEF Begin, Gate, ReceiveRejected,
     ReceiveIncompatible, Receive, ParseDirectly, ParseByProperty, Answer, Die, vars
<1> QED BY <1>5, <1>6 DEF vars

LEMMA GateShakenStep ==
    ASSUME GateShaken, ContractIsCurrent, SilentWithoutSession, LockHeld, Holding,
           ThreadTyped, [Next]_vars
    PROVE  GateShaken'
<1> SUFFICES ASSUME NEW u \in Threads, pc'[u] = "gate", doing'[u] \notin Unguarded
             PROVE  contract' # 0
  BY DEF GateShaken
<1>1. CASE pc'[u] = pc[u] /\ doing'[u] = doing[u]
  BY <1>1, ContractStable DEF GateShaken
<1>2. CASE Enter(u)
  BY <1>2 DEF Enter, Sending, Goto, ThreadTyped, local, terms, ContractIsCurrent
<1>3. CASE ReceiveHandshake(u)
  BY <1>3 DEF ReceiveHandshake, SilentWithoutSession
<1>4. CASE Gate(u)
  BY <1>4 DEF Gate, Raise, Goto, ThreadTyped
<1> QED BY <1>1, <1>2, <1>3, <1>4, GateSteps

LEMMA SendAllowedStep ==
    ASSUME SendAllowed, GateShaken, ThreadTyped, [Next]_vars
    PROVE  SendAllowed'
<1> SUFFICES ASSUME NEW u \in Threads, pc'[u] = "send"
             PROVE  doing'[u] \in Unguarded \cup Advertised
  BY DEF SendAllowed
<1>1. CASE pc'[u] = pc[u] /\ doing'[u] = doing[u]
  BY <1>1 DEF SendAllowed
<1>2. CASE Gate(u)
  BY <1>2 DEF Gate, Raise, Sending, Goto, ThreadTyped, local, GateShaken
<1>3. CASE Enter(u) \/ ReceiveHandshake(u)
  BY <1>3 DEF Enter, ReceiveHandshake, Goto, ThreadTyped
<1> QED BY <1>1, <1>2, <1>3, GateSteps

LEMMA WireAdvertisedStep ==
    ASSUME WireAdvertised, SendAllowed, PipeTyped, Busy, [Next]_vars
    PROVE  WireAdvertised'
<1>1. CASE Wire' \subseteq Wire
  BY <1>1 DEF WireAdvertised
<1>2. ASSUME NEW t \in Threads, Send(t),
             Wire' \subseteq Wire \cup {<<requestId + 1, Sending(t)>>}
      PROVE  WireAdvertised'
  <2>1. Sending(t) \in Unguarded \cup Advertised
    BY <1>2 DEF Send, Sending, SendAllowed, Unguarded
  <2> QED BY <1>2, <2>1 DEF WireAdvertised
<1> QED BY <1>1, <1>2, WireSteps

(* Theorem: while no get_info is overtaken, the process is never sent an     *)
(* operation that its handshake does not advertise.                          *)
THEOREM OnlyAdvertisedAlways == ASSUME Undisturbed PROVE Spec => []OnlyAdvertised
<1>1. Init => LockHeld /\ GateShaken /\ SendAllowed /\ WireAdvertised
  <2> SUFFICES ASSUME Init PROVE LockHeld /\ GateShaken /\ SendAllowed /\ WireAdvertised
    OBVIOUS
  <2>1. LockHeld /\ GateShaken /\ SendAllowed
    BY DEF Init, LockHeld, GateShaken, SendAllowed, Critical, Receiving
  <2> QED BY <2>1, TagsEmpty DEF Init, WireAdvertised, Wire
<1>2. ASSUME TrustInv, LockHeld, GateShaken, SendAllowed, WireAdvertised, [Next]_vars
      PROVE  LockHeld' /\ GateShaken' /\ SendAllowed' /\ WireAdvertised'
  BY <1>2, LockStep, GateShakenStep, SendAllowedStep, WireAdvertisedStep DEF TrustInv, Typed
<1>3. WireAdvertised => OnlyAdvertised
  <2> SUFFICES ASSUME WireAdvertised, NEW i \in DOMAIN stdin
               PROVE  stdin[i].method \in Unguarded \cup Advertised
    BY DEF OnlyAdvertised
  <2>1. <<stdin[i].id, stdin[i].method>> \in Wire
    BY DEF Wire, Tags
  <2>2. <<stdin[i].id, stdin[i].method>>[2] \in Unguarded \cup Advertised
    BY <2>1 DEF WireAdvertised
  <2> QED BY <2>2
<1> QED BY <1>1, <1>2, <1>3, TrustAlways, PTL DEF Spec

-----------------------------------------------------------------------------
(* A client that has not replaced its process yet: it has none, or the first *)
(* one runs.  get_info may be called from any thread here, for what it holds *)
(* cannot become stale, and no step leads back once the process is lost.     *)
(* The run respawn shows that a death is enough to break what follows.       *)
Young == spawned = 0 \/ FirstRuns

Readers == DirectReaders \cup PropertyReaders

(* The session, once there is one, is alive, and whatever is known of a     *)
(* contract is known of that session.                                       *)
World ==
    /\ 0 \notin alive /\ (session # 0 => session \in alive)
    /\ alive \subseteq {session} /\ (spawned = 0 => session = 0)
    /\ session = 0 => shaken = {} /\ stdin = <<>> /\ stdout = <<>>
    /\ shaken \subseteq {session} /\ contract \in shaken \cup {0}
    /\ checked => contract # 0

(* What a thread relies on. *)
Relies(t) ==
    /\ doing[t] = op[t] /\ pc[t] # "assert"
    /\ pc[t] \in {"gate", "send", "recv", "parse"} /\ doing[t] \notin Unguarded => contract # 0
    /\ pc[t] \in {"note", "install"} => hand[t] \in shaken
    /\ pc[t] = "confirm" => contract # 0
    /\ pc[t] \in {"note", "install", "confirm"} => op[t] = "get_info"
    /\ pc[t] = "parse" => op[t] \in Readers /\ outcome[t].from = session
    /\ pc[t] = "idle" /\ outcome[t].from # 0 /\ op[t] \in Readers => outcome[t].by = outcome[t].from

WireShaken == \A x \in Wire : x[2] \notin Unguarded => contract # 0

FirstKnown == World /\ WireShaken /\ \A t \in Threads : Relies(t)
FirstInv   == Typed /\ (Young => FirstKnown)

(* What was shaken stays so, and a contract stays with its session. *)
Lasts ==
    /\ contract # 0 => contract' = contract /\ session' = session
    /\ shaken \subseteq shaken'

(* No step makes a client young again. *)
LEMMA YoungBefore == ASSUME ProcessTyped, Young', [Next]_vars PROVE Young
<1> USE DEF Young, FirstRuns, ProcessTyped
<1>1. CASE UNCHANGED hold
  BY <1>1 DEF hold
<1>2. CASE Respawn
  BY <1>2 DEF Respawn
<1>3. CASE DropSession \/ Die
  BY <1>3 DEF DropSession, Die
<1> QED BY <1>1, <1>2, <1>3, HoldSteps DEF EnsureSession, Reuse

(* The first process is lost for good when it is closed or dies. *)
LEMMA YoungKeeps ==
    ASSUME World, Young', DropSession \/ Die PROVE spawned = 0 /\ DropSession
<1>1. alive' = alive \ {session} /\ spawned' = spawned
  BY DEF DropSession, Die
<1>2. 1 \notin alive'
  BY <1>1 DEF World
<1>3. spawned = 0
  BY <1>1, <1>2 DEF Young, FirstRuns
<1> QED BY <1>3 DEF World, Die

LEMMA WorldStep ==
    ASSUME Typed, FirstKnown, Young', [Next]_vars PROVE World' /\ Lasts
<1> USE DEF World, Lasts
<1>0. Typed /\ World /\ \A t \in Threads : Relies(t)
  BY DEF FirstKnown
<1>1. CASE UNCHANGED <<hold, terms, shaken>> /\ (session = 0 => UNCHANGED <<stdin, stdout>>)
  BY <1>0, <1>1 DEF hold, terms
<1>2. CASE EnsureSession /\ UNCHANGED shaken
  <2>1. CASE Reuse
    BY <1>0, <1>2, <2>1 DEF Reuse, hold, terms
  <2>2. CASE Respawn
    <3>1. session = 0 /\ contract = 0 /\ shaken = {}
      BY <1>0, <2>2 DEF Respawn
    <3>2. /\ session' = spawned + 1 /\ spawned + 1 # 0 /\ alive' = (alive \ {session}) \cup {spawned + 1}
          /\ contract' = 0 /\ ~checked' /\ spawned' = spawned + 1
      BY <1>0, <2>2 DEF Respawn, ForgetContract, Typed, ProcessTyped
    <3> QED BY <1>0, <1>2, <3>1, <3>2
  <2> QED BY <1>2, <2>1, <2>2 DEF EnsureSession
<1>3. ASSUME NEW t \in Threads, Send(t) \/ EncodeFails(t) PROVE World' /\ Lasts
  BY <1>2, <1>3 DEF Send, EncodeFails, past
<1>4. ASSUME NEW t \in Threads, SpawnFails(t) PROVE World' /\ Lasts
  <2>1. session = 0 /\ contract = 0
    BY <1>0, <1>4 DEF SpawnFails
  <2>2. contract' = 0 /\ ~checked' /\ UNCHANGED <<hold, stdin, stdout, shaken>>
    BY <1>4 DEF SpawnFails, ForgetContract, pipe, past
  <2> QED BY <1>0, <2>1, <2>2 DEF hold
<1>5. ASSUME NEW t \in Threads, TransportFails(t) PROVE World' /\ Lasts
  <2>1. session = 0 /\ contract = 0 /\ shaken = {}
    BY <1>0, <1>5 DEF TransportFails
  <2>2. /\ contract' = 0 /\ ~checked' /\ session' = 0 /\ alive' = alive \ {session}
        /\ stdin' = <<>> /\ stdout' = <<>> /\ shaken' = shaken
    BY <1>5 DEF TransportFails, DropSession, ForgetContract, past
  <2> QED BY <1>0, <2>1, <2>2
<1>6. ASSUME NEW t \in Threads, ReceiveHandshake(t) \/ Receive(t) PROVE World' /\ Lasts
  <2>1. session # 0
    BY <1>0, <1>6 DEF ReceiveHandshake, Receive
  <2>2. /\ shaken' = shaken \cup {session} \/ shaken' = shaken
        /\ session' = session /\ alive' = alive /\ spawned' = spawned
        /\ \/ contract' = contract /\ checked' = checked
           \/ contract' = session /\ session \in shaken'
    BY <1>6 DEF ReceiveHandshake, Receive, hold, terms
  <2> QED BY <1>0, <2>1, <2>2
<1>7. ASSUME NEW t \in Threads, Install(t) PROVE World' /\ Lasts
  <2>1. hand[t] \in shaken /\ contract' = hand[t] /\ checked' = checked /\ UNCHANGED <<hold, pipe, shaken>>
    BY <1>0, <1>7 DEF Install, Relies, past
  <2>2. hand[t] = session /\ session # 0
    BY <1>0, <2>1
  <2> QED BY <1>0, <2>1, <2>2 DEF hold, pipe
<1>8. ASSUME NEW t \in Threads, Confirm(t) PROVE World' /\ Lasts
  <2>1. contract # 0 /\ contract' = contract /\ UNCHANGED <<hold, pipe, shaken>>
    BY <1>0, <1>8 DEF Confirm, Relies, past
  <2> QED BY <1>0, <2>1 DEF hold, pipe
<1>9. ASSUME NEW t \in Threads, ReceiveRejected(t) \/ ReceiveIncompatible(t) PROVE World' /\ Lasts
  <2>1. session # 0 /\ UNCHANGED <<hold, terms, shaken>>
    BY <1>0, <1>9 DEF ReceiveRejected, ReceiveIncompatible, past
  <2> QED BY <1>1, <2>1
<1>10. ASSUME NEW t \in Threads, Close(t) \/ ReceiveGarbage(t) PROVE World' /\ Lasts
  <2>1. DropSession /\ shaken' = shaken
    BY <1>10 DEF Close, ReceiveGarbage, past
  <2>2. spawned = 0 /\ session = 0 /\ contract = 0
    BY <1>0, <2>1, YoungKeeps
  <2>3. /\ contract' = 0 /\ ~checked' /\ session' = 0 /\ alive' = alive \ {session}
        /\ stdin' = <<>> /\ stdout' = <<>>
    BY <2>1 DEF DropSession, ForgetContract
  <2> QED BY <1>0, <2>1, <2>2, <2>3
<1>11. CASE Answer
  <2>1. session # 0 /\ UNCHANGED <<hold, terms, shaken>>
    BY <1>0, <1>11 DEF Answer, past
  <2> QED BY <1>1, <2>1
<1>12. ASSUME NEW t \in Threads, \/ Begin(t) \/ Enter(t) \/ Gate(t) \/ ParseDirectly(t)
                                 \/ ParseByProperty(t) \/ AssertContract(t)
       PROVE  World' /\ Lasts
  <2>1. UNCHANGED <<hold, terms, shaken, stdin, stdout>>
    BY <1>12 DEF Begin, Enter, Gate, ParseDirectly, ParseByProperty, AssertContract, past, pipe
  <2> QED BY <1>1, <2>1
<1>13. CASE Die
  BY <1>0, <1>13, YoungKeeps DEF Die
<1>14. CASE UNCHANGED vars
  BY <1>1, <1>14 DEF vars, past, pipe
<1>15. ASSUME NEW t \in Threads, Note(t) PROVE World' /\ Lasts
  <2>1. contract' = contract /\ checked' = checked /\ UNCHANGED <<hold, pipe, shaken>>
    BY <1>15 DEF Note, past
  <2> QED BY <1>0, <2>1 DEF hold, pipe
<1> QED BY <1>3, <1>4, <1>5, <1>6, <1>7, <1>8, <1>9, <1>10, <1>11, <1>12, <1>13, <1>14, <1>15,
           NextCases

(* A thread that does not move keeps what it relies on. *)
LEMMA ReliesStays ==
    ASSUME Lasts, NEW u \in Threads, Relies(u),
           pc'[u] = pc[u], op'[u] = op[u], doing'[u] = doing[u], hand'[u] = hand[u],
           outcome'[u] = outcome[u]
    PROVE  Relies(u)'
<1>1. pc[u] = "parse" => contract # 0
  BY DEF Relies, Readers, DirectReaders, PropertyReaders, Unguarded
<1> QED BY <1>1 DEF Relies, Lasts

(* ... and so do all the others when one moves. *)
LEMMA ReliesOfOthers ==
    ASSUME Typed, Lasts, \A u \in Threads : Relies(u), NEW t \in Threads, Relies(t)',
           \A u \in Threads : u # t => /\ pc'[u] = pc[u] /\ op'[u] = op[u] /\ doing'[u] = doing[u]
                                       /\ hand'[u] = hand[u] /\ outcome'[u] = outcome[u]
    PROVE  \A u \in Threads : Relies(u)'
  BY ReliesStays

(* A call that raises relies on nothing. *)
LEMMA ReliesRaise ==
    ASSUME Typed, NEW t \in Threads, Relies(t), Raise(t), UNCHANGED local
    PROVE  Relies(t)'
<1>1. /\ pc'[t] = "idle" /\ outcome'[t] = NoOutcome /\ UNCHANGED <<op, doing>>
  BY DEF Raise, Goto, Typed, ThreadTyped, OutcomeTyped, local
<1> QED BY <1>1 DEF Relies, NoOutcome

LEMMA RaiseAlone ==
    ASSUME Typed, NEW t \in Threads, Raise(t), UNCHANGED local
    PROVE  \A u \in Threads : u # t => /\ pc'[u] = pc[u] /\ op'[u] = op[u] /\ doing'[u] = doing[u]
                                       /\ hand'[u] = hand[u] /\ outcome'[u] = outcome[u]
  BY DEF Raise, Goto, Typed, ThreadTyped, OutcomeTyped, local

LEMMA ReliesStep ==
    ASSUME Typed, FirstKnown, Lasts, World', Young', [Next]_vars PROVE \A u \in Threads : Relies(u)'
<1> DEFINE Alone(t) == \A u \in Threads : u # t => /\ pc'[u] = pc[u] /\ op'[u] = op[u] /\ doing'[u] = doing[u]
                                                   /\ hand'[u] = hand[u] /\ outcome'[u] = outcome[u]
<1> USE DEF Goto
<1>0. Typed /\ World /\ \A t \in Threads : Relies(t)
  BY DEF FirstKnown
<1>1. /\ pc \in [Threads -> PCs] /\ op \in [Threads -> AllMethods \cup {"none"}]
      /\ doing \in [Threads -> AllMethods \cup {"none"}] /\ hand \in [Threads -> Nat]
      /\ outcome \in [Threads -> [from : Nat, reply : AllMethods \cup {"none"}, by : Nat]]
  BY <1>0 DEF Typed, ThreadTyped, OutcomeTyped
<1>2. ASSUME NEW t \in Threads, Relies(t)', Alone(t) PROVE \A u \in Threads : Relies(u)'
  BY <1>0, <1>2, ReliesOfOthers
<1> USE DEF Relies
<1>3. ASSUME NEW t \in Threads, Begin(t) PROVE \A u \in Threads : Relies(u)'
  <2>1. PICK m \in Methods : op' = [op EXCEPT ![t] = m] /\ doing' = [doing EXCEPT ![t] = m]
    BY <1>3 DEF Begin
  <2>3. pc' = [pc EXCEPT ![t] = "enter"] /\ outcome' = [outcome EXCEPT ![t] = NoOutcome] /\ hand' = hand
    BY <1>3 DEF Begin
  <2>4. Relies(t)' /\ Alone(t)
    BY <1>1, <2>1, <2>3 DEF NoOutcome
  <2> QED BY <1>2, <2>4
<1>4. ASSUME NEW t \in Threads, Enter(t) PROVE \A u \in Threads : Relies(u)'
  <2>1. /\ UNCHANGED <<op, doing, hand, outcome, contract>>
        /\ pc' = [pc EXCEPT ![t] = IF doing[t] \in Unguarded \/ checked THEN "gate" ELSE "send_info"]
    BY <1>4 DEF Enter, local, terms, Sending
  <2>2. pc'[t] \in {"gate", "send_info"} /\ (pc'[t] = "gate" /\ doing[t] \notin Unguarded => checked)
    BY <1>1, <2>1
  <2>3. Relies(t)' /\ Alone(t)
    BY <1>0, <1>1, <2>1, <2>2 DEF World
  <2> QED BY <1>2, <2>3
<1>5. ASSUME NEW t \in Threads, Raise(t), UNCHANGED local PROVE \A u \in Threads : Relies(u)'
  BY <1>0, <1>2, <1>5, ReliesRaise, RaiseAlone
<1>6. ASSUME NEW t \in Threads, Gate(t) PROVE \A u \in Threads : Relies(u)'
  <2>1. CASE Raise(t)
    BY <1>5, <1>6, <2>1 DEF Gate
  <2>2. CASE pc' = [pc EXCEPT ![t] = "send"] /\ UNCHANGED outcome
    <3>1. pc[t] = "gate" /\ UNCHANGED <<op, doing, hand>>
      BY <1>6 DEF Gate, local
    <3>2. Relies(t)' /\ Alone(t)
      BY <1>0, <1>1, <2>2, <3>1 DEF Lasts
    <3> QED BY <1>2, <3>2
  <2> QED BY <1>6, <2>1, <2>2 DEF Gate
<1>7. ASSUME NEW t \in Threads, Send(t) PROVE \A u \in Threads : Relies(u)'
  <2>1. /\ pc[t] \in {"send_info", "send"} /\ UNCHANGED <<op, doing, hand, outcome>>
        /\ pc' = [pc EXCEPT ![t] = IF pc[t] = "send_info" THEN "recv_info" ELSE "recv"]
    BY <1>7 DEF Send, local
  <2>2. pc'[t] = "recv_info" \/ (pc'[t] = "recv" /\ pc[t] = "send")
    BY <1>1, <2>1
  <2>3. Relies(t)' /\ Alone(t)
    BY <1>0, <1>1, <2>1, <2>2 DEF Lasts
  <2> QED BY <1>2, <2>3
<1>8. ASSUME NEW t \in Threads, ReceiveHandshake(t) PROVE \A u \in Threads : Relies(u)'
  <2>1. session # 0
    BY <1>0, <1>8 DEF ReceiveHandshake, World
  <2>2. /\ pc' = [pc EXCEPT ![t] = "gate"] /\ UNCHANGED <<op, doing, hand, outcome>> /\ contract' # 0
    BY <1>8, <2>1 DEF ReceiveHandshake, local
  <2>3. Relies(t)' /\ Alone(t)
    BY <1>0, <1>1, <2>2
  <2> QED BY <1>2, <2>3
<1>9. ASSUME NEW t \in Threads, Receive(t) PROVE \A u \in Threads : Relies(u)'
  <2>1. /\ pc[t] = "recv" /\ Sending(t) = doing[t] /\ doing[t] = op[t]
        /\ UNCHANGED <<op, doing>> /\ session' = session
    BY <1>0, <1>9 DEF Receive, Sending, hold
  <2>2. CASE doing[t] = "get_info"
    <3>1. /\ hand' = [hand EXCEPT ![t] = session] /\ session \in shaken'
          /\ pc' = [pc EXCEPT ![t] = "note"] /\ UNCHANGED outcome
      BY <1>9, <2>1, <2>2 DEF Receive
    <3>2. Relies(t)' /\ Alone(t)
      BY <1>0, <1>1, <2>1, <2>2, <3>1
    <3> QED BY <1>2, <3>2
  <2>3. CASE doing[t] # "get_info"
    <3>1. /\ outcome' = [outcome EXCEPT ![t] =
                 [from |-> session, reply |-> Head(stdout).method, by |-> 0]]
          /\ pc' = [pc EXCEPT ![t] = IF op[t] \in Readers THEN "parse" ELSE "idle"]
          /\ UNCHANGED hand
      BY <1>9, <2>1, <2>3 DEF Receive, Readers
    <3>2. outcome'[t].from = session /\ (pc'[t] = "parse" <=> op[t] \in Readers) /\ pc'[t] \in {"parse", "idle"}
      BY <1>1, <3>1
    <3>3. op[t] \in Readers => op[t] \notin Unguarded
      BY DEF Readers, DirectReaders, PropertyReaders, Unguarded
    <3>4. Relies(t)' /\ Alone(t)
      BY <1>0, <1>1, <2>1, <3>1, <3>2, <3>3 DEF Lasts
    <3> QED BY <1>2, <3>4
  <2> QED BY <2>2, <2>3
<1>10. ASSUME NEW t \in Threads, Install(t) PROVE \A u \in Threads : Relies(u)'
  <2>1. /\ pc' = [pc EXCEPT ![t] = "confirm"] /\ UNCHANGED <<op, doing, hand, outcome>>
        /\ contract' = hand[t] /\ hand[t] \in shaken /\ op[t] = "get_info"
    BY <1>0, <1>10 DEF Install, local
  <2>2. contract' # 0
    BY <1>0, <2>1 DEF World
  <2>3. Relies(t)' /\ Alone(t)
    BY <1>0, <1>1, <2>1, <2>2
  <2> QED BY <1>2, <2>3
<1>11. ASSUME NEW t \in Threads, Confirm(t) PROVE \A u \in Threads : Relies(u)'
  <2>1. /\ pc' = [pc EXCEPT ![t] = "idle"] /\ UNCHANGED <<op, doing, hand, outcome>> /\ op[t] = "get_info"
    BY <1>0, <1>11 DEF Confirm, local
  <2>2. "get_info" \notin Readers
    BY DEF Readers, DirectReaders, PropertyReaders
  <2>3. Relies(t)' /\ Alone(t)
    BY <1>0, <1>1, <2>1, <2>2
  <2> QED BY <1>2, <2>3
<1>12. ASSUME NEW t \in Threads, ParseDirectly(t) \/ ParseByProperty(t) PROVE \A u \in Threads : Relies(u)'
  <2>1. pc[t] = "parse" /\ op[t] \in Readers /\ doing[t] = op[t] /\ outcome[t].from = session
    BY <1>0, <1>12 DEF ParseDirectly, ParseByProperty
  <2>2. contract # 0 /\ contract = session
    BY <1>0, <2>1 DEF World, Readers, DirectReaders, PropertyReaders, Unguarded
  <2>3. /\ outcome' = [outcome EXCEPT ![t].by = contract] /\ pc' = [pc EXCEPT ![t] = "idle"]
        /\ UNCHANGED <<op, doing, hand>>
    BY <1>12, <2>2 DEF ParseDirectly, ParseByProperty, ParseUnder, local
  <2>4. outcome'[t].by = contract /\ outcome'[t].from = session
    BY <1>1, <2>1, <2>3
  <2>5. Relies(t)' /\ Alone(t)
    BY <1>0, <1>1, <2>1, <2>2, <2>3, <2>4
  <2> QED BY <1>2, <2>5
<1>13. ASSUME NEW t \in Threads, Close(t) \/ AssertContract(t) PROVE \A u \in Threads : Relies(u)'
  <2>1. Close(t)
    BY <1>0, <1>13 DEF AssertContract
  <2>2. /\ op[t] = "close" /\ pc' = [pc EXCEPT ![t] = "idle"]
        /\ UNCHANGED <<op, doing, hand, outcome>>
    BY <2>1 DEF Close, local
  <2>3. "close" \notin Readers
    BY DEF Readers, DirectReaders, PropertyReaders
  <2>4. Relies(t)' /\ Alone(t)
    BY <1>0, <1>1, <2>2, <2>3
  <2> QED BY <1>2, <2>4
<1>14. ASSUME NEW t \in Threads, \/ SpawnFails(t) \/ EncodeFails(t) \/ TransportFails(t)
                                 \/ ReceiveGarbage(t) \/ ReceiveRejected(t) \/ ReceiveIncompatible(t)
       PROVE  \A u \in Threads : Relies(u)'
  BY <1>5, <1>14 DEF SpawnFails, EncodeFails, TransportFails, ReceiveGarbage, ReceiveRejected,
     ReceiveIncompatible
<1>15. ASSUME NEW t \in Threads, Note(t) PROVE \A u \in Threads : Relies(u)'
  <2>1. /\ pc[t] = "note" /\ pc' = [pc EXCEPT ![t] = "install"]
        /\ UNCHANGED <<op, doing, hand, outcome>>
    BY <1>15 DEF Note, local
  <2>2. Relies(t)' /\ Alone(t)
    BY <1>0, <1>1, <2>1 DEF Lasts
  <2> QED BY <1>2, <2>2
<1>16. CASE Answer \/ Die \/ UNCHANGED vars
  <2>1. UNCHANGED <<pc, op, doing, hand, outcome>>
    BY <1>16 DEF Answer, Die, vars, local
  <2> HIDE DEF Relies
  <2> QED BY <1>0, <2>1, ReliesStays
<1> HIDE DEF Relies
<1> QED BY <1>3, <1>4, <1>6, <1>7, <1>8, <1>9, <1>10, <1>11, <1>12, <1>13, <1>14, <1>15, <1>16,
           NextCases

LEMMA WireShakenStep ==
    ASSUME Typed, FirstKnown, Lasts, [Next]_vars PROVE WireShaken'
<1>0. Typed /\ WireShaken /\ \A t \in Threads : Relies(t)
  BY DEF FirstKnown
<1>1. CASE Wire' \subseteq Wire
  BY <1>0, <1>1 DEF WireShaken, Lasts
<1>2. ASSUME NEW t \in Threads, Send(t), Wire' \subseteq Wire \cup {<<requestId + 1, Sending(t)>>}
      PROVE  WireShaken'
  <2>1. Sending(t) \notin Unguarded => contract # 0
    BY <1>0, <1>2 DEF Send, Sending, Relies, Unguarded
  <2> DEFINE tag == <<requestId + 1, Sending(t)>>
  <2>2. tag[2] = Sending(t) /\ Wire' \subseteq Wire \cup {tag}
    BY <1>2
  <2> HIDE DEF tag
  <2> QED BY <1>0, <2>1, <2>2 DEF WireShaken, Lasts
<1> QED BY <1>0, <1>1, <1>2, WireSteps DEF Typed

LEMMA FirstAlways == Spec => []FirstInv
<1>1. Init => FirstInv
  <2> SUFFICES ASSUME Init PROVE FirstInv
    OBVIOUS
  <2>1. World
    BY DEF Init, World
  <2>2. WireShaken
    BY TagsEmpty DEF Init, WireShaken, Wire
  <2>3. \A t \in Threads : Relies(t)
    BY DEF Init, Relies, NoOutcome
  <2> QED BY <2>1, <2>2, <2>3, InitTyped DEF FirstInv, FirstKnown
<1>2. FirstInv /\ [Next]_vars => FirstInv'
  <2> SUFFICES ASSUME FirstInv, [Next]_vars PROVE FirstInv'
    OBVIOUS
  <2>1. Typed /\ Typed'
    BY ProcessStep, TermsStep, PipeStep, ThreadStep, OutcomeStep, PastStep DEF FirstInv, Typed
  <2>2. ASSUME Young' PROVE FirstKnown'
    <3>1. FirstKnown
      BY <2>1, <2>2, YoungBefore DEF FirstInv, Typed
    <3>2. World' /\ Lasts
      BY <2>1, <2>2, <3>1, WorldStep
    <3>3. WireShaken' /\ \A t \in Threads : Relies(t)'
      BY <2>1, <2>2, <3>1, <3>2, WireShakenStep, ReliesStep
    <3> QED BY <3>2, <3>3 DEF FirstKnown
  <2> QED BY <2>1, <2>2 DEF FirstInv
<1> QED BY <1>1, <1>2, PTL DEF Spec

(* Theorem: to the first process of a client, as long as it runs, no          *)
(* operation is sent before its valid handshake was received; for any threads *)
(* that call, shake hands and close, and whatever the process prints.         *)
THEOREM FirstShakenAlways == Spec => []FirstShaken
<1>1. FirstInv => FirstShaken
  <2> SUFFICES ASSUME FirstKnown, NEW i \in DOMAIN stdin, stdin[i].method \notin Unguarded
               PROVE  session \in shaken
    BY DEF FirstInv, Young, FirstShaken, ShakenFirst
  <2> DEFINE tag == <<stdin[i].id, stdin[i].method>>
  <2>1. tag \in Wire /\ tag[2] = stdin[i].method
    BY DEF Wire, Tags
  <2> HIDE DEF tag
  <2>2. contract # 0
    BY <2>1 DEF FirstKnown, WireShaken
  <2> QED BY <2>2 DEF FirstKnown, World
<1> QED BY <1>1, FirstAlways, PTL

(* Theorem: as long as the first process of a client runs, a result is parsed *)
(* under the contract negotiated with the process that gave it, never under   *)
(* another one and never untyped, although the contract is read after the     *)
(* lock is released.                                                          *)
THEOREM FirstParsedAlways == Spec => []FirstParsed
<1>1. FirstInv => FirstParsed
  BY DEF FirstInv, FirstKnown, Young, FirstParsed, Relies, Readers, ParsedByOwnContract
<1> QED BY <1>1, FirstAlways, PTL

(* With its first process a client is right to trust what it has cached.     *)
THEOREM FirstTrustedAlways == Spec => []FirstTrusted
<1>1. FirstShaken /\ FirstParsed => FirstTrusted
  BY DEF FirstTrusted
<1> QED BY <1>1, FirstShakenAlways, FirstParsedAlways, PTL

-----------------------------------------------------------------------------
(***************************************************************************)
(* The client implements Service.  A step of the client changes what        *)
(* callers see in four ways: it begins a call, answers one, ends one, or    *)
(* cannot be seen; and whatever it does, its processes start and stop as    *)
(* Service lets them.                                                       *)
(***************************************************************************)

(* A session is a process that was started last, or none.                   *)
SessionIsLast == session \in {0, spawned}

(* A call that is still to be answered itself has no answer yet: what it    *)
(* asks after its answer is get_info, for the contract.                     *)
Unanswered ==
    \A t \in Threads :
        pc[t] \notin {"idle", "parse"} /\ doing[t] = op[t] => outcome[t].from = 0

LEMMA SessionStep == ASSUME SessionIsLast, ProcessTyped, [Next]_vars PROVE SessionIsLast'
<1>1. CASE UNCHANGED hold
  BY <1>1 DEF hold, SessionIsLast
<1>2. CASE Respawn
  BY <1>2 DEF Respawn, SessionIsLast
<1>3. CASE DropSession
  BY <1>3 DEF DropSession, SessionIsLast
<1>4. CASE Die
  BY <1>4 DEF Die, SessionIsLast
<1> QED BY <1>1, <1>2, <1>3, <1>4, HoldSteps DEF EnsureSession, Reuse

(* The calls and the answers after a step, from what it does to one thread. *)
LEMMA CallsStay ==
    ASSUME op' = op, \A u \in Threads : pc'[u] = "idle" <=> pc[u] = "idle"
    PROVE  Calls' = Calls
  BY DEF Calls, Call

LEMMA CallEnds ==
    ASSUME NEW t \in Threads, op' = op, pc[t] # "idle", pc'[t] = "idle",
           \A u \in Threads \ {t} : pc'[u] = pc[u]
    PROVE  Call(t) \in Calls /\ Calls' = Calls \ {Call(t)}
  BY DEF Calls, Call

LEMMA AnswersStay ==
    ASSUME \A u \in Threads : /\ outcome'[u].from = outcome[u].from
                             /\ outcome'[u].reply = outcome[u].reply
    PROVE  Answers' = Answers
  BY DEF Answers, Given

LEMMA AnswerLost ==
    ASSUME OutcomeTyped, NEW t \in Threads, outcome' = [outcome EXCEPT ![t] = NoOutcome]
    PROVE  Answers' = Promise!Others(Answers, t)
<1>1. outcome'[t].from = 0 /\ \A u \in Threads \ {t} : outcome'[u] = outcome[u]
  BY DEF OutcomeTyped, NoOutcome
<1> QED BY <1>1 DEF Answers, Given, Promise!Others

(* The processes of a client are those of Service.                          *)
LEMMA Manages ==
    ASSUME OneProcess, [Next]_vars
    PROVE  Promise!Manage
<1> USE DEF Promise!Manage, Promise!Start, Promise!Stop
<1>1. CASE UNCHANGED hold
  BY <1>1 DEF hold
<1>2. CASE Respawn
  <2>1. alive = {} /\ alive' = {spawned + 1} /\ spawned' = spawned + 1
    BY <1>2 DEF Respawn, OneProcess
  <2> QED BY <2>1
<1>3. CASE DropSession \/ Die
  <2>1. alive' = {} /\ UNCHANGED spawned
    BY <1>3 DEF DropSession, Die, OneProcess
  <2> QED BY <2>1
<1> QED BY <1>1, <1>2, <1>3, HoldSteps DEF EnsureSession, Reuse

(* The kinds of step that can be seen, and those that cannot.               *)
LEMMA Unseen ==
    ASSUME Promise!Manage, Calls' = Calls, Answers' = Answers
    PROVE  Promise!Next
  BY DEF Promise!Next

LEMMA Returns ==
    ASSUME Promise!Manage, NEW t \in Threads, Call(t) \in Calls,
           Calls' = Calls \ {Call(t)},
           Answers' = Answers \/ Answers' = Promise!Others(Answers, t)
    PROVE  Promise!Next
  BY DEF Promise!Next, Promise!Return, Call

LEMMA UnansweredStep ==
    ASSUME Unanswered, Typed, DoingOwn, [Next]_vars
    PROVE  Unanswered'
<1> USE DEF Typed, ThreadTyped, OutcomeTyped, Goto
<1>1. ASSUME NEW t \in Threads, Raise(t), UNCHANGED <<op, doing>> PROVE Unanswered'
  BY <1>1 DEF Raise, Unanswered, NoOutcome
<1>2. ASSUME NEW t \in Threads, Begin(t) PROVE Unanswered'
  BY <1>2 DEF Begin, Unanswered, NoOutcome
<1>3. ASSUME NEW t \in Threads, Receive(t) PROVE Unanswered'
  <2>1. pc[t] = "recv" /\ pc'[t] \in {"note", "parse", "idle"}
    BY <1>3 DEF Receive
  <2>2. pc'[t] = "note" => outcome'[t] = outcome[t]
    BY <1>3, <2>1 DEF Receive
  <2>3. /\ UNCHANGED <<op, doing>>
        /\ \A u \in Threads \ {t} : pc'[u] = pc[u] /\ outcome'[u] = outcome[u]
    BY <1>3 DEF Receive
  <2> QED BY <2>1, <2>2, <2>3 DEF Unanswered
<1>4. ASSUME NEW t \in Threads, ParseByProperty(t) PROVE Unanswered'
  <2>1. CASE ParseUnder(t, contract) /\ UNCHANGED doing
    BY <1>4, <2>1 DEF ParseByProperty, ParseUnder, Unanswered
  <2>2. CASE doing' = [doing EXCEPT ![t] = "get_info"] /\ Goto(t, "enter") /\ UNCHANGED outcome
    <3>1. op' = op /\ op[t] # "get_info"
      BY <1>4 DEF ParseByProperty, PropertyReaders
    <3> QED BY <2>2, <3>1 DEF Unanswered
  <2> QED BY <1>4, <2>1, <2>2 DEF ParseByProperty
<1>5. ASSUME NEW t \in Threads, ParseDirectly(t) PROVE Unanswered'
  BY <1>5 DEF ParseDirectly, ParseUnder, Unanswered, local
<1>6. ASSUME NEW t \in Threads, AssertContract(t) PROVE Unanswered'
  BY <1>1, <1>6 DEF AssertContract, ParseUnder, Unanswered, local
<1>7. ASSUME NEW t \in Threads, Gate(t) PROVE Unanswered'
  BY <1>1, <1>7 DEF Gate, Unanswered, local
<1>8. ASSUME NEW t \in Threads, \/ SpawnFails(t) \/ EncodeFails(t) \/ TransportFails(t)
                                \/ ReceiveGarbage(t) \/ ReceiveRejected(t)
                                \/ ReceiveIncompatible(t)
      PROVE  Unanswered'
  BY <1>1, <1>8 DEF SpawnFails, EncodeFails, TransportFails, ReceiveGarbage,
     ReceiveRejected, ReceiveIncompatible, local
<1>9. ASSUME NEW t \in Threads, UNCHANGED <<op, doing, outcome>>, Goto(t, pc'[t]),
             pc[t] \notin {"idle", "parse"}
      PROVE  Unanswered'
  BY <1>9 DEF Unanswered
<1>10. ASSUME NEW t \in Threads, \/ Close(t) \/ Enter(t) \/ Send(t) \/ ReceiveHandshake(t)
                                 \/ Note(t) \/ Install(t) \/ Confirm(t)
       PROVE  Unanswered'
  BY <1>9, <1>10 DEF Close, Enter, Send, ReceiveHandshake, Note, Install, Confirm, local
<1>11. CASE Answer \/ Die \/ UNCHANGED vars
  BY <1>11 DEF Answer, Die, Unanswered, vars, local
<1> QED BY <1>2, <1>3, <1>4, <1>5, <1>6, <1>7, <1>8, <1>10, <1>11, NextCases

PromiseInv == /\ OwnInv /\ OneProcess /\ SilentWithoutSession
              /\ SessionIsLast /\ Unanswered

LEMMA PromiseAlways == Spec => []PromiseInv
<1>1. Init => SilentWithoutSession /\ SessionIsLast /\ Unanswered
  BY DEF Init, SilentWithoutSession, SessionIsLast, Unanswered
<1>2. /\ OwnInv /\ SilentWithoutSession /\ SessionIsLast /\ Unanswered
      /\ [Next]_vars
      => SilentWithoutSession' /\ SessionIsLast' /\ Unanswered'
  BY SilentStep, SessionStep, UnansweredStep DEF OwnInv, Typed
<1> QED BY <1>1, <1>2, OwnAlways, OneProcessAlways, PTL DEF Spec, PromiseInv

(* A call that raises: it is over, and callers see no answer of it.         *)
LEMMA RaiseReturns ==
    ASSUME Promise!Manage, Typed, NEW t \in Threads, pc[t] # "idle", Raise(t), op' = op
    PROVE  Promise!Next
<1>1. pc'[t] = "idle" /\ \A u \in Threads \ {t} : pc'[u] = pc[u]
  BY DEF Raise, Goto, Typed, ThreadTyped
<1>2. Call(t) \in Calls /\ Calls' = Calls \ {Call(t)}
  BY <1>1, CallEnds
<1>3. Answers' = Promise!Others(Answers, t)
  BY AnswerLost DEF Raise, Typed
<1> QED BY <1>2, <1>3, Returns

(* A call whose answer stays as it is goes on or is over.                   *)
LEMMA GoesOn ==
    ASSUME Promise!Manage, Typed, NEW t \in Threads, pc[t] # "idle",
           Goto(t, pc'[t]), op' = op, Answers' = Answers
    PROVE  Promise!Next
<1>1. \A u \in Threads \ {t} : pc'[u] = pc[u]
  BY DEF Goto, Typed, ThreadTyped
<1>2. CASE pc'[t] = "idle"
  <2>1. Call(t) \in Calls /\ Calls' = Calls \ {Call(t)}
    BY <1>1, <1>2, CallEnds
  <2> QED BY <2>1, Returns
<1>3. CASE pc'[t] # "idle"
  <2>1. Calls' = Calls
    BY <1>1, <1>3, CallsStay
  <2> QED BY <2>1, Unseen
<1> QED BY <1>2, <1>3

LEMMA BeginCalls ==
    ASSUME Typed, NEW t \in Threads, Begin(t)
    PROVE  Promise!Next
<1> USE DEF Typed, ThreadTyped
<1>1. PICK m \in Methods : op' = [op EXCEPT ![t] = m]
  BY DEF Begin
<1>2. pc[t] = "idle" /\ pc' = [pc EXCEPT ![t] = "enter"]
  BY DEF Begin, Goto
<1>3. op'[t] = m /\ \A u \in Threads \ {t} : op'[u] = op[u]
  BY <1>1
<1>4. Call(t)' = [caller |-> t, method |-> m] /\ \A u \in Threads \ {t} : Call(u)' = Call(u)
  BY <1>3 DEF Call
<1>5. pc'[t] # "idle" /\ \A u \in Threads \ {t} : pc'[u] = pc[u]
  BY <1>2
<1>6. Calls' = Calls \cup {[caller |-> t, method |-> m]}
  <2>1. Calls = {Call(u) : u \in {v \in Threads \ {t} : pc[v] # "idle"}}
    BY <1>2 DEF Calls
  <2>2. Calls' = {Call(u)' : u \in {v \in Threads \ {t} : pc[v] # "idle"}} \cup {Call(t)'}
    BY <1>5 DEF Calls
  <2> QED BY <1>4, <2>1, <2>2
<1>7. \A call \in Calls : call.caller # t
  BY <1>2 DEF Calls, Call
<1>8. Answers' = Promise!Others(Answers, t)
  BY AnswerLost DEF Begin
<1>9. UNCHANGED <<alive, spawned>>
  BY DEF Begin, hold
<1>10. Promise!Call(t, m)
  BY <1>6, <1>7, <1>8, <1>9 DEF Promise!Call
<1> QED BY <1>10 DEF Promise!Next

LEMMA ReceiveAnswers ==
    ASSUME PromiseInv, NEW t \in Threads, Receive(t), Sending(t) # "get_info"
    PROVE  Promise!Next
<1> USE DEF PromiseInv, OwnInv, Typed, ThreadTyped, OutcomeTyped, PipeTyped
<1>1. pc[t] = "recv" /\ stdout # <<>>
  BY DEF Receive
<1>2. doing[t] = op[t] /\ Sending(t) = op[t] /\ op[t] \in AllMethods
  BY <1>1 DEF Sending, DoingOwn, Busy
<1>3. Head(stdout).method = op[t]
  <2>1. <<Head(stdout).id, Head(stdout).method>> \in Wire
    BY <1>1, TagsTail DEF Wire
  <2>2. Head(stdout).id = requestId /\ pc[t] \in Receiving
    BY <1>1 DEF Receive, Accepts, Receiving
  <2> QED BY <1>2, <2>1, <2>2 DEF OwnId
<1>4. session = spawned /\ session # 0
  BY <1>1 DEF SilentWithoutSession, SessionIsLast
<1>5. outcome[t].from = 0
  BY <1>1, <1>2 DEF Unanswered
<1>6. outcome' = [outcome EXCEPT ![t] = [from |-> spawned, reply |-> op[t], by |-> 0]]
  BY <1>3, <1>4 DEF Receive
<1>7. op' = op /\ UNCHANGED <<alive, spawned>> /\ Goto(t, pc'[t])
  BY DEF Receive, hold, Goto
<1>8. \A answer \in Answers : answer.caller # t
  BY <1>5 DEF Answers, Given
<1>9. Answers' = Answers \cup {[caller |-> t, method |-> op[t], by |-> spawned]}
  <2>1. Given(t)' = [caller |-> t, method |-> op[t], by |-> spawned] /\ outcome'[t].from # 0
    BY <1>4, <1>6 DEF Given
  <2>2. \A u \in Threads \ {t} : Given(u)' = Given(u) /\ outcome'[u] = outcome[u]
    BY <1>6 DEF Given
  <2>3. Answers = {Given(u) : u \in {v \in Threads \ {t} : outcome[v].from # 0}}
    BY <1>5 DEF Answers
  <2>4. Answers' = {Given(u)' : u \in {v \in Threads \ {t} : outcome[v].from # 0}}
                     \cup {Given(t)'}
    BY <2>1, <2>2 DEF Answers
  <2> QED BY <2>1, <2>2, <2>3, <2>4
<1>10. Call(t) \in Calls /\ Call(t).caller = t /\ Call(t).method = op[t]
  BY <1>1 DEF Calls, Call
<1>11. Calls' \in {Calls, Calls \ {Call(t)}}
  <2>1. \A u \in Threads \ {t} : pc'[u] = pc[u]
    BY <1>7 DEF Goto
  <2>2. CASE pc'[t] = "idle"
    BY <1>1, <1>7, <2>1, <2>2, CallEnds
  <2>3. CASE pc'[t] # "idle"
    BY <1>1, <1>7, <2>1, <2>3, CallsStay
  <2> QED BY <2>2, <2>3
<1>12. Promise!Answer(Call(t))
  BY <1>4, <1>7, <1>8, <1>9, <1>10, <1>11 DEF Promise!Answer
<1> QED BY <1>10, <1>12 DEF Promise!Next

(* Every step of the client is one of Service or not seen.                  *)
LEMMA PromiseStep ==
    ASSUME PromiseInv, [Next]_vars
    PROVE  Promise!Next
<1> USE DEF PromiseInv, OwnInv
<1>1. Promise!Manage
  BY Manages
<1>2. ASSUME NEW t \in Threads, \/ SpawnFails(t) \/ EncodeFails(t) \/ TransportFails(t)
                                \/ ReceiveGarbage(t) \/ ReceiveRejected(t)
                                \/ ReceiveIncompatible(t)
      PROVE  Promise!Next
  <2>1. pc[t] # "idle" /\ Raise(t) /\ op' = op
    BY <1>2 DEF SpawnFails, EncodeFails, TransportFails, ReceiveGarbage, ReceiveRejected,
       ReceiveIncompatible, local
  <2> QED BY <1>1, <2>1, RaiseReturns
<1>3. ASSUME NEW t \in Threads, \/ Close(t) \/ Enter(t) \/ Send(t) \/ ReceiveHandshake(t)
                                \/ Note(t) \/ Install(t) \/ Confirm(t)
      PROVE  Promise!Next
  <2>1. pc[t] # "idle" /\ Goto(t, pc'[t]) /\ op' = op /\ outcome' = outcome
    BY <1>3 DEF Close, Enter, Send, ReceiveHandshake, Note, Install, Confirm, Goto, local,
       Typed, ThreadTyped
  <2> QED BY <1>1, <2>1, AnswersStay, GoesOn
<1>4. ASSUME NEW t \in Threads, pc[t] # "idle", ParseUnder(t, contract), op' = op
      PROVE  Promise!Next
  <2>1. \A u \in Threads : /\ outcome'[u].from = outcome[u].from
                           /\ outcome'[u].reply = outcome[u].reply
    BY <1>4 DEF ParseUnder, Typed, OutcomeTyped
  <2>2. Goto(t, pc'[t])
    BY <1>4 DEF ParseUnder, Goto, Typed, ThreadTyped
  <2> QED BY <1>1, <1>4, <2>1, <2>2, AnswersStay, GoesOn
<1>5. ASSUME NEW t \in Threads, ParseDirectly(t) PROVE Promise!Next
  BY <1>4, <1>5 DEF ParseDirectly, local
<1>6. ASSUME NEW t \in Threads, ParseByProperty(t) PROVE Promise!Next
  <2>1. pc[t] # "idle" /\ op' = op
    BY <1>6 DEF ParseByProperty
  <2>2. CASE Goto(t, "enter") /\ UNCHANGED outcome
    <3>1. Goto(t, pc'[t])
      BY <2>2 DEF Goto, Typed, ThreadTyped
    <3> QED BY <1>1, <2>1, <2>2, <3>1, AnswersStay, GoesOn
  <2> QED BY <1>4, <1>6, <2>1, <2>2 DEF ParseByProperty
<1>7. ASSUME NEW t \in Threads, AssertContract(t) PROVE Promise!Next
  BY <1>1, <1>4, <1>7, RaiseReturns DEF AssertContract, local
<1>8. ASSUME NEW t \in Threads, Gate(t) PROVE Promise!Next
  <2>1. pc[t] # "idle" /\ op' = op
    BY <1>8 DEF Gate, local
  <2>2. CASE Goto(t, "send") /\ UNCHANGED outcome
    <3>1. Goto(t, pc'[t])
      BY <2>2 DEF Goto, Typed, ThreadTyped
    <3> QED BY <1>1, <2>1, <2>2, <3>1, AnswersStay, GoesOn
  <2> QED BY <1>1, <1>8, <2>1, <2>2, RaiseReturns DEF Gate
<1>9. ASSUME NEW t \in Threads, Receive(t) PROVE Promise!Next
  <2>1. CASE Sending(t) # "get_info"
    BY <1>9, <2>1, ReceiveAnswers
  <2>2. CASE Sending(t) = "get_info"
    <3>1. pc[t] # "idle" /\ Goto(t, pc'[t]) /\ op' = op /\ outcome' = outcome
      BY <1>9, <2>2 DEF Receive, Goto, Typed, ThreadTyped
    <3> QED BY <1>1, <3>1, AnswersStay, GoesOn
  <2> QED BY <2>1, <2>2
<1>10. CASE Answer \/ Die \/ UNCHANGED vars
  <2>1. UNCHANGED <<pc, op, outcome>>
    BY <1>10 DEF Answer, Die, vars, local
  <2>2. Calls' = Calls /\ Answers' = Answers
    BY <2>1, CallsStay, AnswersStay
  <2> QED BY <1>1, <2>2, Unseen
<1> QED BY BeginCalls, <1>2, <1>3, <1>5, <1>6, <1>7, <1>8, <1>9, <1>10, NextCases

LEMMA PromiseInit == Init => Promise!Init
  BY DEF Init, NoOutcome, Promise!Init, Calls, Answers

(* Theorem: the client implements Service.  Locks, request ids, a handshake *)
(* inside a call, lines that are late or come twice, processes that die and *)
(* are replaced: callers see calls that are answered at most once, in one   *)
(* step, by the process started last, for the method that was called.       *)
THEOREM ImplementsService == Spec => ServiceSpec
<1>1. PromiseInv /\ [Next]_vars => [Promise!Next]_(Promise!vars)
  BY PromiseStep
<1> QED BY <1>1, PromiseInit, PromiseAlways, PTL DEF Spec, ServiceSpec, Promise!Spec

-----------------------------------------------------------------------------
(***************************************************************************)
(* Nobody waits for ever on everybody: as long as a call is under way, some *)
(* thread or the process has a step to take.  CanStep and CanAnswer are the *)
(* guards of the actions, put together.                                     *)
(***************************************************************************)
Readable(t) ==
    /\ stdout # <<>>
    /\ Accepts(Head(stdout)) /\ Head(stdout).kind = "incompatible" => Sending(t) = "get_info"

CanStep(t) ==
    \/ pc[t] = "enter" /\ lock = NoThread
    \/ pc[t] \in {"gate", "send_info", "send", "note", "install", "confirm", "assert"}
    \/ pc[t] = "parse" /\ op[t] \in DirectReaders \cup PropertyReaders
    \/ pc[t] \in Receiving /\ (session \notin alive \/ Readable(t))

CanAnswer == session \in alive /\ stdin # <<>>

SomeoneCanStep ==
    (\E t \in Threads : pc[t] # "idle") => (\E t \in Threads : CanStep(t)) \/ CanAnswer

(* Who holds the lock is at a place where it is needed.                     *)
LockUsed == lock # NoThread => lock \in Threads /\ pc[lock] \in Critical

(* Who waits for a line has a request or a line in the pipe, or its process *)
(* is gone.                                                                 *)
Awaited ==
    \A t \in Threads :
        pc[t] \in Receiving => session \notin alive \/ stdin # <<>> \/ stdout # <<>>

(* Only a handshake can be refused as incompatible.                         *)
OnlyInfoRefused ==
    \A i \in DOMAIN stdout : stdout[i].kind = "incompatible" => stdout[i].method = "get_info"

Parsing == \A t \in Threads : pc[t] = "parse" => op[t] \in DirectReaders \cup PropertyReaders

LEMMA LockUsedRaise ==
    ASSUME LockUsed, ThreadTyped, NEW t \in Threads, Raise(t)
    PROVE  LockUsed'
  BY DEF LockUsed, ThreadTyped, Raise, Goto

LEMMA LockUsedGoto ==
    ASSUME LockUsed, ThreadTyped, NEW t \in Threads, NEW where \in PCs, Goto(t, where),
           lock' = lock, pc[t] \in Critical => where \in Critical
    PROVE  LockUsed'
  BY DEF LockUsed, ThreadTyped, Goto

LEMMA LockUsedStep == ASSUME LockUsed, LockHeld, ThreadTyped, [Next]_vars PROVE LockUsed'
<1> USE DEF Critical, Receiving, PCs
<1>1. CASE UNCHANGED <<lock, pc>>
  BY <1>1 DEF LockUsed
<1>2. ASSUME NEW t \in Threads, Raise(t) PROVE LockUsed'
  BY <1>2, LockUsedRaise
<1>3. ASSUME NEW t \in Threads, NEW where \in PCs, Goto(t, where), lock' = lock,
             pc[t] \in Critical => where \in Critical
      PROVE  LockUsed'
  BY <1>3, LockUsedGoto
<1>4. ASSUME NEW t \in Threads, Enter(t) PROVE LockUsed'
  BY <1>4 DEF Enter, Goto, LockUsed, ThreadTyped
<1>5. ASSUME NEW t \in Threads, Receive(t) PROVE LockUsed'
  BY <1>5 DEF Receive, LockUsed
<1>6. ASSUME NEW t \in Threads, Begin(t) \/ Close(t) PROVE LockUsed'
  BY <1>3, <1>6 DEF Begin, Close
<1>7. ASSUME NEW t \in Threads, Gate(t) PROVE LockUsed'
  BY <1>2, <1>3, <1>7 DEF Gate
<1>8. ASSUME NEW t \in Threads, Send(t) \/ ReceiveHandshake(t) PROVE LockUsed'
  BY <1>3, <1>8 DEF Send, ReceiveHandshake
<1>9. ASSUME NEW t \in Threads, Note(t) \/ Install(t) \/ Confirm(t) \/ ParseDirectly(t)
      PROVE  LockUsed'
  BY <1>3, <1>9 DEF Note, Install, Confirm, ParseDirectly, ParseUnder
<1>10. ASSUME NEW t \in Threads, ParseByProperty(t) \/ AssertContract(t)
       PROVE  LockUsed'
  BY <1>2, <1>3, <1>10 DEF ParseByProperty, AssertContract, ParseUnder
<1>11. ASSUME NEW t \in Threads, \/ SpawnFails(t) \/ EncodeFails(t) \/ TransportFails(t)
                                 \/ ReceiveGarbage(t) \/ ReceiveRejected(t)
                                 \/ ReceiveIncompatible(t)
       PROVE  LockUsed'
  BY <1>2, <1>11 DEF SpawnFails, EncodeFails, TransportFails, ReceiveGarbage,
     ReceiveRejected, ReceiveIncompatible
<1>12. CASE Answer \/ Die \/ UNCHANGED vars
  BY <1>1, <1>12 DEF Answer, Die, vars
<1> QED BY <1>4, <1>5, <1>6, <1>7, <1>8, <1>9, <1>10, <1>11, <1>12, NextCases

(* Only its own steps take a thread to where it parses.                     *)
LEMMA ParsingStep == ASSUME Parsing, ThreadTyped, [Next]_vars PROVE Parsing'
<1> USE DEF Goto, ThreadTyped
<1>1. CASE UNCHANGED <<op, pc>>
  BY <1>1 DEF Parsing
<1>2. ASSUME NEW t \in Threads, NEW where \in PCs \ {"parse"}, Goto(t, where),
             \A u \in Threads \ {t} : op'[u] = op[u]
      PROVE  Parsing'
  BY <1>2 DEF Parsing
<1>3. ASSUME NEW t \in Threads, Receive(t) PROVE Parsing'
  <2>1. op' = op /\ \A u \in Threads \ {t} : pc'[u] = pc[u]
    BY <1>3 DEF Receive
  <2>2. pc'[t] = "parse" => op[t] \in DirectReaders \cup PropertyReaders
    BY <1>3 DEF Receive
  <2> QED BY <2>1, <2>2 DEF Parsing
<1>4. ASSUME NEW t \in Threads, Begin(t) PROVE Parsing'
  <2>1. PICK m \in Methods : op' = [op EXCEPT ![t] = m]
    BY <1>4 DEF Begin
  <2> QED BY <1>2, <1>4, <2>1 DEF Begin, PCs
<1>5. ASSUME NEW t \in Threads, \/ Close(t) \/ Enter(t) \/ Send(t) \/ ReceiveHandshake(t)
                                \/ Note(t) \/ Install(t) \/ Confirm(t)
      PROVE  Parsing'
  BY <1>2, <1>5 DEF Close, Enter, Send, ReceiveHandshake, Note, Install, Confirm, local, PCs
<1>6. ASSUME NEW t \in Threads, \/ Gate(t) \/ SpawnFails(t) \/ EncodeFails(t)
                                \/ TransportFails(t) \/ ReceiveGarbage(t)
                                \/ ReceiveRejected(t) \/ ReceiveIncompatible(t)
      PROVE  Parsing'
  BY <1>2, <1>6 DEF Gate, SpawnFails, EncodeFails, TransportFails, ReceiveGarbage,
     ReceiveRejected, ReceiveIncompatible, Raise, local, PCs
<1>7. ASSUME NEW t \in Threads, ParseDirectly(t) \/ ParseByProperty(t) \/ AssertContract(t)
      PROVE  Parsing'
  BY <1>2, <1>7 DEF ParseDirectly, ParseByProperty, AssertContract, ParseUnder, Raise,
     local, PCs
<1>8. CASE Answer \/ Die \/ UNCHANGED vars
  BY <1>1, <1>8 DEF Answer, Die, vars, local
<1> QED BY <1>3, <1>4, <1>5, <1>6, <1>7, <1>8, NextCases

LEMMA RefusedTail ==
    ASSUME PipeTyped, OnlyInfoRefused, stdout # <<>>, stdout' = Tail(stdout)
    PROVE  OnlyInfoRefused'
<1>1. \A i \in DOMAIN stdout' : i + 1 \in DOMAIN stdout /\ stdout'[i] = stdout[i + 1]
  BY DEF PipeTyped
<1> QED BY <1>1 DEF OnlyInfoRefused

LEMMA RefusedStep == ASSUME OnlyInfoRefused, PipeTyped, [Next]_vars PROVE OnlyInfoRefused'
<1>1. CASE UNCHANGED stdout
  BY <1>1 DEF OnlyInfoRefused
<1>2. CASE stdout' = <<>>
  BY <1>2 DEF OnlyInfoRefused
<1>3. CASE PipeUnread
  BY <1>1, <1>3, RefusedTail DEF PipeUnread
<1>4. CASE Answer
  <2>1. PICK line \in Line :
          /\ line.kind \in AnswerKinds(line.method)
          /\ \/ stdout' = Append(stdout, line)
             \/ stdout' = Append(Append(stdout, line), line)
    BY <1>4, AnswerLines
  <2>2. line.kind = "incompatible" => line.method = "get_info"
    BY <2>1 DEF AnswerKinds
  <2>3. stdout \in Seq(Line)
    BY DEF PipeTyped
  <2>4. \A s \in Seq(Line) : \A i \in DOMAIN Append(s, line) :
          (i \in DOMAIN s /\ Append(s, line)[i] = s[i]) \/ Append(s, line)[i] = line
    BY <2>1
  <2>5. Append(stdout, line) \in Seq(Line)
    BY <2>1, <2>3
  <2>6. \A i \in DOMAIN stdout' :
          (i \in DOMAIN stdout /\ stdout'[i] = stdout[i]) \/ stdout'[i] = line
    <3>1. CASE stdout' = Append(stdout, line)
      BY <2>3, <2>4, <3>1
    <3>2. CASE stdout' = Append(Append(stdout, line), line)
      BY <2>3, <2>4, <2>5, <3>2
    <3> QED BY <2>1, <3>1, <3>2
  <2> QED BY <2>2, <2>6 DEF OnlyInfoRefused
<1>5. ASSUME NEW t \in Threads, Send(t) \/ EncodeFails(t) PROVE OnlyInfoRefused'
  BY <1>1, <1>2, <1>5 DEF Send, EncodeFails
<1> QED BY <1>1, <1>2, <1>3, <1>4, <1>5, PipeSteps DEF pipe, DropSession

LEMMA AwaitedStep ==
    ASSUME Awaited, LockHeld, PipeTyped, ThreadTyped, Busy, [Next]_vars
    PROVE  Awaited'
<1> SUFFICES ASSUME NEW u \in Threads, pc'[u] \in Receiving
             PROVE  session' \notin alive' \/ stdin' # <<>> \/ stdout' # <<>>
  BY DEF Awaited
<1>1. CASE Send(u)
  <2>1. stdin' = Append(stdin, NewRequest(u)) \/ stdin' = <<NewRequest(u)>>
    BY <1>1 DEF Send, NewRequest
  <2>2. NewRequest(u) \in Request
    BY <1>1, SendingTyped DEF Send, NewRequest, Request, PipeTyped
  <2>3. Append(stdin, NewRequest(u)) # <<>>
    BY <2>2 DEF PipeTyped
  <2>4. CASE stdin' = Append(stdin, NewRequest(u))
    BY <2>3, <2>4
  <2>5. CASE stdin' = <<NewRequest(u)>>
    <3>1. Len(stdin') = 1
      BY <2>5
    <3> QED BY <3>1
  <2> QED BY <2>1, <2>4, <2>5
<1>2. CASE pc'[u] = pc[u]
  <2>1. lock = u /\ (session \notin alive \/ stdin # <<>> \/ stdout # <<>>)
    BY <1>2 DEF LockHeld, Critical, Awaited
  <2>2. CASE UNCHANGED <<session, alive, stdin, stdout>>
    BY <2>1, <2>2
  <2>3. CASE Answer
    <3>1. stdout' # <<>>
      BY <2>3, AnswerLines DEF PipeTyped
    <3> QED BY <3>1
  <2>4. CASE Die
    BY <2>4 DEF Die
  <2>5. ASSUME NEW t \in Threads, pc[t] \in Critical, pc'[t] # pc[t] PROVE FALSE
    BY <1>2, <2>1, <2>5 DEF LockHeld
  <2>6. ASSUME NEW t \in Threads, Close(t) PROVE FALSE
    BY <2>1, <2>6, ClientAssumption DEF Close
  <2>7. ASSUME NEW t \in Threads,
               \/ SpawnFails(t) \/ EncodeFails(t) \/ TransportFails(t) \/ ReceiveGarbage(t)
               \/ ReceiveRejected(t) \/ ReceiveIncompatible(t) \/ ReceiveHandshake(t)
               \/ Receive(t) \/ Send(t)
        PROVE  FALSE
    <3>1. pc[t] \in Critical /\ pc'[t] # pc[t]
      BY <2>7 DEF SpawnFails, EncodeFails, TransportFails, ReceiveGarbage, ReceiveRejected,
         ReceiveIncompatible, ReceiveHandshake, Receive, Send, Raise, Goto, Critical,
         Receiving, ThreadTyped
    <3> QED BY <2>5, <3>1
  <2>8. ASSUME NEW t \in Threads, \/ Begin(t) \/ Enter(t) \/ Gate(t) \/ Note(t) \/ Install(t)
                                  \/ Confirm(t) \/ ParseDirectly(t) \/ ParseByProperty(t)
                                  \/ AssertContract(t)
        PROVE  UNCHANGED <<session, alive, stdin, stdout>>
    BY <2>8 DEF Begin, Enter, Gate, Note, Install, Confirm, ParseDirectly, ParseByProperty,
       AssertContract, hold, pipe
  <2>9. CASE UNCHANGED vars
    BY <2>2, <2>9 DEF vars, hold, pipe
  <2> QED BY <2>2, <2>3, <2>4, <2>6, <2>7, <2>8, <2>9, NextCases
<1> QED BY <1>1, <1>2, WaitSteps

StuckInv == OwnInv /\ LockUsed /\ Awaited /\ OnlyInfoRefused /\ Parsing

LEMMA StuckAlways == Spec => []StuckInv
<1>1. Init => LockUsed /\ Awaited /\ OnlyInfoRefused /\ Parsing
  BY DEF Init, LockUsed, Awaited, OnlyInfoRefused, Parsing, Receiving
<1>2. /\ OwnInv /\ LockUsed /\ Awaited /\ OnlyInfoRefused /\ Parsing
      /\ [Next]_vars
      => LockUsed' /\ Awaited' /\ OnlyInfoRefused' /\ Parsing'
  BY LockUsedStep, AwaitedStep, RefusedStep, ParsingStep DEF OwnInv, Typed
<1> QED BY <1>1, <1>2, OwnAlways, PTL DEF Spec, StuckInv

LEMMA StuckFree == ASSUME StuckInv PROVE SomeoneCanStep
<1> SUFFICES ASSUME NEW t \in Threads, pc[t] # "idle"
             PROVE  (\E u \in Threads : CanStep(u)) \/ CanAnswer
  BY DEF SomeoneCanStep
<1> USE DEF StuckInv, OwnInv, Typed
<1>1. ASSUME NEW u \in Threads, pc[u] \in Receiving
      PROVE  CanStep(u) \/ CanAnswer
  <2>1. CASE session \notin alive
    BY <1>1, <2>1 DEF CanStep
  <2>2. CASE session \in alive /\ stdin # <<>>
    BY <2>2 DEF CanAnswer
  <2>3. CASE stdout # <<>>
    <3>1. SUFFICES ASSUME Accepts(Head(stdout)), Head(stdout).kind = "incompatible"
                   PROVE  Sending(u) = "get_info"
      BY <1>1, <2>3 DEF CanStep, Readable
    <3>2. Head(stdout).method = "get_info"
      <4>1. 1 \in DOMAIN stdout /\ Head(stdout) = stdout[1]
        BY <2>3 DEF PipeTyped
      <4> QED BY <3>1, <4>1 DEF OnlyInfoRefused
    <3>3. <<Head(stdout).id, Head(stdout).method>> \in Wire
      BY <2>3, TagsTail DEF Wire, PipeTyped
    <3> QED BY <1>1, <3>1, <3>2, <3>3 DEF OwnId, Accepts
  <2> QED BY <1>1, <2>1, <2>2, <2>3 DEF Awaited
<1>2. ASSUME NEW u \in Threads, pc[u] \in Critical
      PROVE  CanStep(u) \/ CanAnswer
  BY <1>1, <1>2 DEF Critical, CanStep
<1>3. CASE pc[t] = "enter"
  <2>1. CASE lock = NoThread
    BY <1>3, <2>1 DEF CanStep
  <2>2. CASE lock # NoThread
    BY <1>2, <2>2 DEF LockUsed
  <2> QED BY <2>1, <2>2
<1>4. CASE pc[t] \in Critical
  BY <1>2, <1>4
<1>5. CASE pc[t] \in {"parse", "note", "install", "confirm", "assert"}
  BY <1>5 DEF CanStep, Parsing
<1> QED BY <1>3, <1>4, <1>5 DEF ThreadTyped, PCs, Critical, Receiving

(* Theorem: no deadlock, for any number of threads: while a call is under   *)
(* way, a thread can step or the process can answer.  The lock is held only *)
(* by a thread that is using it, and one that waits for a line will get one *)
(* or finds its process gone (call, _call_raw, _retire_session).            *)
THEOREM NeverStuck == Spec => []SomeoneCanStep
  BY StuckAlways, StuckFree, PTL
=============================================================================
