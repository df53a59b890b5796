----------------------------- MODULE CegarProofs -----------------------------
(***************************************************************************)
(* Proofs about Cegar for every box, every set of threads, every strategy   *)
(* and every limit.                                                         *)
(***************************************************************************)
EXTENDS Cegar, FiniteSetTheorems, TLAPS

-----------------------------------------------------------------------------
(* Boxes: a cut lies strictly inside the box, and its two parts hold the    *)
(* cells of the box between them, each cell in one part.                    *)
Inside(b, cut) ==
    /\ cut.var \in Vars /\ cut.point \in Int
    /\ b[cut.var].lo < cut.point /\ cut.point < b[cut.var].hi

LEMMA IntervalEnds ==
    ASSUME NEW b \in Box, NEW v \in Vars
    PROVE  /\ b[v] \in Interval /\ b[v].lo \in Int /\ b[v].hi \in Int /\ b[v].lo < b[v].hi
           /\ b[v] = [lo |-> b[v].lo, hi |-> b[v].hi]
<1>1. b[v] \in Interval
  BY DEF Box
<1> QED BY <1>1 DEF Interval

LEMMA MidInside ==
    ASSUME NEW lo \in Int, NEW hi \in Int, hi - lo >= 2
    PROVE  LET m == (lo + hi) \div 2 IN m \in Int /\ lo < m /\ m < hi
  OBVIOUS

LEMMA CutsInside ==
    ASSUME NEW b \in Box, NEW out, NEW cut \in Cuts(b, out), strategy \in AllStrategies,
           \A v \in Vars : Width(b[v]) >= MinWidth
    PROVE  Inside(b, cut)
<1>1. ASSUME NEW vs \in SUBSET Vars, cut \in AtMid(b, vs) PROVE Inside(b, cut)
  <2>1. PICK v \in vs : cut = [var |-> v, point |-> Mid(b[v])]
    BY <1>1 DEF AtMid
  <2>2. b[v].lo \in Int /\ b[v].hi \in Int /\ b[v].hi - b[v].lo >= 2
    <3>1. b[v].lo \in Int /\ b[v].hi \in Int
      BY <2>1, IntervalEnds
    <3>2. MinWidth \in Nat /\ MinWidth >= 2
      BY CegarAssumption
    <3>3. b[v].hi - b[v].lo >= MinWidth
      BY <2>1 DEF Width
    <3> QED BY <3>1, <3>2, <3>3
  <2>3. Mid(b[v]) \in Int /\ b[v].lo < Mid(b[v]) /\ Mid(b[v]) < b[v].hi
    BY <2>2, MidInside DEF Mid
  <2> QED BY <2>1, <2>3 DEF Inside
<1>2. ASSUME cut \in AtPoint(b) PROVE Inside(b, cut)
  <2>1. PICK v \in Vars : \E p \in (b[v].lo + 1) .. (b[v].hi - 1) : cut = [var |-> v, point |-> p]
    BY <1>2 DEF AtPoint
  <2>2. PICK p \in (b[v].lo + 1) .. (b[v].hi - 1) : cut = [var |-> v, point |-> p]
    BY <2>1
  <2>3. p \in Int /\ b[v].lo < p /\ p < b[v].hi
    <3>1. b[v].lo \in Int /\ b[v].hi \in Int
      BY IntervalEnds
    <3> QED BY <2>2, <3>1
  <2> QED BY <2>2, <2>3 DEF Inside
<1>3. {FirstVar} \in SUBSET Vars /\ Widest(b) \in SUBSET Vars
  BY CegarAssumption DEF Widest
<1>4. \/ cut \in AtPoint(b) \/ cut \in AtMid(b, {FirstVar})
      \/ cut \in AtMid(b, Widest(b)) \/ cut \in AtMid(b, Vars)
  BY DEF Cuts, AllStrategies
<1> QED BY <1>1, <1>2, <1>3, <1>4

LEMMA PartsAreBoxes ==
    ASSUME NEW b \in Box, NEW cut, Inside(b, cut)
    PROVE  LowerPart(b, cut) \in Box /\ UpperPart(b, cut) \in Box
<1>1. /\ [lo |-> b[cut.var].lo, hi |-> cut.point] \in Interval
      /\ [lo |-> cut.point, hi |-> b[cut.var].hi] \in Interval
  BY IntervalEnds DEF Inside, Interval
<1> QED BY <1>1 DEF LowerPart, UpperPart, Box, Inside

LEMMA PartsPartition ==
    ASSUME NEW b \in Box, NEW cut, Inside(b, cut)
    PROVE  /\ Cells(LowerPart(b, cut)) \cup Cells(UpperPart(b, cut)) = Cells(b)
           /\ Cells(LowerPart(b, cut)) \cap Cells(UpperPart(b, cut)) = {}
<1> DEFINE v == cut.var
           L == LowerPart(b, cut)
           U == UpperPart(b, cut)
<1>1. v \in Vars /\ cut.point \in Int /\ b[v].lo < cut.point /\ cut.point < b[v].hi
  BY DEF Inside
<1>2. /\ L[v].lo = b[v].lo /\ L[v].hi = cut.point
      /\ U[v].lo = cut.point /\ U[v].hi = b[v].hi
  BY <1>1 DEF LowerPart, UpperPart, Box
<1>3. \A u \in Vars : u # v => L[u] = b[u] /\ U[u] = b[u]
  BY DEF LowerPart, UpperPart, Box
<1>4. b[v].lo \in Int /\ b[v].hi \in Int
  BY <1>1, IntervalEnds
<1>5. \A c \in [Vars -> Grid] : c[v] \in Int
  BY <1>1, CegarAssumption
<1> HIDE DEF L, U, v
<1>6. ASSUME NEW c \in [Vars -> Grid] PROVE c \in Cells(b) <=> c \in Cells(L) \/ c \in Cells(U)
  BY <1>1, <1>2, <1>3, <1>4, <1>5 DEF Cells
<1>7. ASSUME NEW c \in [Vars -> Grid] PROVE ~(c \in Cells(L) /\ c \in Cells(U))
  BY <1>1, <1>2, <1>5 DEF Cells
<1>8. Cells(b) \subseteq [Vars -> Grid] /\ Cells(L) \subseteq [Vars -> Grid] /\ Cells(U) \subseteq [Vars -> Grid]
  BY DEF Cells
<1>9. Cells(L) \cup Cells(U) = Cells(b) /\ Cells(L) \cap Cells(U) = {}
  BY <1>6, <1>7, <1>8
<1> QED BY <1>9 DEF L, U

(* Every cell of a gridded box exists; there is at least one. *)
Gridded(b) == \A v \in Vars : b[v].lo .. (b[v].hi - 1) \subseteq Grid

LEMMA GriddedCells ==
    ASSUME NEW b \in Box, Gridded(b) PROVE Cells(b) # {}
<1> DEFINE c == [v \in Vars |-> b[v].lo]
<1>1. \A v \in Vars : b[v].lo \in Int /\ b[v].hi \in Int /\ b[v].lo < b[v].hi
  BY IntervalEnds
<1>2. \A v \in Vars : b[v].lo \in Grid
  BY <1>1 DEF Gridded
<1>3. c \in [Vars -> Grid] /\ \A v \in Vars : c[v] = b[v].lo
  BY <1>2
<1> HIDE DEF c
<1>4. c \in Cells(b)
  BY <1>1, <1>3 DEF Cells
<1> QED BY <1>4

LEMMA GriddedParts ==
    ASSUME NEW b \in Box, NEW cut, Inside(b, cut), Gridded(b)
    PROVE  Gridded(LowerPart(b, cut)) /\ Gridded(UpperPart(b, cut))
<1>1. cut.var \in Vars /\ cut.point \in Int /\ b[cut.var].lo < cut.point /\ cut.point < b[cut.var].hi
  BY DEF Inside
<1>2. \A v \in Vars : b[v].lo \in Int /\ b[v].hi \in Int
  BY IntervalEnds
<1> DEFINE L == LowerPart(b, cut)
           U == UpperPart(b, cut)
<1>3. \A v \in Vars :
        /\ v = cut.var => /\ L[v].lo = b[v].lo /\ L[v].hi = cut.point
                          /\ U[v].lo = cut.point /\ U[v].hi = b[v].hi
        /\ v # cut.var => L[v] = b[v] /\ U[v] = b[v]
  BY <1>1 DEF LowerPart, UpperPart, Box
<1> HIDE DEF L, U
<1>4. ASSUME NEW v \in Vars
      PROVE  L[v].lo .. (L[v].hi - 1) \subseteq Grid /\ U[v].lo .. (U[v].hi - 1) \subseteq Grid
  BY <1>1, <1>2, <1>3 DEF Gridded
<1> QED BY <1>4 DEF Gridded, L, U

-----------------------------------------------------------------------------
(* Steps *)

LEMMA NextCases ==
    ASSUME [Next]_vars
    PROVE  \/ Start \/ CheckNext \/ SequentialEnds \/ Submit \/ Wait \/ ParallelEnds
           \/ PoolStops \/ AllClosed \/ Conclude
           \/ \E f \in batch : TakeBack(f)
           \/ \E w \in Workers : CloseClient(w) \/ PickUp(w) \/ NoClient(w) \/ Check(w)
           \/ UNCHANGED vars
  BY DEF Next, Coordinator, Worker, WaitAgain, Done

(* A result is taken back: recorded, answered by a split, or recorded while *)
(* an exception ends the loop.                                              *)
Handle(s, out, rest) == Keep(s, out, rest) \/ Split(s, out, rest) \/ AnalysisRaises(s, out, rest)

LEMMA CheckNextCases ==
    ASSUME CheckNext
    PROVE  \/ \E out \in CheckOutcomes(Head(pending).box) :
                Handle(Head(pending), out, Tail(pending)) /\ (error' = error \/ error')
           \/ pending' = Tail(pending) /\ UNCHANGED <<tree, results>> /\ error'
  BY DEF CheckNext, Handle

TakenAs(f) == IF f.out = "raised" THEN "failed" ELSE f.out

LEMMA TakeBackCases ==
    ASSUME NEW f \in batch, TakeBack(f)
    PROVE  Handle(f.sub, TakenAs(f), pending) /\ (error' = error \/ error')
  BY DEF TakeBack, Handle, TakenAs

(* The types, one part of the state at a time. *)
RequestTyped == asked \in SUBSET Directions /\ strategy \in AllStrategies
TreeTyped    == subdomains \subseteq Subdomain /\ splits \in Nat /\ lastId \in Nat
QueueTyped   == pending \in Seq(Subdomain)
ResultsTyped == results \subseteq Result
FuturesTyped == futures \subseteq Future
BatchTyped   == batch \subseteq futures /\ \A f \in batch : f.out # "none"
ClientTyped  == client \in [Workers -> {"none", "open", "closed"}]
StatusTyped  == /\ status \in Statuses /\ error \in BOOLEAN
                /\ verdict \in {"open", "verified", "unverified", "raised"}

(* What a split does, without the strategy that chose the cut. *)
SplitInto(s, l, r, rest) ==
    /\ l \in Subdomain /\ r \in Subdomain
    /\ l.id = lastId + 1 /\ l.parent = s.id /\ r.id = lastId + 2 /\ r.parent = s.id
    /\ Cells(l.box) \cup Cells(r.box) = Cells(s.box) /\ Cells(l.box) \cap Cells(r.box) = {}
    /\ Gridded(s.box) => Gridded(l.box) /\ Gridded(r.box)
    /\ subdomains' = subdomains \cup {l, r}
    /\ pending' = rest \o <<l, r>>
    /\ splits' = splits + 1 /\ lastId' = lastId + 2 /\ results' = results

LEMMA SplitCuts ==
    ASSUME RequestTyped, TreeTyped, NEW s \in Subdomain, NEW out, NEW rest, Split(s, out, rest)
    PROVE  \E l, r : SplitInto(s, l, r, rest)
<1>1. PICK cut \in Cuts(s.box, out) :
        LET left  == [id |-> lastId + 1, parent |-> s.id, depth |-> s.depth + 1,
                      box |-> LowerPart(s.box, cut)]
            right == [id |-> lastId + 2, parent |-> s.id, depth |-> s.depth + 1,
                      box |-> UpperPart(s.box, cut)]
        IN  /\ subdomains' = subdomains \cup {left, right}
            /\ pending' = rest \o <<left, right>>
  BY DEF Split
<1> DEFINE l == [id |-> lastId + 1, parent |-> s.id, depth |-> s.depth + 1,
                 box |-> LowerPart(s.box, cut)]
           r == [id |-> lastId + 2, parent |-> s.id, depth |-> s.depth + 1,
                 box |-> UpperPart(s.box, cut)]
<1>2. s.box \in Box /\ s.id \in Nat /\ s.depth \in Nat
  BY DEF Subdomain
<1>3. \A v \in Vars : Width(s.box[v]) >= MinWidth
  BY DEF Split, Decided, ShouldSplit
<1>4. Inside(s.box, cut)
  BY <1>2, <1>3, CutsInside DEF RequestTyped
<1>5. LowerPart(s.box, cut) \in Box /\ UpperPart(s.box, cut) \in Box
  BY <1>2, <1>4, PartsAreBoxes
<1>6. l \in Subdomain /\ r \in Subdomain
  BY <1>2, <1>5 DEF Subdomain, TreeTyped
<1>7. Cells(l.box) \cup Cells(r.box) = Cells(s.box) /\ Cells(l.box) \cap Cells(r.box) = {}
  BY <1>2, <1>4, PartsPartition
<1>11. Gridded(s.box) => Gridded(l.box) /\ Gridded(r.box)
  BY <1>2, <1>4, GriddedParts
<1>8. /\ l.id = lastId + 1 /\ l.parent = s.id /\ r.id = lastId + 2 /\ r.parent = s.id
  OBVIOUS
<1>9. subdomains' = subdomains \cup {l, r} /\ pending' = rest \o <<l, r>>
  BY <1>1
<1>10. splits' = splits + 1 /\ lastId' = lastId + 2 /\ results' = results
  BY DEF Split
<1> HIDE DEF l, r
<1> QED BY <1>6, <1>7, <1>8, <1>9, <1>10, <1>11 DEF SplitInto

-----------------------------------------------------------------------------
(* Queues *)
RangeOf(q) == {q[i] : i \in DOMAIN q}

LEMMA RangeOfTail ==
    ASSUME NEW S, NEW q \in Seq(S), q # <<>>
    PROVE  /\ Head(q) \in S /\ Tail(q) \in Seq(S)
           /\ RangeOf(q) = RangeOf(Tail(q)) \cup {Head(q)}
<1>1. Head(q) = q[1] /\ 1 \in DOMAIN q /\ Head(q) \in S /\ Tail(q) \in Seq(S)
  OBVIOUS
<1>2. \A i \in DOMAIN Tail(q) : i + 1 \in DOMAIN q /\ Tail(q)[i] = q[i + 1]
  OBVIOUS
<1>3. \A i \in DOMAIN q : i = 1 \/ (i - 1 \in DOMAIN Tail(q) /\ q[i] = Tail(q)[i - 1])
  OBVIOUS
<1> DEFINE t == Tail(q)
<1> HIDE DEF t
<1>4. RangeOf(q) \subseteq RangeOf(t) \cup {Head(q)}
  BY <1>1, <1>3 DEF RangeOf, t
<1>5. RangeOf(t) \subseteq RangeOf(q)
  BY <1>2 DEF RangeOf, t
<1>6. Head(q) \in RangeOf(q)
  BY <1>1 DEF RangeOf
<1> QED BY <1>1, <1>4, <1>5, <1>6 DEF t

LEMMA RangeOfAppendTwo ==
    ASSUME NEW S, NEW q \in Seq(S), NEW a \in S, NEW b \in S
    PROVE  q \o <<a, b>> \in Seq(S) /\ RangeOf(q \o <<a, b>>) = RangeOf(q) \cup {a, b}
<1>1. q \o <<a, b>> \in Seq(S)
  OBVIOUS
<1>2. DOMAIN (q \o <<a, b>>) = 1 .. (Len(q) + 2) /\ DOMAIN q = 1 .. Len(q) /\ Len(q) \in Nat
  OBVIOUS
<1>3. \A i \in 1 .. Len(q) : (q \o <<a, b>>)[i] = q[i]
  OBVIOUS
<1>4. (q \o <<a, b>>)[Len(q) + 1] = a /\ (q \o <<a, b>>)[Len(q) + 2] = b
  OBVIOUS
<1>5. \A i \in 1 .. (Len(q) + 2) : i \in 1 .. Len(q) \/ i = Len(q) + 1 \/ i = Len(q) + 2
  BY <1>2
<1>6. Len(q) + 1 \in 1 .. (Len(q) + 2) /\ Len(q) + 2 \in 1 .. (Len(q) + 2)
      /\ 1 .. Len(q) \subseteq 1 .. (Len(q) + 2)
  BY <1>2
<1> DEFINE z == q \o <<a, b>>
<1> HIDE DEF z
<1>7. RangeOf(z) = RangeOf(q) \cup {a, b}
  BY <1>2, <1>3, <1>4, <1>5, <1>6 DEF RangeOf, z
<1> QED BY <1>1, <1>7 DEF z

-----------------------------------------------------------------------------
(* Type correctness *)

LEMMA HandleTyped ==
    ASSUME RequestTyped, TreeTyped, ResultsTyped, NEW s \in Subdomain, NEW out,
           NEW rest \in Seq(Subdomain), Handle(s, out, rest)
    PROVE  TreeTyped' /\ ResultsTyped' /\ QueueTyped'
<1>1. CASE Split(s, out, rest)
  <2>1. PICK l, r : SplitInto(s, l, r, rest)
    BY <1>1, SplitCuts
  <2>2. pending' \in Seq(Subdomain)
    BY <2>1, RangeOfAppendTwo DEF SplitInto
  <2> QED BY <2>1, <2>2 DEF SplitInto, TreeTyped, ResultsTyped, QueueTyped
<1>2. CASE Keep(s, out, rest)
  <2> DEFINE v == out = "verified"
  <2>1. v \in BOOLEAN
    OBVIOUS
  <2>2. results' = results \cup {[sub |-> s, verified |-> v]} /\ pending' = rest /\ UNCHANGED tree
    BY <1>2 DEF Keep
  <2> HIDE DEF v
  <2>3. [sub |-> s, verified |-> v] \in Result
    BY <2>1 DEF Result
  <2> QED BY <2>2, <2>3 DEF tree, TreeTyped, ResultsTyped, QueueTyped
<1>3. CASE AnalysisRaises(s, out, rest)
  <2>1. [sub |-> s, verified |-> FALSE] \in Result
    BY DEF Result
  <2> QED BY <1>3, <2>1 DEF AnalysisRaises, tree, TreeTyped, ResultsTyped, QueueTyped
<1> QED BY <1>1, <1>2, <1>3 DEF Handle

LEMMA LoopStep ==
    ASSUME RequestTyped, TreeTyped, ResultsTyped, QueueTyped, FuturesTyped, BatchTyped, [Next]_vars
    PROVE  TreeTyped' /\ ResultsTyped' /\ QueueTyped'
<1> DEFINE Goal == TreeTyped' /\ ResultsTyped' /\ QueueTyped'
<1>1. CASE UNCHANGED <<tree, results, pending>>
  BY <1>1 DEF tree, TreeTyped, ResultsTyped, QueueTyped
<1>2. CASE CheckNext
  <2>1. Head(pending) \in Subdomain /\ Tail(pending) \in Seq(Subdomain)
    BY <1>2, RangeOfTail DEF CheckNext, QueueTyped
  <2>2. CASE pending' = Tail(pending) /\ UNCHANGED <<tree, results>>
    BY <2>1, <2>2 DEF tree, TreeTyped, ResultsTyped, QueueTyped
  <2> QED BY <1>2, <2>1, <2>2, CheckNextCases, HandleTyped
<1>3. ASSUME NEW f \in batch, TakeBack(f) PROVE Goal
  <2>1. f.sub \in Subdomain
    BY DEF BatchTyped, FuturesTyped, Future
  <2>2. Handle(f.sub, TakenAs(f), pending)
    BY <1>3, TakeBackCases
  <2> QED BY <2>1, <2>2, HandleTyped DEF QueueTyped
<1>4. CASE Submit
  <2>1. Tail(pending) \in Seq(Subdomain)
    BY <1>4, RangeOfTail DEF Submit, QueueTyped
  <2> QED BY <1>4, <2>1 DEF Submit, tree, TreeTyped, ResultsTyped, QueueTyped
<1>5. CASE \E w \in Workers : CloseClient(w) \/ PickUp(w) \/ NoClient(w) \/ Check(w)
  BY <1>1, <1>5 DEF CloseClient, PickUp, NoClient, Check
<1>6. CASE Start \/ SequentialEnds \/ Wait \/ ParallelEnds \/ PoolStops \/ AllClosed \/ Conclude
  BY <1>1, <1>6 DEF Start, SequentialEnds, Wait, ParallelEnds, PoolStops, AllClosed, Conclude
<1>7. CASE UNCHANGED vars
  BY <1>1, <1>7 DEF vars
<1> QED BY <1>2, <1>3, <1>4, <1>5, <1>6, <1>7, NextCases

(* What a step does to the pool: a future is added, moves on, or is taken   *)
(* back.                                                                    *)
LEMMA PoolSteps ==
    ASSUME [Next]_vars
    PROVE  \/ UNCHANGED <<futures, batch>>
           \/ Submit
           \/ \E f \in batch : futures' = futures \ {f} /\ batch' = batch \ {f} /\ TakeBack(f)
           \/ UNCHANGED futures /\ batch' = Finished
           \/ \E w \in Workers, out \in Outcomes \cup {"none"}, f \in futures :
                /\ f.out = "none" /\ (out = "verified" => out \in CheckOutcomes(f.sub.box))
                /\ futures' = (futures \ {f}) \cup {[sub |-> f.sub, by |-> w, out |-> out]}
                /\ UNCHANGED batch
<1>1. ASSUME NEW w \in Workers, PickUp(w) \/ NoClient(w) \/ Check(w)
      PROVE  \E out \in Outcomes \cup {"none"}, f \in futures :
                /\ f.out = "none" /\ (out = "verified" => out \in CheckOutcomes(f.sub.box))
                /\ futures' = (futures \ {f}) \cup {[sub |-> f.sub, by |-> w, out |-> out]}
                /\ UNCHANGED batch
  <2>1. CASE PickUp(w)
    BY <2>1 DEF PickUp, Outcomes
  <2>2. CASE NoClient(w)
    BY <2>2 DEF NoClient, Outcomes
  <2>3. CASE Check(w)
    <3>1. PICK f \in futures :
            /\ f.by = w /\ f.out = "none"
            /\ \E out \in CheckOutcomes(f.sub.box) :
                 futures' = (futures \ {f}) \cup {[sub |-> f.sub, by |-> w, out |-> out]}
      BY <2>3 DEF Check
    <3>2. PICK out \in CheckOutcomes(f.sub.box) :
              futures' = (futures \ {f}) \cup {[sub |-> f.sub, by |-> w, out |-> out]}
      BY <3>1
    <3>3. out \in Outcomes \cup {"none"} /\ UNCHANGED batch
      BY <2>3, <3>2 DEF Check, CheckOutcomes, Outcomes
    <3> QED BY <3>1, <3>2, <3>3
  <2> QED BY <1>1, <2>1, <2>2, <2>3
<1>2. ASSUME NEW f \in batch, TakeBack(f)
      PROVE  futures' = futures \ {f} /\ batch' = batch \ {f}
  BY <1>2 DEF TakeBack
<1>3. CASE Wait
  BY <1>3 DEF Wait
<1>4. CASE \/ Start \/ CheckNext \/ SequentialEnds \/ ParallelEnds \/ PoolStops \/ AllClosed
           \/ Conclude \/ UNCHANGED vars \/ \E w \in Workers : CloseClient(w)
  BY <1>4 DEF Start, CheckNext, SequentialEnds, ParallelEnds, PoolStops, AllClosed, Conclude,
     CloseClient, pool, vars
<1> QED BY <1>1, <1>2, <1>3, <1>4, NextCases

LEMMA PoolTyped ==
    ASSUME QueueTyped, FuturesTyped, BatchTyped, [Next]_vars
    PROVE  FuturesTyped' /\ BatchTyped'
<1>1. CASE UNCHANGED <<futures, batch>>
  BY <1>1 DEF FuturesTyped, BatchTyped
<1>2. CASE Submit
  <2>1. Head(pending) \in Subdomain
    BY <1>2, RangeOfTail DEF Submit, QueueTyped
  <2>2. [sub |-> Head(pending), by |-> NoWorker, out |-> "none"] \in Future
    BY <2>1 DEF Future
  <2> QED BY <1>2, <2>2 DEF Submit, FuturesTyped, BatchTyped
<1>3. CASE \E f \in batch : futures' = futures \ {f} /\ batch' = batch \ {f} /\ TakeBack(f)
  BY <1>3 DEF FuturesTyped, BatchTyped
<1>4. CASE UNCHANGED futures /\ batch' = Finished
  BY <1>4 DEF Finished, FuturesTyped, BatchTyped
<1>5. ASSUME NEW w \in Workers, NEW out \in Outcomes \cup {"none"}, NEW f \in futures,
             f.out = "none", UNCHANGED batch,
             futures' = (futures \ {f}) \cup {[sub |-> f.sub, by |-> w, out |-> out]}
      PROVE  FuturesTyped' /\ BatchTyped'
  <2>1. [sub |-> f.sub, by |-> w, out |-> out] \in Future
    BY DEF FuturesTyped, Future
  <2>2. f \notin batch
    BY <1>5 DEF BatchTyped
  <2> QED BY <1>5, <2>1, <2>2 DEF FuturesTyped, BatchTyped
<1> QED BY <1>1, <1>2, <1>3, <1>4, <1>5, PoolSteps

LEMMA ClientStep ==
    ASSUME ClientTyped, [Next]_vars PROVE ClientTyped'
<1>1. CASE UNCHANGED client
  BY <1>1 DEF ClientTyped
<1>2. ASSUME NEW w \in Workers, CloseClient(w) \/ PickUp(w) \/ NoClient(w) \/ Check(w)
      PROVE  ClientTyped'
  BY <1>2 DEF CloseClient, PickUp, NoClient, Check, ClientTyped
<1>3. ASSUME NEW f \in batch, TakeBack(f) PROVE UNCHANGED client
  BY <1>3 DEF TakeBack
<1>4. CASE \/ Start \/ CheckNext \/ SequentialEnds \/ Submit \/ Wait \/ ParallelEnds
           \/ PoolStops \/ AllClosed \/ Conclude \/ UNCHANGED vars
  BY <1>1, <1>4 DEF Start, CheckNext, SequentialEnds, Submit, Wait, ParallelEnds, PoolStops,
     AllClosed, Conclude, pool, vars
<1> QED BY <1>1, <1>2, <1>3, <1>4, NextCases

LEMMA StatusStep ==
    ASSUME RequestTyped, StatusTyped, [Next]_vars PROVE StatusTyped' /\ RequestTyped'
<1>1. CASE UNCHANGED <<request, status, error, verdict>>
  BY <1>1 DEF StatusTyped, RequestTyped, request
<1>2. ASSUME NEW w \in Workers, CloseClient(w) \/ PickUp(w) \/ NoClient(w) \/ Check(w)
      PROVE  UNCHANGED <<request, status, error, verdict>>
  BY <1>2 DEF CloseClient, PickUp, NoClient, Check
<1>3. ASSUME NEW f \in batch, TakeBack(f) PROVE StatusTyped' /\ RequestTyped'
  BY <1>3 DEF TakeBack, StatusTyped, RequestTyped, Statuses, request
<1>4. CASE Start
  BY <1>4, CegarAssumption DEF Start, StatusTyped, RequestTyped, Statuses, request
<1>5. CASE CheckNext
  BY <1>5 DEF CheckNext, StatusTyped, RequestTyped, Statuses, request
<1>6. CASE Conclude
  BY <1>6 DEF Conclude, StatusTyped, RequestTyped, Statuses, request
<1>7. CASE SequentialEnds \/ Submit \/ Wait \/ ParallelEnds \/ PoolStops \/ AllClosed
  BY <1>7 DEF SequentialEnds, Submit, Wait, ParallelEnds, PoolStops, AllClosed,
     StatusTyped, RequestTyped, Statuses, request
<1>8. CASE UNCHANGED vars
  BY <1>1, <1>8 DEF vars
<1> QED BY <1>1, <1>2, <1>3, <1>4, <1>5, <1>6, <1>7, <1>8, NextCases

Typed == /\ RequestTyped /\ TreeTyped /\ QueueTyped /\ ResultsTyped
         /\ FuturesTyped /\ BatchTyped /\ ClientTyped /\ StatusTyped

LEMMA RootIsSubdomain == RootSubdomain \in Subdomain
<1>1. Root \in Box
  BY CegarAssumption
<1> QED BY <1>1 DEF RootSubdomain, Subdomain

LEMMA TypedInit == Init => Typed
<1> SUFFICES ASSUME Init PROVE Typed
  OBVIOUS
<1>1. RequestTyped
  BY CegarAssumption DEF Init, RequestTyped
<1>2. TreeTyped /\ ResultsTyped /\ FuturesTyped /\ BatchTyped
  BY RootIsSubdomain DEF Init, TreeTyped, ResultsTyped, FuturesTyped, BatchTyped
<1>3. QueueTyped
  BY RootIsSubdomain DEF Init, QueueTyped
<1>4. ClientTyped /\ StatusTyped
  BY DEF Init, ClientTyped, StatusTyped, Statuses
<1> QED BY <1>1, <1>2, <1>3, <1>4 DEF Typed

LEMMA TypedStep == Typed /\ [Next]_vars => Typed'
<1> SUFFICES ASSUME Typed, [Next]_vars PROVE Typed'
  OBVIOUS
<1> QED BY LoopStep, PoolTyped, ClientStep, StatusStep DEF Typed

LEMMA AlwaysTyped == Spec => []Typed
<1> QED BY TypedInit, TypedStep, PTL DEF Spec

(* Every variable keeps its type, whatever the limits and the threads are:   *)
(* in particular no step of _verify_sequential or _verify_parallel makes a   *)
(* subdomain that is not a proper box, and a batch holds only futures that   *)
(* the loop still owns.                                                      *)
THEOREM TypeCorrect == Spec => []TypeOK
<1>1. Typed => TypeOK
  BY DEF Typed, RequestTyped, TreeTyped, QueueTyped, ResultsTyped, FuturesTyped, BatchTyped,
     ClientTyped, StatusTyped, TypeOK
<1> QED BY <1>1, AlwaysTyped, PTL

-----------------------------------------------------------------------------
(* Clients and the work they are used for *)

(* The thread of every future that is being checked has its client open;    *)
(* no client is closed while the executor may still work, and none is open  *)
(* where it no longer can.                                                  *)
PoolInv ==
    /\ ClientOutlivesWork
    /\ status \in {"start", "sequential"} => futures = {} /\ \A w \in Workers : client[w] = "none"
    /\ status \in {"parallel", "failing"} => \A w \in Workers : client[w] # "closed"
    /\ status \in {"closing", "finishing", "done"} => Finished = futures
    /\ status \in {"finishing", "done"} => \A w \in Workers : client[w] # "open"
    /\ verdict # "open" => status = "done"

LEMMA PoolInvInit == ASSUME Init PROVE PoolInv
  BY DEF Init, PoolInv, ClientOutlivesWork

(* A thread starts on a future, fails to make its client, or ends a check. *)
LEMMA ThreadKeepsPool ==
    ASSUME Typed, PoolInv, NEW w \in Workers, PickUp(w) \/ NoClient(w) \/ Check(w)
    PROVE  PoolInv'
<1>1. PICK f \in futures, out \in Outcomes \cup {"none"} :
         /\ f.out = "none"
         /\ futures' = (futures \ {f}) \cup {[sub |-> f.sub, by |-> w, out |-> out]}
         /\ out = "none" => PickUp(w)
  <2>1. CASE PickUp(w)
    BY <2>1 DEF PickUp
  <2>2. CASE NoClient(w)
    BY <2>2 DEF NoClient, Outcomes
  <2>3. CASE Check(w)
    BY <2>3 DEF Check, CheckOutcomes, Outcomes
  <2> QED BY <2>1, <2>2, <2>3
<1> DEFINE n == [sub |-> f.sub, by |-> w, out |-> out]
<1>2. n.by = w /\ n.out = out /\ futures' = (futures \ {f}) \cup {n}
  BY <1>1
<1> HIDE DEF n
<1>3. status \in {"parallel", "failing"}
  <2>1. Finished # futures
    BY <1>1 DEF Finished
  <2> QED BY <1>1, <2>1 DEF PoolInv, Typed, StatusTyped, Statuses
<1>4. status' = status /\ verdict' = verdict
  BY DEF PickUp, NoClient, Check
<1>5. \A v \in Workers : /\ client'[v] # "closed"
                         /\ client[v] = "open" => client'[v] = "open"
  BY <1>3 DEF PickUp, NoClient, Check, PoolInv, Typed, ClientTyped
<1>6. out = "none" => client'[w] = "open"
  BY <1>1, <1>3 DEF PickUp, PoolInv, Typed, ClientTyped
<1>7. ASSUME NEW g \in futures', g.by # NoWorker, g.out = "none"
      PROVE  client'[g.by] = "open"
  <2>1. CASE g = n
    BY <1>2, <1>6, <1>7, <2>1
  <2>2. CASE g # n
    <3>1. g \in futures
      BY <1>2, <2>2
    <3>2. client[g.by] = "open"
      BY <1>7, <3>1 DEF PoolInv, ClientOutlivesWork
    <3>3. g.by \in Workers
      BY <1>7, <3>1 DEF Typed, FuturesTyped, Future
    <3> QED BY <1>5, <3>2, <3>3
  <2> QED BY <2>1, <2>2
<1> QED BY <1>3, <1>4, <1>5, <1>7 DEF PoolInv, ClientOutlivesWork

LEMMA PoolInvStep == ASSUME Typed, PoolInv, [Next]_vars PROVE PoolInv'
<1>1. ASSUME futures' \subseteq futures, client' = client PROVE ClientOutlivesWork'
  BY <1>1 DEF PoolInv, ClientOutlivesWork
<1>2. ASSUME futures' = futures PROVE Finished' = Finished
  BY <1>2 DEF Finished
<1>3. CASE Start
  BY <1>1, <1>2, <1>3, CegarAssumption DEF Start, PoolInv, pool, Finished
<1>4. CASE CheckNext
  BY <1>1, <1>2, <1>4 DEF CheckNext, PoolInv, pool, Finished
<1>5. CASE SequentialEnds
  BY <1>1, <1>2, <1>5 DEF SequentialEnds, PoolInv, pool, Finished
<1>6. CASE Submit
  <2> DEFINE n == [sub |-> Head(pending), by |-> NoWorker, out |-> "none"]
  <2>1. futures' = futures \cup {n} /\ n.by = NoWorker
    BY <1>6 DEF Submit
  <2> HIDE DEF n
  <2> QED BY <1>6, <2>1 DEF Submit, PoolInv, ClientOutlivesWork
<1>7. CASE Wait
  BY <1>1, <1>7 DEF Wait, PoolInv
<1>8. ASSUME NEW f \in batch, TakeBack(f) PROVE PoolInv'
  BY <1>1, <1>8 DEF TakeBack, PoolInv
<1>9. CASE ParallelEnds
  BY <1>1, <1>9 DEF ParallelEnds, PoolInv, pool, Finished
<1>10. CASE PoolStops
  BY <1>1, <1>2, <1>10 DEF PoolStops, PoolInv, pool
<1>11. ASSUME NEW w \in Workers, CloseClient(w) PROVE PoolInv'
  <2>1. status = "closing" /\ status' = status /\ futures' = futures /\ verdict' = verdict
    BY <1>11 DEF CloseClient
  <2>2. \A f \in futures : f.out # "none"
    BY <2>1 DEF PoolInv, Finished
  <2> QED BY <1>2, <2>1, <2>2 DEF PoolInv, ClientOutlivesWork
<1>12. CASE AllClosed
  BY <1>1, <1>2, <1>12 DEF AllClosed, PoolInv, pool
<1>13. CASE Conclude
  BY <1>1, <1>2, <1>13 DEF Conclude, PoolInv, pool
<1>14. CASE UNCHANGED vars
  BY <1>1, <1>2, <1>14 DEF vars, PoolInv, pool
<1> QED BY <1>3, <1>4, <1>5, <1>6, <1>7, <1>8, <1>9, <1>10, <1>11, <1>12, <1>13, <1>14,
           ThreadKeepsPool, NextCases

LEMMA AlwaysPool == Spec => []PoolInv
<1>1. Init => PoolInv
  BY PoolInvInit
<1>2. Typed /\ PoolInv /\ [Next]_vars => PoolInv'
  BY PoolInvStep
<1> QED BY <1>1, <1>2, AlwaysTyped, PTL DEF Spec

(* No executor thread works with a client that was closed: leaving the       *)
(* `with` block waits for the threads before the clients are closed.         *)
THEOREM ClientOutlivesWorkAlways == Spec => []ClientOutlivesWork
<1>1. PoolInv => ClientOutlivesWork
  BY DEF PoolInv
<1> QED BY <1>1, AlwaysPool, PTL

(* When the call ends, by a result or by an exception, no client of an       *)
(* executor thread is open.                                                  *)
THEOREM NoClientLeftAlways == Spec => []NoClientLeft
<1>1. PoolInv => NoClientLeft
  BY DEF PoolInv, NoClientLeft
<1> QED BY <1>1, AlwaysPool, PTL

(* The clients of executor threads are closed after their work, and are.     *)
THEOREM ClientsClosedInTimeAlways == Spec => []ClientsClosedInTime
<1>1. ClientOutlivesWork /\ NoClientLeft => ClientsClosedInTime
  BY DEF ClientsClosedInTime
<1> QED BY <1>1, ClientOutlivesWorkAlways, NoClientLeftAlways, PTL

-----------------------------------------------------------------------------
(* Limits *)

LimitsInv ==
    /\ splits <= MaxSplits
    /\ \A s \in subdomains : s.depth <= MaxDepth
    /\ IsFiniteSet(futures) /\ Cardinality(futures) <= Cardinality(Workers)
    /\ IsFiniteSet(results)

LEMMA LimitsInit == ASSUME Init PROVE LimitsInv
<1>1. Cardinality(Workers) \in Nat
  BY CegarAssumption, FS_CardinalityType
<1>2. futures = {} /\ results = {} /\ splits = 0 /\ subdomains = {RootSubdomain}
  BY DEF Init
<1>3. RootSubdomain.depth = 0
  BY DEF RootSubdomain
<1>4. IsFiniteSet({}) /\ Cardinality({}) = 0
  BY FS_EmptySet
<1>5. 0 <= MaxSplits /\ 0 <= MaxDepth
  BY CegarAssumption
<1> QED BY <1>1, <1>2, <1>3, <1>4, <1>5 DEF LimitsInv

(* A split uses up one of max_splits and goes down one level. *)
LEMMA HandleLimits ==
    ASSUME Typed, LimitsInv, NEW s \in Subdomain, NEW out, NEW rest, Handle(s, out, rest)
    PROVE  /\ splits' <= MaxSplits /\ \A t \in subdomains' : t.depth <= MaxDepth
           /\ IsFiniteSet(results')
<1>0. splits \in Nat /\ s.depth \in Nat /\ MaxSplits \in Nat /\ MaxDepth \in Nat
  BY CegarAssumption DEF Typed, TreeTyped, Subdomain
<1>1. CASE Split(s, out, rest)
  <2>1. s.depth < MaxDepth /\ splits < MaxSplits
    BY <1>1 DEF Split, Decided, ShouldSplit
  <2>2. splits' = splits + 1 /\ results' = results
    BY <1>1 DEF Split
  <2>3. ASSUME NEW t \in subdomains' PROVE t \in subdomains \/ t.depth = s.depth + 1
    BY <1>1 DEF Split
  <2>4. s.depth + 1 <= MaxDepth /\ splits + 1 <= MaxSplits
    BY <1>0, <2>1
  <2> QED BY <2>2, <2>3, <2>4 DEF LimitsInv
<1>2. CASE Keep(s, out, rest) \/ AnalysisRaises(s, out, rest)
  <2>1. UNCHANGED <<subdomains, splits>>
    BY <1>2 DEF Keep, AnalysisRaises, tree
  <2>2. \E r : results' = results \cup {r}
    BY <1>2 DEF Keep, AnalysisRaises
  <2>3. IsFiniteSet(results')
    BY <2>2, FS_AddElement DEF LimitsInv
  <2> QED BY <2>1, <2>3 DEF LimitsInv
<1> QED BY <1>1, <1>2 DEF Handle

(* A future that moves on takes the place of the one it was. *)
LEMMA ReplacedOne ==
    ASSUME NEW S, IsFiniteSet(S), NEW x \in S, NEW y
    PROVE  IsFiniteSet((S \ {x}) \cup {y}) /\ Cardinality((S \ {x}) \cup {y}) <= Cardinality(S)
<1>1. IsFiniteSet(S \ {x}) /\ Cardinality(S \ {x}) = Cardinality(S) - 1
  BY FS_RemoveElement
<1>2. Cardinality(S) \in Nat /\ Cardinality(S \ {x}) \in Nat
  BY <1>1, FS_CardinalityType
<1> DEFINE T == S \ {x}
<1>3. IsFiniteSet(T \cup {y}) /\ Cardinality(T \cup {y}) = IF y \in T THEN Cardinality(T) ELSE Cardinality(T) + 1
  BY <1>1, FS_AddElement
<1> HIDE DEF T
<1>4. Cardinality(T \cup {y}) <= Cardinality(T) + 1
  BY <1>2, <1>3 DEF T
<1> QED BY <1>1, <1>2, <1>3, <1>4 DEF T

LEMMA LimitsStep == ASSUME Typed, LimitsInv, [Next]_vars PROVE LimitsInv'
<1> DEFINE TreeLimits == /\ splits' <= MaxSplits /\ \A t \in subdomains' : t.depth <= MaxDepth
                         /\ IsFiniteSet(results')
           FewFutures == IsFiniteSet(futures') /\ Cardinality(futures') <= Cardinality(Workers)
<1>1. TreeLimits
  <2>1. CASE UNCHANGED <<tree, results>>
    BY <2>1 DEF LimitsInv, tree
  <2>2. CASE CheckNext
    <3>1. Head(pending) \in Subdomain
      BY <2>2, RangeOfTail DEF CheckNext, Typed, QueueTyped
    <3> QED BY <2>1, <2>2, <3>1, CheckNextCases, HandleLimits
  <2>3. ASSUME NEW f \in batch, TakeBack(f) PROVE TreeLimits
    <3>1. f.sub \in Subdomain
      BY DEF Typed, BatchTyped, FuturesTyped, Future
    <3> QED BY <2>3, <3>1, TakeBackCases, HandleLimits
  <2>4. CASE \E w \in Workers : CloseClient(w) \/ PickUp(w) \/ NoClient(w) \/ Check(w)
    BY <2>1, <2>4 DEF CloseClient, PickUp, NoClient, Check
  <2>5. CASE \/ Start \/ SequentialEnds \/ Submit \/ Wait \/ ParallelEnds \/ PoolStops \/ AllClosed
             \/ Conclude \/ UNCHANGED vars
    BY <2>1, <2>5 DEF Start, SequentialEnds, Submit, Wait, ParallelEnds, PoolStops, AllClosed,
       Conclude, vars
  <2> QED BY <2>2, <2>3, <2>4, <2>5, NextCases
<1>2. FewFutures
  <2>0. /\ IsFiniteSet(futures) /\ Cardinality(futures) <= Cardinality(Workers)
        /\ Cardinality(futures) \in Nat /\ Cardinality(Workers) \in Nat
    BY CegarAssumption, FS_CardinalityType DEF LimitsInv
  <2>1. CASE UNCHANGED futures
    BY <2>0, <2>1
  <2>2. CASE Submit
    <3>1. PICK n : futures' = futures \cup {n}
      BY <2>2 DEF Submit
    <3>2. Cardinality(futures) < Cardinality(Workers)
      BY <2>2 DEF Submit
    <3>3. IsFiniteSet(futures') /\ Cardinality(futures') \in {Cardinality(futures), Cardinality(futures) + 1}
      BY <2>0, <3>1, FS_AddElement
    <3> QED BY <2>0, <3>2, <3>3
  <2>3. ASSUME NEW f \in batch, futures' = futures \ {f} PROVE FewFutures
    <3>1. futures' \in SUBSET futures
      BY <2>3
    <3>2. IsFiniteSet(futures') /\ Cardinality(futures') <= Cardinality(futures)
      BY <2>0, <3>1, FS_Subset
    <3>3. Cardinality(futures') \in Nat
      BY <3>2, FS_CardinalityType
    <3> QED BY <2>0, <3>2, <3>3
  <2>4. ASSUME NEW w \in Workers, NEW out, NEW f \in futures,
               futures' = (futures \ {f}) \cup {[sub |-> f.sub, by |-> w, out |-> out]}
        PROVE  FewFutures
    <3> DEFINE n == [sub |-> f.sub, by |-> w, out |-> out]
    <3>1. futures' = (futures \ {f}) \cup {n}
      BY <2>4
    <3> HIDE DEF n
    <3>2. IsFiniteSet(futures') /\ Cardinality(futures') <= Cardinality(futures)
      BY <2>0, <3>1, ReplacedOne
    <3>3. Cardinality(futures') \in Nat
      BY <3>2, FS_CardinalityType
    <3> QED BY <2>0, <3>2, <3>3
  <2> QED BY <2>1, <2>2, <2>3, <2>4, PoolSteps
<1> QED BY <1>1, <1>2 DEF LimitsInv

LEMMA AlwaysLimits == Spec => []LimitsInv
<1>1. Init => LimitsInv
  BY LimitsInit
<1>2. Typed /\ LimitsInv /\ [Next]_vars => LimitsInv'
  BY LimitsStep
<1> QED BY <1>1, <1>2, AlwaysTyped, PTL DEF Spec

(* max_splits, max_depth and the number of futures are never exceeded, in    *)
(* whatever order the results of the threads come back.                      *)
THEOREM WithinLimitsAlways == Spec => []WithinLimits
<1>1. LimitsInv => WithinLimits
  BY DEF LimitsInv, WithinLimits
<1> QED BY <1>1, AlwaysLimits, PTL
=============================================================================
