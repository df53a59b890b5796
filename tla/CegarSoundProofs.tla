--------------------------- MODULE CegarSoundProofs ---------------------------
(***************************************************************************)
(* CEGARVerifier is sound for one bound: for every box, limits and threads, *)
(* a verdict "verified" means that the bound holds on every cell of the     *)
(* domain.  The invariant says where every leaf of the tree is: it waits,   *)
(* or a thread has it, or its result is in.                                 *)
(***************************************************************************)
EXTENDS CegarProofs

(* verify_bound_adaptive passes one bound on; the run "both" shows that   *)
(* the theorem fails when a caller gives both.                              *)
OneBoundOnly == \A r \in Requests : ~({"upper", "lower"} \subseteq r)

IdsUnique ==
    /\ \A s \in subdomains : s.id <= lastId /\ s.parent <= lastId
    /\ \A s, t \in subdomains : s.id = t.id => s = t

Covered == \A c \in Cells(Root) : \E s \in Leaves : c \in Cells(s.box)

InTree == Waiting \cup Given \cup Taken \subseteq subdomains

Placed == error \/ Leaves \subseteq Waiting \cup Given \cup Taken

HoldsOn(s) == Cells(s.box) \cap Wrong[Direction] = {}

Checked ==
    /\ \A f \in futures : f.out = "verified" => HoldsOn(f.sub)
    /\ \A r \in results : r.verified => HoldsOn(r.sub)

Ended ==
    /\ status \in {"start", "sequential"} => futures = {}
    /\ status = "failing" => error
    /\ status \in {"closing", "finishing"} /\ ~error => pending = <<>> /\ futures = {}

Proven == verdict = "verified" => HoldsOn(RootSubdomain)

SoundInv == asked \in Requests /\ IdsUnique /\ Covered /\ InTree /\ Placed /\ Checked /\ Ended /\ Proven

-----------------------------------------------------------------------------
(* The tree *)

LEMMA LeavesAfterSplit ==
    ASSUME TreeTyped, IdsUnique, NEW s \in subdomains, NEW l, NEW r, NEW rest, SplitInto(s, l, r, rest)
    PROVE  Leaves' = (Leaves \ {s}) \cup {l, r} /\ IdsUnique'
<1>1. lastId \in Nat /\ \A t \in subdomains : t.id \in Nat /\ t.parent \in Int
  BY DEF TreeTyped, Subdomain
<1>2. /\ l.id = lastId + 1 /\ l.parent = s.id /\ r.id = lastId + 2 /\ r.parent = s.id
      /\ subdomains' = subdomains \cup {l, r} /\ lastId' = lastId + 2
  BY DEF SplitInto
<1>3. \A t \in subdomains : t.id <= lastId /\ t.parent <= lastId
  BY DEF IdsUnique
<1>4. s.id <= lastId
  BY <1>3
<1>5. \A t \in subdomains' : t.parent # l.id /\ t.parent # r.id
  BY <1>1, <1>2, <1>3, <1>4
<1>6. l \in Leaves' /\ r \in Leaves'
  BY <1>2, <1>5 DEF Leaves
<1>7. s \notin Leaves'
  BY <1>2 DEF Leaves
<1>8. ASSUME NEW t \in Leaves, t # s PROVE t \in Leaves'
  <2>1. t \in subdomains /\ t.id # s.id /\ \A u \in subdomains : u.parent # t.id
    BY <1>8 DEF Leaves, IdsUnique
  <2> QED BY <2>1, <1>2 DEF Leaves
<1>9. ASSUME NEW t \in Leaves', t \notin {l, r} PROVE t \in Leaves \ {s}
  BY <1>2, <1>7, <1>9 DEF Leaves
<1>10. Leaves' = (Leaves \ {s}) \cup {l, r}
  BY <1>6, <1>7, <1>8, <1>9
<1>11. \A t \in subdomains' : t.id <= lastId' /\ t.parent <= lastId'
  BY <1>1, <1>2, <1>3, <1>4
<1>12. ASSUME NEW t \in subdomains', NEW u \in subdomains', t.id = u.id PROVE t = u
  BY <1>1, <1>2, <1>3, <1>12 DEF IdsUnique
<1> QED BY <1>10, <1>11, <1>12 DEF IdsUnique

LEMMA CoveredAfterSplit ==
    ASSUME TreeTyped, IdsUnique, Covered, NEW s \in subdomains, NEW l, NEW r, NEW rest,
           SplitInto(s, l, r, rest)
    PROVE  Covered'
<1>1. Leaves' = (Leaves \ {s}) \cup {l, r}
  BY LeavesAfterSplit
<1>2. Cells(l.box) \cup Cells(r.box) = Cells(s.box)
  BY DEF SplitInto
<1>3. ASSUME NEW c \in Cells(Root) PROVE \E t \in Leaves' : c \in Cells(t.box)
  <2>1. PICK t \in Leaves : c \in Cells(t.box)
    BY DEF Covered
  <2> QED BY <1>1, <1>2, <2>1
<1> QED BY <1>3 DEF Covered

(* One turn of a loop, for a subdomain s taken from the queue or from the   *)
(* executor: rest is what is left of the queue, given of the futures.       *)
TreeInv == IdsUnique /\ Covered

LEMMA HandleTree ==
    ASSUME Typed, TreeInv, NEW s \in subdomains, NEW out, NEW rest \in Seq(Subdomain),
           Handle(s, out, rest)
    PROVE  TreeInv'
<1>1. CASE Split(s, out, rest)
  <2>1. s \in Subdomain
    BY DEF Typed, TreeTyped
  <2>2. PICK l, r : SplitInto(s, l, r, rest)
    BY <1>1, <2>1, SplitCuts DEF Typed
  <2> QED BY <2>2, LeavesAfterSplit, CoveredAfterSplit DEF TreeInv, Typed
<1>2. CASE Keep(s, out, rest) \/ AnalysisRaises(s, out, rest)
  BY <1>2 DEF Keep, AnalysisRaises, tree, TreeInv, IdsUnique, Covered, Leaves
<1> QED BY <1>1, <1>2 DEF Handle

LEMMA HandlePlaces ==
    ASSUME Typed, IdsUnique, NEW s \in subdomains, NEW out, NEW rest \in Seq(Subdomain),
           Handle(s, out, rest), NEW others,
           RangeOf(rest) \cup others \cup Taken \subseteq subdomains
    PROVE  /\ Leaves \subseteq RangeOf(rest) \cup others \cup Taken \cup {s}
                => Leaves' \subseteq Waiting' \cup others \cup Taken'
           /\ Waiting' \cup others \cup Taken' \subseteq subdomains'
<1>1. Waiting' = RangeOf(pending')
  BY DEF Waiting, RangeOf
<1>2. CASE Split(s, out, rest)
  <2>1. s \in Subdomain
    BY DEF Typed, TreeTyped
  <2>2. PICK l, r : SplitInto(s, l, r, rest)
    BY <1>2, <2>1, SplitCuts DEF Typed
  <2>3. Leaves' = (Leaves \ {s}) \cup {l, r}
    BY <2>2, LeavesAfterSplit DEF Typed
  <2>4. pending' = rest \o <<l, r>> /\ l \in Subdomain /\ r \in Subdomain
        /\ subdomains' = subdomains \cup {l, r} /\ results' = results
    BY <2>2 DEF SplitInto
  <2>5. RangeOf(pending') = RangeOf(rest) \cup {l, r}
    BY <2>4, RangeOfAppendTwo
  <2>6. Taken' = Taken
    BY <2>4 DEF Taken
  <2> QED BY <1>1, <2>3, <2>4, <2>5, <2>6
<1>3. CASE Keep(s, out, rest) \/ AnalysisRaises(s, out, rest)
  <2>1. PICK v : results' = results \cup {[sub |-> s, verified |-> v]}
    BY <1>3 DEF Keep, AnalysisRaises
  <2>2. Taken' = Taken \cup {s}
    <3> DEFINE n == [sub |-> s, verified |-> v]
    <3>1. n.sub = s /\ results' = results \cup {n}
      BY <2>1
    <3> HIDE DEF n
    <3> QED BY <3>1 DEF Taken
  <2>3. pending' = rest /\ UNCHANGED tree
    BY <1>3 DEF Keep, AnalysisRaises
  <2>4. Leaves' = Leaves /\ subdomains' = subdomains
    BY <2>3 DEF tree, Leaves
  <2> QED BY <1>1, <2>2, <2>3, <2>4
<1> QED BY <1>2, <1>3 DEF Handle

LEMMA HandleChecks ==
    ASSUME NEW s, NEW out, NEW rest, Handle(s, out, rest), UNCHANGED asked,
           out = "verified" => HoldsOn(s),
           \A r \in results : r.verified => HoldsOn(r.sub)
    PROVE  (\A r \in results : r.verified => HoldsOn(r.sub))'
<1>1. ASSUME NEW t PROVE HoldsOn(t)' <=> HoldsOn(t)
  BY DEF HoldsOn, Direction
<1>2. CASE Keep(s, out, rest)
  <2> DEFINE v == out = "verified"
  <2>1. results' = results \cup {[sub |-> s, verified |-> v]}
    BY <1>2 DEF Keep
  <2>2. v => HoldsOn(s)
    OBVIOUS
  <2>3. v \in BOOLEAN
    OBVIOUS
  <2> HIDE DEF v
  <2> DEFINE n == [sub |-> s, verified |-> v]
  <2>4. n.sub = s /\ (n.verified <=> v)
    BY <2>3
  <2> HIDE DEF n
  <2>5. results' = results \cup {n}
    BY <2>1 DEF n
  <2>6. ASSUME NEW r \in results', r.verified PROVE HoldsOn(r.sub)'
    BY <1>1, <2>2, <2>4, <2>5, <2>6
  <2> QED BY <2>6
<1>3. CASE AnalysisRaises(s, out, rest)
  <2>1. results' = results \cup {[sub |-> s, verified |-> FALSE]}
    BY <1>3 DEF AnalysisRaises
  <2>2. ~([sub |-> s, verified |-> FALSE].verified)
    OBVIOUS
  <2>3. ASSUME NEW r \in results', r.verified PROVE HoldsOn(r.sub)'
    BY <1>1, <2>1, <2>2, <2>3
  <2> QED BY <2>3
<1>4. CASE Split(s, out, rest)
  <2>1. results' = results
    BY <1>4 DEF Split
  <2>2. ASSUME NEW r \in results', r.verified PROVE HoldsOn(r.sub)'
    BY <1>1, <2>1, <2>2
  <2> QED BY <2>2
<1> QED BY <1>2, <1>3, <1>4 DEF Handle

-----------------------------------------------------------------------------
(* One lemma for each part of the invariant. *)

LEMMA HeadOfQueue ==
    ASSUME Typed, InTree, pending # <<>>
    PROVE  /\ Head(pending) \in subdomains /\ Tail(pending) \in Seq(Subdomain)
           /\ Waiting = RangeOf(Tail(pending)) \cup {Head(pending)}
<1>1. Tail(pending) \in Seq(Subdomain) /\ RangeOf(pending) = RangeOf(Tail(pending)) \cup {Head(pending)}
  BY RangeOfTail DEF Typed, QueueTyped
<1>2. Waiting = RangeOf(pending)
  BY DEF Waiting, RangeOf
<1> QED BY <1>1, <1>2 DEF InTree

LEMMA FutureInTree ==
    ASSUME Typed, InTree, NEW f \in batch PROVE f \in futures /\ f.sub \in subdomains
  BY DEF Typed, BatchTyped, InTree, Given

(* The steps that leave the loop's own state alone. *)
Quiet == UNCHANGED <<subdomains, lastId, results, pending>>

LEMMA LoopCases ==
    ASSUME [Next]_vars
    PROVE  \/ CheckNext \/ Submit
           \/ \E f \in batch : TakeBack(f)
           \/ Quiet
<1>1. CASE \E w \in Workers : CloseClient(w) \/ PickUp(w) \/ NoClient(w) \/ Check(w)
  BY <1>1 DEF CloseClient, PickUp, NoClient, Check, tree, Quiet
<1>2. CASE \/ Start \/ SequentialEnds \/ Wait \/ ParallelEnds \/ PoolStops \/ AllClosed
           \/ Conclude \/ UNCHANGED vars
  BY <1>2 DEF Start, SequentialEnds, Wait, ParallelEnds, PoolStops, AllClosed, Conclude, vars, tree, Quiet
<1> QED BY <1>1, <1>2, NextCases

LEMMA TreeStep ==
    ASSUME Typed, TreeInv, InTree, [Next]_vars PROVE TreeInv'
<1>1. CASE UNCHANGED <<subdomains, lastId>>
  BY <1>1 DEF TreeInv, IdsUnique, Covered, Leaves
<1>2. CASE CheckNext
  <2>1. Head(pending) \in subdomains /\ Tail(pending) \in Seq(Subdomain)
    BY <1>2, HeadOfQueue DEF CheckNext
  <2>2. CASE UNCHANGED <<tree, results>>
    BY <1>1, <2>2 DEF tree
  <2> QED BY <1>2, <2>1, <2>2, CheckNextCases, HandleTree
<1>3. ASSUME NEW f \in batch, TakeBack(f) PROVE TreeInv'
  <2>1. f.sub \in subdomains
    BY FutureInTree
  <2>2. Handle(f.sub, TakenAs(f), pending)
    BY <1>3, TakeBackCases
  <2> QED BY <2>1, <2>2, HandleTree DEF Typed, QueueTyped
<1>4. CASE Submit
  BY <1>1, <1>4 DEF Submit, tree
<1> QED BY <1>1, <1>2, <1>3, <1>4, LoopCases DEF Quiet

LEMMA ErrorStays ==
    ASSUME Typed, error, [Next]_vars PROVE error'
<1>1. CASE UNCHANGED error
  BY <1>1
<1>2. CASE CheckNext
  BY <1>2 DEF CheckNext
<1>3. ASSUME NEW f \in batch, TakeBack(f) PROVE error'
  BY <1>3 DEF TakeBack
<1>4. CASE \E w \in Workers : CloseClient(w) \/ PickUp(w) \/ NoClient(w) \/ Check(w)
  BY <1>4 DEF CloseClient, PickUp, NoClient, Check
<1>5. CASE \/ Start \/ SequentialEnds \/ Submit \/ Wait \/ ParallelEnds \/ PoolStops \/ AllClosed
           \/ Conclude \/ UNCHANGED vars
  BY <1>5 DEF Start, SequentialEnds, Submit, Wait, ParallelEnds, PoolStops, AllClosed, Conclude, vars
<1> QED BY <1>1, <1>2, <1>3, <1>4, <1>5, NextCases

(* Given changes only with Submit and TakeBack: a future that moves on keeps *)
(* its subdomain.                                                           *)
LEMMA GivenStep ==
    ASSUME Typed, [Next]_vars
    PROVE  /\ Submit => Given' = Given \cup {Head(pending)}
           /\ \A f \in batch : TakeBack(f) => Given \subseteq Given' \cup {f.sub} /\ Given' \subseteq Given
           /\ Given' = Given \/ Submit \/ \E f \in batch : TakeBack(f)
<1>1. ASSUME UNCHANGED futures PROVE Given' = Given
  BY <1>1 DEF Given
<1>2. ASSUME Submit PROVE Given' = Given \cup {Head(pending)}
  <2> DEFINE n == [sub |-> Head(pending), by |-> NoWorker, out |-> "none"]
  <2>1. futures' = futures \cup {n} /\ n.sub = Head(pending)
    BY <1>2 DEF Submit
  <2> HIDE DEF n
  <2> QED BY <1>2, <2>1 DEF Given
<1>3. ASSUME NEW f \in batch, TakeBack(f)
      PROVE  Given \subseteq Given' \cup {f.sub} /\ Given' \subseteq Given
  BY <1>3 DEF TakeBack, Given
<1>4. ASSUME NEW w \in Workers, NEW out \in Outcomes \cup {"none"}, NEW f \in futures,
             futures' = (futures \ {f}) \cup {[sub |-> f.sub, by |-> w, out |-> out]}
      PROVE  Given' = Given
  <2> DEFINE n == [sub |-> f.sub, by |-> w, out |-> out]
  <2>1. n.sub = f.sub /\ futures' = (futures \ {f}) \cup {n}
    BY <1>4
  <2> HIDE DEF n
  <2> QED BY <2>1 DEF Given
<1> QED BY <1>1, <1>2, <1>3, <1>4, PoolSteps

LEMMA PlacesStep ==
    ASSUME Typed, IdsUnique, InTree, Placed, [Next]_vars PROVE InTree' /\ Placed'
<1>1. CASE CheckNext
  <2>1. /\ Head(pending) \in subdomains /\ Tail(pending) \in Seq(Subdomain)
        /\ Waiting = RangeOf(Tail(pending)) \cup {Head(pending)}
    BY <1>1, HeadOfQueue DEF CheckNext
  <2>2. Given' = Given
    BY <1>1 DEF CheckNext, pool, Given
  <2>3. CASE pending' = Tail(pending) /\ UNCHANGED <<tree, results>> /\ error'
    <3>1. Waiting' = RangeOf(Tail(pending)) /\ Taken' = Taken /\ subdomains' = subdomains
      BY <2>3 DEF Waiting, RangeOf, Taken, tree
    <3> QED BY <2>1, <2>2, <2>3, <3>1 DEF InTree, Placed
  <2>4. ASSUME NEW out, Handle(Head(pending), out, Tail(pending)) PROVE InTree' /\ Placed'
    <3>1. RangeOf(Tail(pending)) \cup Given \cup Taken \subseteq subdomains
      BY <2>1 DEF InTree
    <3>2. /\ Leaves \subseteq RangeOf(Tail(pending)) \cup Given \cup Taken \cup {Head(pending)}
               => Leaves' \subseteq Waiting' \cup Given \cup Taken'
          /\ Waiting' \cup Given \cup Taken' \subseteq subdomains'
      BY <2>1, <2>4, <3>1, HandlePlaces
    <3> QED BY <2>1, <2>2, <3>2, ErrorStays DEF InTree, Placed
  <2> QED BY <1>1, <2>3, <2>4, CheckNextCases
<1>2. ASSUME NEW f \in batch, TakeBack(f), Given \subseteq Given' \cup {f.sub}, Given' \subseteq Given
      PROVE  InTree' /\ Placed'
  <2>1. f.sub \in subdomains /\ Handle(f.sub, TakenAs(f), pending) /\ pending \in Seq(Subdomain)
    BY <1>2, FutureInTree, TakeBackCases DEF Typed, QueueTyped
  <2>2. Waiting = RangeOf(pending)
    BY DEF Waiting, RangeOf
  <2>3. RangeOf(pending) \cup Given' \cup Taken \subseteq subdomains
    BY <1>2, <2>2 DEF InTree
  <2>4. /\ Leaves \subseteq RangeOf(pending) \cup Given' \cup Taken \cup {f.sub}
             => Leaves' \subseteq Waiting' \cup Given' \cup Taken'
        /\ Waiting' \cup Given' \cup Taken' \subseteq subdomains'
    BY <2>1, <2>3, HandlePlaces
  <2> QED BY <1>2, <2>2, <2>4, ErrorStays DEF InTree, Placed
<1>3. CASE Submit /\ Given' = Given \cup {Head(pending)}
  <2>1. /\ Head(pending) \in subdomains
        /\ Waiting = RangeOf(Tail(pending)) \cup {Head(pending)}
    BY <1>3, HeadOfQueue DEF Submit
  <2>2. Waiting' = RangeOf(Tail(pending)) /\ Taken' = Taken /\ Leaves' = Leaves
        /\ subdomains' = subdomains /\ error' = error
    BY <1>3 DEF Submit, Waiting, RangeOf, Taken, Leaves, tree
  <2> QED BY <1>3, <2>1, <2>2 DEF InTree, Placed
<1>4. CASE Quiet /\ Given' = Given
  <2>1. Waiting' = Waiting /\ Taken' = Taken /\ Leaves' = Leaves /\ subdomains' = subdomains
    BY <1>4 DEF Quiet, Waiting, Taken, Leaves
  <2> QED BY <1>4, <2>1, ErrorStays DEF InTree, Placed
<1> QED BY <1>1, <1>2, <1>3, <1>4, LoopCases, GivenStep

LEMMA CheckedStep ==
    ASSUME Typed, Checked, [Next]_vars PROVE Checked' /\ asked' = asked
<1> DEFINE R == \A r \in results : r.verified => HoldsOn(r.sub)
           F == \A f \in futures : f.out = "verified" => HoldsOn(f.sub)
<1>1. asked' = asked
  <2>1. CASE \E w \in Workers : CloseClient(w) \/ PickUp(w) \/ NoClient(w) \/ Check(w)
    BY <2>1 DEF CloseClient, PickUp, NoClient, Check, request
  <2>2. CASE \/ Start \/ CheckNext \/ SequentialEnds \/ Submit \/ Wait \/ ParallelEnds
             \/ PoolStops \/ AllClosed \/ Conclude \/ UNCHANGED vars
    BY <2>2 DEF Start, CheckNext, SequentialEnds, Submit, Wait, ParallelEnds, PoolStops, AllClosed,
       Conclude, vars, request
  <2>3. CASE \E f \in batch : TakeBack(f)
    BY <2>3 DEF TakeBack, request
  <2> QED BY <2>1, <2>2, <2>3, NextCases
<1>2. ASSUME NEW t PROVE HoldsOn(t)' <=> HoldsOn(t)
  BY <1>1 DEF HoldsOn, Direction
<1>3. ASSUME NEW s, "verified" \in CheckOutcomes(s.box) PROVE HoldsOn(s)
  BY <1>3 DEF CheckOutcomes, HoldsOn
<1>4. R'
  <2>1. CASE UNCHANGED results
    BY <1>2, <2>1 DEF Checked
  <2>2. CASE CheckNext
    <3>1. ASSUME NEW out \in CheckOutcomes(Head(pending).box), Handle(Head(pending), out, Tail(pending))
          PROVE  R'
      BY <1>1, <1>3, <3>1, HandleChecks DEF Checked
    <3>2. CASE UNCHANGED <<tree, results>>
      BY <2>1, <3>2
    <3> QED BY <2>2, <3>1, <3>2, CheckNextCases
  <2>3. ASSUME NEW f \in batch, TakeBack(f) PROVE R'
    <3>1. f \in futures
      BY DEF Typed, BatchTyped
    <3>2. Handle(f.sub, TakenAs(f), pending)
      BY <2>3, TakeBackCases
    <3>3. TakenAs(f) = "verified" => HoldsOn(f.sub)
      BY <3>1 DEF TakenAs, Checked
    <3> QED BY <1>1, <3>2, <3>3, HandleChecks DEF Checked
  <2>4. CASE Submit
    BY <2>1, <2>4 DEF Submit
  <2> QED BY <2>1, <2>2, <2>3, <2>4, LoopCases DEF Quiet
<1>5. F'
  <2>1. CASE futures' \subseteq futures
    BY <1>2, <2>1 DEF Checked
  <2>2. ASSUME NEW g, futures' \subseteq futures \cup {g}, g.out = "verified" => HoldsOn(g.sub)
        PROVE  F'
    BY <1>2, <2>2 DEF Checked
  <2>3. CASE Submit
    <3> DEFINE n == [sub |-> Head(pending), by |-> NoWorker, out |-> "none"]
    <3>1. futures' \subseteq futures \cup {n} /\ n.out # "verified"
      BY <2>3 DEF Submit
    <3> HIDE DEF n
    <3> QED BY <2>2, <3>1
  <2>4. ASSUME NEW w \in Workers, NEW out \in Outcomes \cup {"none"}, NEW f \in futures,
               out = "verified" => out \in CheckOutcomes(f.sub.box),
               futures' = (futures \ {f}) \cup {[sub |-> f.sub, by |-> w, out |-> out]}
        PROVE  F'
    <3> DEFINE n == [sub |-> f.sub, by |-> w, out |-> out]
    <3>1. futures' \subseteq futures \cup {n} /\ n.out = out /\ n.sub = f.sub
      BY <2>4
    <3>2. out = "verified" => HoldsOn(f.sub)
      BY <1>3, <2>4
    <3> HIDE DEF n
    <3> QED BY <2>2, <3>1, <3>2
  <2> QED BY <2>1, <2>3, <2>4, PoolSteps
<1> QED BY <1>1, <1>4, <1>5 DEF Checked

LEMMA EndedStep ==
    ASSUME Typed, Ended, [Next]_vars PROVE Ended'
<1>1. batch \subseteq futures
  BY DEF Typed, BatchTyped
<1>2. CASE Start
  BY <1>2, CegarAssumption DEF Start, Ended, pool
<1>3. CASE CheckNext
  BY <1>3 DEF CheckNext, Ended, pool
<1>4. CASE SequentialEnds \/ ParallelEnds \/ PoolStops \/ AllClosed
  BY <1>4 DEF SequentialEnds, ParallelEnds, PoolStops, AllClosed, Ended, pool
<1>5. CASE Submit \/ Wait
  BY <1>5 DEF Submit, Wait, Ended
<1>6. CASE Conclude
  BY <1>6 DEF Conclude, Ended
<1>7. ASSUME NEW f \in batch, TakeBack(f) PROVE Ended'
  BY <1>7 DEF TakeBack, Ended
<1>8. ASSUME NEW w \in Workers, CloseClient(w) PROVE Ended'
  BY <1>8 DEF CloseClient, Ended
<1>9. ASSUME NEW w \in Workers, PickUp(w) \/ NoClient(w) \/ Check(w) PROVE Ended'
  <2>1. futures # {} /\ UNCHANGED <<status, error, pending>>
    BY <1>9 DEF PickUp, NoClient, Check
  <2> QED BY <2>1 DEF Ended
<1>10. CASE UNCHANGED vars
  BY <1>10 DEF vars, pool, Ended
<1> QED BY <1>2, <1>3, <1>4, <1>5, <1>6, <1>7, <1>8, <1>9, <1>10, NextCases

LEMMA ProvenStep ==
    ASSUME Typed, Covered, Placed, Checked, Ended, Proven, asked' = asked, [Next]_vars PROVE Proven'
<1>1. HoldsOn(RootSubdomain)' <=> HoldsOn(RootSubdomain)
  BY DEF HoldsOn, Direction, RootSubdomain
<1>2. CASE UNCHANGED verdict
  BY <1>1, <1>2 DEF Proven
<1>3. CASE Conclude
  <2> SUFFICES ASSUME verdict' = "verified" PROVE HoldsOn(RootSubdomain)
    BY <1>1 DEF Proven
  <2>1. ~error /\ status = "finishing" /\ \A r \in LeafResults : r.verified
    BY <1>3 DEF Conclude
  <2>2. pending = <<>> /\ futures = {}
    BY <2>1 DEF Ended
  <2>3. Waiting = {} /\ Given = {}
    BY <2>2 DEF Waiting, Given
  <2>4. ASSUME NEW c \in Cells(Root) PROVE c \notin Wrong[Direction]
    <3>1. PICK s \in Leaves : c \in Cells(s.box)
      BY DEF Covered
    <3>2. PICK r \in results : r.sub = s
      BY <2>1, <2>3 DEF Placed, Taken
    <3>3. r.verified
      BY <2>1, <3>1, <3>2 DEF LeafResults
    <3>4. HoldsOn(s)
      BY <3>2, <3>3 DEF Checked
    <3> QED BY <3>1, <3>4 DEF HoldsOn
  <2> QED BY <2>4 DEF HoldsOn, RootSubdomain
<1>4. CASE Start
  BY <1>1, <1>4 DEF Start, Proven
<1>5. CASE \/ CheckNext \/ SequentialEnds \/ Submit \/ Wait \/ ParallelEnds \/ PoolStops
           \/ AllClosed \/ UNCHANGED vars
  BY <1>2, <1>5 DEF CheckNext, SequentialEnds, Submit, Wait, ParallelEnds, PoolStops, AllClosed, vars
<1>6. CASE \E w \in Workers : CloseClient(w) \/ PickUp(w) \/ NoClient(w) \/ Check(w)
  BY <1>2, <1>6 DEF CloseClient, PickUp, NoClient, Check
<1>7. CASE \E f \in batch : TakeBack(f)
  BY <1>2, <1>7 DEF TakeBack
<1> QED BY <1>3, <1>4, <1>5, <1>6, <1>7, NextCases

-----------------------------------------------------------------------------
LEMMA SoundInit ==
    ASSUME Init PROVE SoundInv
<1>1. Leaves = {RootSubdomain}
  BY DEF Init, Leaves, RootSubdomain
<1>2. IdsUnique
  BY DEF Init, IdsUnique, RootSubdomain
<1>3. Covered
  BY <1>1 DEF Covered, RootSubdomain
<1>4. Waiting = {RootSubdomain} /\ Given = {} /\ Taken = {}
  <2>1. pending = <<RootSubdomain>>
    BY DEF Init
  <2>2. DOMAIN pending = {1} /\ pending[1] = RootSubdomain
    BY <2>1
  <2> QED BY <2>2 DEF Init, Waiting, Given, Taken
<1>5. InTree /\ Placed
  BY <1>1, <1>4 DEF Init, InTree, Placed
<1>6. asked \in Requests /\ Checked /\ Ended /\ Proven
  BY DEF Init, Checked, Ended, Proven
<1> QED BY <1>2, <1>3, <1>5, <1>6 DEF SoundInv

LEMMA SoundStep ==
    ASSUME Typed, SoundInv, [Next]_vars PROVE SoundInv'
<1>1. TreeInv' /\ InTree' /\ Placed'
  BY TreeStep, PlacesStep DEF SoundInv, TreeInv
<1>2. Checked' /\ asked' = asked /\ Ended'
  BY CheckedStep, EndedStep DEF SoundInv
<1>3. Proven'
  BY <1>2, ProvenStep DEF SoundInv
<1>4. (asked \in Requests)'
  BY <1>2 DEF SoundInv
<1> QED BY <1>1, <1>2, <1>3, <1>4 DEF SoundInv, TreeInv

(* A bound that CEGARVerifier reports verified holds on every cell of the    *)
(* domain, for one bound: no interleaving of threads, no order in which      *)
(* results come back, no exception and no limit loses a part of the domain.  *)
THEOREM SoundForOneBound == ASSUME OneBoundOnly PROVE Spec => []Sound
<1>1. Init => SoundInv
  BY SoundInit
<1>2. Typed /\ SoundInv /\ [Next]_vars => SoundInv'
  BY SoundStep
<1>3. SoundInv => Sound
  <2> SUFFICES ASSUME SoundInv, verdict = "verified", NEW d \in asked
               PROVE  Cells(Root) \cap Wrong[d] = {}
    BY DEF Sound
  <2>1. asked \in Requests /\ asked \subseteq {"upper", "lower"}
    BY CegarAssumption DEF SoundInv, Directions
  <2>2. d = Direction
    BY <2>1 DEF OneBoundOnly, Direction
  <2>3. HoldsOn(RootSubdomain)
    BY DEF SoundInv, Proven
  <2> QED BY <2>2, <2>3 DEF HoldsOn, RootSubdomain
<1> QED BY <1>1, <1>2, <1>3, AlwaysTyped, PTL DEF Spec

-----------------------------------------------------------------------------
(* No subdomain is counted twice                                            *)

NoRepeats(q) == \A i, j \in DOMAIN q : q[i] = q[j] => i = j

FuturesOnce == \A f, g \in futures : f.sub = g.sub => f = g
ResultsOnce == \A q, r \in results : q.sub = r.sub => q = r

Apart == Waiting \cap Given = {} /\ Waiting \cap Taken = {} /\ Given \cap Taken = {}

Once ==
    /\ NoRepeats(pending) /\ FuturesOnce /\ ResultsOnce /\ Apart
    /\ Waiting \cup Given \cup Taken \subseteq Leaves

(* Boxes lie in the domain, on its grid, and those of leaves do not overlap. *)
Boxes ==
    /\ \A s \in subdomains : Gridded(s.box) /\ Cells(s.box) \subseteq Cells(Root)
    /\ \A s, t \in Leaves : s # t => Cells(s.box) \cap Cells(t.box) = {}

Counted == verdict \in {"verified", "unverified"} => Leaves \subseteq Taken

PartitionInv == Once /\ Boxes /\ Counted

LEMMA WaitingIsRange == Waiting = RangeOf(pending)
  BY DEF Waiting, RangeOf

LEMMA NoRepeatsTail ==
    ASSUME NEW S, NEW q \in Seq(S), q # <<>>, NoRepeats(q)
    PROVE  NoRepeats(Tail(q)) /\ Head(q) \notin RangeOf(Tail(q))
<1>1. Head(q) = q[1] /\ 1 \in DOMAIN q
  OBVIOUS
<1>2. \A i \in DOMAIN Tail(q) : i \in Nat /\ i >= 1 /\ i + 1 \in DOMAIN q /\ Tail(q)[i] = q[i + 1]
  OBVIOUS
<1> DEFINE t == Tail(q)
<1> HIDE DEF t
<1>3. ASSUME NEW i \in DOMAIN t, NEW j \in DOMAIN t, t[i] = t[j] PROVE i = j
  <2>1. i \in Nat /\ j \in Nat /\ q[i + 1] = q[j + 1] /\ i + 1 \in DOMAIN q /\ j + 1 \in DOMAIN q
    BY <1>2, <1>3 DEF t
  <2>2. i + 1 = j + 1
    BY <2>1 DEF NoRepeats
  <2> QED BY <2>1, <2>2
<1>4. ASSUME NEW i \in DOMAIN t, t[i] = Head(q) PROVE FALSE
  <2>1. i \in Nat /\ i >= 1 /\ q[i + 1] = q[1] /\ i + 1 \in DOMAIN q
    BY <1>1, <1>2, <1>4 DEF t
  <2>2. i + 1 = 1
    BY <1>1, <2>1 DEF NoRepeats
  <2> QED BY <2>1, <2>2
<1> QED BY <1>3, <1>4 DEF NoRepeats, RangeOf, t

LEMMA NoRepeatsAppendTwo ==
    ASSUME NEW S, NEW q \in Seq(S), NEW a \in S, NEW b \in S, NoRepeats(q),
           a # b, a \notin RangeOf(q), b \notin RangeOf(q)
    PROVE  NoRepeats(q \o <<a, b>>)
<1>2. DOMAIN (q \o <<a, b>>) = 1 .. (Len(q) + 2) /\ DOMAIN q = 1 .. Len(q) /\ Len(q) \in Nat
  OBVIOUS
<1>3. \A i \in 1 .. Len(q) : (q \o <<a, b>>)[i] = q[i]
  OBVIOUS
<1>4. (q \o <<a, b>>)[Len(q) + 1] = a /\ (q \o <<a, b>>)[Len(q) + 2] = b
  OBVIOUS
<1>5. \A i \in 1 .. Len(q) : q[i] # a /\ q[i] # b
  BY <1>2 DEF RangeOf
<1> DEFINE z == q \o <<a, b>>
<1> HIDE DEF z
<1>6. ASSUME NEW i \in DOMAIN z, NEW j \in DOMAIN z, z[i] = z[j] PROVE i = j
  <2>1. i \in 1 .. Len(q) \/ i = Len(q) + 1 \/ i = Len(q) + 2
    BY <1>2 DEF z
  <2>2. j \in 1 .. Len(q) \/ j = Len(q) + 1 \/ j = Len(q) + 2
    BY <1>2 DEF z
  <2>3. CASE i \in 1 .. Len(q) /\ j \in 1 .. Len(q)
    BY <1>2, <1>3, <1>6, <2>3 DEF NoRepeats, z
  <2>4. CASE i \in 1 .. Len(q) /\ j \notin 1 .. Len(q)
    BY <1>3, <1>4, <1>5, <1>6, <2>2, <2>4 DEF z
  <2>5. CASE i \notin 1 .. Len(q) /\ j \in 1 .. Len(q)
    BY <1>3, <1>4, <1>5, <1>6, <2>1, <2>5 DEF z
  <2>6. CASE i \notin 1 .. Len(q) /\ j \notin 1 .. Len(q)
    BY <1>4, <1>6, <2>1, <2>2, <2>6 DEF z
  <2> QED BY <2>3, <2>4, <2>5, <2>6
<1> QED BY <1>6 DEF NoRepeats, z

LEMMA BoxesAfterSplit ==
    ASSUME Typed, IdsUnique, Boxes, NEW s \in Leaves, NEW l, NEW r, NEW rest, SplitInto(s, l, r, rest)
    PROVE  /\ Boxes' /\ Leaves' = (Leaves \ {s}) \cup {l, r}
           /\ l # r /\ l \notin subdomains /\ r \notin subdomains
<1>1. s \in subdomains /\ Leaves \subseteq subdomains
  BY DEF Leaves
<1>2. Leaves' = (Leaves \ {s}) \cup {l, r}
  BY <1>1, LeavesAfterSplit DEF Typed
<1>3. /\ l.id = lastId + 1 /\ r.id = lastId + 2 /\ lastId \in Nat
      /\ \A t \in subdomains : t.id \in Nat /\ t.id <= lastId
  BY DEF SplitInto, IdsUnique, Typed, TreeTyped, Subdomain
<1>4. l # r /\ l \notin subdomains /\ r \notin subdomains
  BY <1>3
<1>5. /\ Cells(l.box) \cup Cells(r.box) = Cells(s.box) /\ Cells(l.box) \cap Cells(r.box) = {}
      /\ Gridded(l.box) /\ Gridded(r.box) /\ subdomains' = subdomains \cup {l, r}
  BY <1>1 DEF SplitInto, Boxes
<1>6. \A t \in subdomains' : Gridded(t.box) /\ Cells(t.box) \subseteq Cells(Root)
  BY <1>1, <1>5 DEF Boxes
<1>7. ASSUME NEW t \in Leaves', NEW u \in Leaves', t # u PROVE Cells(t.box) \cap Cells(u.box) = {}
  <2>1. \A v \in Leaves \ {s} : Cells(v.box) \cap Cells(s.box) = {}
    BY DEF Boxes
  <2>2. CASE t \in Leaves \ {s} /\ u \in Leaves \ {s}
    BY <1>7, <2>2 DEF Boxes
  <2>3. CASE t \in Leaves \ {s} /\ u \in {l, r}
    BY <1>5, <2>1, <2>3
  <2>4. CASE t \in {l, r} /\ u \in Leaves \ {s}
    BY <1>5, <2>1, <2>4
  <2>5. CASE t \in {l, r} /\ u \in {l, r}
    BY <1>5, <1>7, <2>5
  <2> QED BY <1>2, <2>2, <2>3, <2>4, <2>5
<1> QED BY <1>2, <1>4, <1>6, <1>7 DEF Boxes

(* One turn of a loop, for a subdomain that is neither in the rest of the    *)
(* queue nor in others, the futures.                                        *)
LEMMA HandleOnce ==
    ASSUME Typed, IdsUnique, Boxes, ResultsOnce, NEW s \in Leaves, NEW out,
           NEW rest \in Seq(Subdomain), NEW others, NoRepeats(rest), Handle(s, out, rest),
           RangeOf(rest) \cup others \cup Taken \subseteq Leaves \ {s},
           RangeOf(rest) \cap others = {}, RangeOf(rest) \cap Taken = {}, others \cap Taken = {}
    PROVE  /\ NoRepeats(pending)' /\ ResultsOnce' /\ Boxes'
           /\ Waiting' \cup others \cup Taken' \subseteq Leaves'
           /\ Waiting' \cap others = {} /\ Waiting' \cap Taken' = {} /\ others \cap Taken' = {}
<1>1. Waiting' = RangeOf(pending')
  BY DEF Waiting, RangeOf
<1>2. CASE Split(s, out, rest)
  <2>1. s \in Subdomain /\ Leaves \subseteq subdomains
    BY DEF Typed, TreeTyped, Leaves
  <2>2. PICK l, r : SplitInto(s, l, r, rest)
    BY <1>2, <2>1, SplitCuts DEF Typed
  <2>3. /\ Boxes' /\ Leaves' = (Leaves \ {s}) \cup {l, r}
        /\ l # r /\ l \notin subdomains /\ r \notin subdomains
    BY <2>2, BoxesAfterSplit
  <2>4. pending' = rest \o <<l, r>> /\ l \in Subdomain /\ r \in Subdomain /\ results' = results
    BY <2>2 DEF SplitInto
  <2>5. l \notin RangeOf(rest) /\ r \notin RangeOf(rest)
    BY <2>1, <2>3
  <2>6. RangeOf(pending') = RangeOf(rest) \cup {l, r} /\ NoRepeats(pending')
    BY <2>3, <2>4, <2>5, RangeOfAppendTwo, NoRepeatsAppendTwo
  <2>7. Taken' = Taken /\ ResultsOnce'
    BY <2>4 DEF Taken, ResultsOnce
  <2> QED BY <1>1, <2>1, <2>3, <2>6, <2>7
<1>3. CASE Keep(s, out, rest) \/ AnalysisRaises(s, out, rest)
  <2>1. PICK v : results' = results \cup {[sub |-> s, verified |-> v]}
    BY <1>3 DEF Keep, AnalysisRaises
  <2> DEFINE n == [sub |-> s, verified |-> v]
  <2>2. n.sub = s /\ results' = results \cup {n}
    BY <2>1
  <2> HIDE DEF n
  <2>3. Taken' = Taken \cup {s} /\ s \notin Taken
    BY <2>2 DEF Taken
  <2>4. ResultsOnce'
    BY <2>2, <2>3 DEF ResultsOnce, Taken
  <2>5. pending' = rest /\ subdomains' = subdomains
    BY <1>3 DEF Keep, AnalysisRaises, tree
  <2>6. Leaves' = Leaves /\ Boxes'
    BY <2>5 DEF Leaves, Boxes
  <2> QED BY <1>1, <2>3, <2>4, <2>5, <2>6
<1> QED BY <1>2, <1>3 DEF Handle

(* The futures, as GivenStep but with their number in mind. *)
LEMMA FuturesStep ==
    ASSUME Typed, Once, [Next]_vars
    PROVE  /\ FuturesOnce'
           /\ \A f \in batch : TakeBack(f) => Given' = Given \ {f.sub}
<1>1. ASSUME futures' \subseteq futures PROVE FuturesOnce'
  BY <1>1 DEF Once, FuturesOnce
<1>2. ASSUME Submit PROVE FuturesOnce'
  <2> DEFINE n == [sub |-> Head(pending), by |-> NoWorker, out |-> "none"]
  <2>1. futures' = futures \cup {n} /\ n.sub = Head(pending)
    BY <1>2 DEF Submit
  <2> HIDE DEF n
  <2>2. Head(pending) \in Waiting
    BY <1>2, RangeOfTail, WaitingIsRange DEF Submit, Typed, QueueTyped
  <2>3. n.sub \notin Given
    BY <2>1, <2>2 DEF Once, Apart
  <2>4. \A f \in futures : f.sub # n.sub
    BY <2>3 DEF Given
  <2>5. \A f, g \in futures : f.sub = g.sub => f = g
    BY DEF Once, FuturesOnce
  <2>6. ASSUME NEW f \in futures', NEW g \in futures', f.sub = g.sub PROVE f = g
    BY <2>1, <2>4, <2>5, <2>6
  <2> QED BY <2>6 DEF FuturesOnce
<1>3. ASSUME NEW f \in batch, TakeBack(f) PROVE Given' = Given \ {f.sub}
  <2>1. futures' = futures \ {f} /\ f \in futures
    BY <1>3 DEF TakeBack, Typed, BatchTyped
  <2>2. \A g \in futures : g.sub = f.sub => g = f
    BY <2>1 DEF Once, FuturesOnce
  <2> DEFINE S == {g.sub : g \in futures \ {f}}
  <2>3. Given' = S
    BY <2>1 DEF Given
  <2>4. \A t \in S : t \in Given /\ t # f.sub
    BY <2>2 DEF Given
  <2>5. \A t \in Given : t # f.sub => t \in S
    BY DEF Given
  <2> HIDE DEF S
  <2> QED BY <2>3, <2>4, <2>5
<1>4. ASSUME NEW w \in Workers, NEW out \in Outcomes \cup {"none"}, NEW f \in futures,
             futures' = (futures \ {f}) \cup {[sub |-> f.sub, by |-> w, out |-> out]}
      PROVE  FuturesOnce'
  <2> DEFINE n == [sub |-> f.sub, by |-> w, out |-> out]
  <2>1. n.sub = f.sub /\ futures' = (futures \ {f}) \cup {n}
    BY <1>4
  <2> HIDE DEF n
  <2> QED BY <2>1 DEF Once, FuturesOnce
<1>5. ASSUME NEW f \in batch, futures' = futures \ {f} PROVE FuturesOnce'
  BY <1>1, <1>5
<1>6. ASSUME UNCHANGED futures PROVE FuturesOnce'
  BY <1>1, <1>6
<1>7. FuturesOnce'
  <2>1. CASE UNCHANGED futures \/ Submit
    BY <1>2, <1>6, <2>1
  <2>2. CASE \E f \in batch : futures' = futures \ {f}
    BY <1>5, <2>2
  <2>3. CASE \E w \in Workers, out \in Outcomes \cup {"none"}, f \in futures :
               futures' = (futures \ {f}) \cup {[sub |-> f.sub, by |-> w, out |-> out]}
    <3>1. PICK w \in Workers, out \in Outcomes \cup {"none"}, f \in futures :
               futures' = (futures \ {f}) \cup {[sub |-> f.sub, by |-> w, out |-> out]}
      BY <2>3
    <3> QED BY <1>4, <3>1
  <2>4. \/ UNCHANGED futures \/ Submit
        \/ \E f \in batch : futures' = futures \ {f}
        \/ \E w \in Workers, out \in Outcomes \cup {"none"}, f \in futures :
               futures' = (futures \ {f}) \cup {[sub |-> f.sub, by |-> w, out |-> out]}
    BY PoolSteps
  <2> QED BY <2>1, <2>2, <2>3, <2>4
<1> QED BY <1>3, <1>7

LEMMA OnceStep ==
    ASSUME Typed, IdsUnique, Once, Boxes, [Next]_vars PROVE Once' /\ Boxes'
<1>0. FuturesOnce' /\ pending \in Seq(Subdomain)
  BY FuturesStep DEF Typed, QueueTyped
<1>1. CASE CheckNext
  <2> DEFINE s    == Head(pending)
             rest == Tail(pending)
  <2>1. /\ s \in Subdomain /\ rest \in Seq(Subdomain) /\ Waiting = RangeOf(rest) \cup {s}
        /\ NoRepeats(rest) /\ s \notin RangeOf(rest)
    BY <1>0, <1>1, RangeOfTail, NoRepeatsTail, WaitingIsRange DEF CheckNext, Once
  <2>2. Given' = Given
    BY <1>1 DEF CheckNext, pool, Given
  <2>3. CASE pending' = rest /\ UNCHANGED <<tree, results>>
    <3>1. Waiting' = RangeOf(rest) /\ Taken' = Taken /\ Leaves' = Leaves /\ ResultsOnce' /\ Boxes'
      BY <2>3 DEF Waiting, RangeOf, Taken, Leaves, tree, Boxes, ResultsOnce, Once
    <3>2. NoRepeats(pending)'
      BY <2>1, <2>3 DEF NoRepeats
    <3> HIDE DEF s, rest
    <3> QED BY <1>0, <2>1, <2>2, <3>1, <3>2 DEF Once, Apart
  <2>4. ASSUME NEW out, Handle(s, out, rest) PROVE Once' /\ Boxes'
    <3> HIDE DEF s, rest
    <3>1. /\ s \in Leaves /\ RangeOf(rest) \cup Given \cup Taken \subseteq Leaves \ {s}
          /\ RangeOf(rest) \cap Given = {} /\ RangeOf(rest) \cap Taken = {} /\ Given \cap Taken = {}
      BY <2>1 DEF Once, Apart
    <3>2. /\ NoRepeats(pending)' /\ ResultsOnce' /\ Boxes'
          /\ Waiting' \cup Given \cup Taken' \subseteq Leaves'
          /\ Waiting' \cap Given = {} /\ Waiting' \cap Taken' = {} /\ Given \cap Taken' = {}
      BY <2>1, <2>4, <3>1, HandleOnce DEF Once
    <3> QED BY <1>0, <2>2, <3>2 DEF Once, Apart
  <2> QED BY <1>1, <2>3, <2>4, CheckNextCases
<1>2. ASSUME NEW f \in batch, TakeBack(f) PROVE Once' /\ Boxes'
  <2>1. f \in futures /\ f.sub \in Given /\ Handle(f.sub, TakenAs(f), pending) /\ Given' = Given \ {f.sub}
    BY <1>2, TakeBackCases, FuturesStep DEF Typed, BatchTyped, Given
  <2>2. /\ f.sub \in Leaves /\ RangeOf(pending) \cup Given' \cup Taken \subseteq Leaves \ {f.sub}
        /\ RangeOf(pending) \cap Given' = {} /\ RangeOf(pending) \cap Taken = {} /\ Given' \cap Taken = {}
    BY <2>1, WaitingIsRange DEF Once, Apart
  <2>3. /\ NoRepeats(pending)' /\ ResultsOnce' /\ Boxes'
        /\ Waiting' \cup Given' \cup Taken' \subseteq Leaves'
        /\ Waiting' \cap Given' = {} /\ Waiting' \cap Taken' = {} /\ Given' \cap Taken' = {}
    BY <1>0, <2>1, <2>2, HandleOnce DEF Once
  <2> QED BY <1>0, <2>3 DEF Once, Apart
<1>3. CASE Submit
  <2>1. /\ Waiting = RangeOf(Tail(pending)) \cup {Head(pending)}
        /\ NoRepeats(Tail(pending)) /\ Head(pending) \notin RangeOf(Tail(pending))
    BY <1>0, <1>3, RangeOfTail, NoRepeatsTail, WaitingIsRange DEF Submit, Once
  <2>2. /\ pending' = Tail(pending) /\ Taken' = Taken /\ Leaves' = Leaves /\ ResultsOnce' /\ Boxes'
    BY <1>3 DEF Submit, Taken, Leaves, tree, Boxes, ResultsOnce, Once
  <2>3. Waiting' = RangeOf(Tail(pending)) /\ NoRepeats(pending)'
    BY <2>1, <2>2 DEF Waiting, RangeOf, NoRepeats
  <2>4. Given' = Given \cup {Head(pending)}
    BY <1>3, GivenStep
  <2> DEFINE s == Head(pending)
             R == RangeOf(Tail(pending))
  <2>5. Waiting = R \cup {s} /\ s \notin R /\ Waiting' = R /\ Given' = Given \cup {s}
    BY <2>1, <2>3, <2>4
  <2> HIDE DEF s, R
  <2> QED BY <1>0, <2>2, <2>3, <2>5 DEF Once, Apart
<1>4. CASE Quiet /\ Given' = Given
  <2>1. /\ Waiting' = Waiting /\ Taken' = Taken /\ Leaves' = Leaves /\ ResultsOnce' /\ Boxes'
        /\ NoRepeats(pending)'
    BY <1>4 DEF Quiet, Waiting, Taken, Leaves, ResultsOnce, Boxes, Once, NoRepeats
  <2> QED BY <1>0, <1>4, <2>1 DEF Once, Apart
<1> QED BY <1>1, <1>2, <1>3, <1>4, LoopCases, GivenStep
LEMMA CountedStep ==
    ASSUME Typed, PoolInv, Placed, Ended, Counted, [Next]_vars PROVE Counted'
<1>1. CASE verdict \in {"verified", "unverified"}
  <2>1. status = "done"
    BY <1>1 DEF PoolInv
  <2>2. Leaves \subseteq Taken
    BY <1>1 DEF Counted
  <2>3. CASE Quiet
    <3>1. Leaves' = Leaves /\ Taken' = Taken
      BY <2>3 DEF Quiet, Leaves, Taken
    <3> QED BY <2>2, <3>1 DEF Counted
  <2>4. ~CheckNext /\ ~Submit /\ \A f \in batch : ~TakeBack(f)
    BY <2>1 DEF CheckNext, Submit, TakeBack
  <2> QED BY <2>3, <2>4, LoopCases
<1>2. CASE verdict \notin {"verified", "unverified"} /\ verdict' = verdict
  BY <1>2 DEF Counted
<1>3. CASE Conclude
  <2>1. verdict' # "raised" => status = "finishing" /\ ~error
    BY <1>3 DEF Conclude
  <2>2. ASSUME status = "finishing", ~error PROVE Leaves \subseteq Taken
    <3>1. pending = <<>> /\ futures = {}
      BY <2>2 DEF Ended
    <3>2. Waiting = {} /\ Given = {}
      BY <3>1 DEF Waiting, Given
    <3> QED BY <2>2, <3>2 DEF Placed
  <2>3. Leaves' = Leaves /\ Taken' = Taken
    BY <1>3 DEF Conclude, Leaves, Taken, tree
  <2> QED BY <2>1, <2>2, <2>3 DEF Counted
<1>4. CASE Start
  BY <1>2, <1>4, <1>1 DEF Start, Counted
<1>5. CASE \/ CheckNext \/ SequentialEnds \/ Submit \/ Wait \/ ParallelEnds \/ PoolStops
           \/ AllClosed \/ UNCHANGED vars
  BY <1>1, <1>2, <1>5 DEF CheckNext, SequentialEnds, Submit, Wait, ParallelEnds, PoolStops, AllClosed, vars
<1>6. CASE \E w \in Workers : CloseClient(w) \/ PickUp(w) \/ NoClient(w) \/ Check(w)
  BY <1>1, <1>2, <1>6 DEF CloseClient, PickUp, NoClient, Check
<1>7. CASE \E f \in batch : TakeBack(f)
  BY <1>1, <1>2, <1>7 DEF TakeBack
<1> QED BY <1>3, <1>4, <1>5, <1>6, <1>7, NextCases

LEMMA PartitionInit == ASSUME Init PROVE PartitionInv
<1>1. Leaves = {RootSubdomain} /\ subdomains = {RootSubdomain} /\ RootSubdomain.box = Root
  BY DEF Init, Leaves, RootSubdomain
<1>2. pending = <<RootSubdomain>> /\ futures = {} /\ results = {} /\ verdict = "open"
  BY DEF Init
<1>3. DOMAIN pending = {1} /\ pending[1] = RootSubdomain
  BY <1>2
<1>4. Waiting = {RootSubdomain} /\ Given = {} /\ Taken = {} /\ NoRepeats(pending)
  BY <1>2, <1>3 DEF Waiting, Given, Taken, NoRepeats
<1>5. Once
  BY <1>1, <1>2, <1>4 DEF Once, FuturesOnce, ResultsOnce, Apart
<1>6. Gridded(Root)
  BY CegarAssumption DEF Gridded
<1>7. Boxes
  BY <1>1, <1>6 DEF Boxes
<1> QED BY <1>2, <1>5, <1>7 DEF PartitionInv, Counted

(* All that was proved about the verifier, together. *)
CegarInv == Typed /\ PoolInv /\ LimitsInv /\ SoundInv /\ PartitionInv

LEMMA AlwaysCegar == Spec => []CegarInv
<1>1. Init => CegarInv
  BY TypedInit, PoolInvInit, LimitsInit, SoundInit, PartitionInit DEF CegarInv
<1>2. CegarInv /\ [Next]_vars => CegarInv'
  <2> SUFFICES ASSUME CegarInv, [Next]_vars PROVE CegarInv'
    OBVIOUS
  <2>1. Typed' /\ PoolInv' /\ LimitsInv' /\ SoundInv'
    BY TypedStep, PoolInvStep, LimitsStep, SoundStep DEF CegarInv
  <2>2. PartitionInv'
    BY OnceStep, CountedStep DEF CegarInv, SoundInv, PartitionInv
  <2> QED BY <2>1, <2>2 DEF CegarInv
<1> QED BY <1>1, <1>2, PTL DEF Spec

-----------------------------------------------------------------------------
(* What is counted *)

LEMMA LengthIsNumber ==
    ASSUME NEW S, NEW q \in Seq(S), NoRepeats(q)
    PROVE  Len(q) = Cardinality(RangeOf(q))
<1> DEFINE T == RangeOf(q)
<1>1. Len(q) \in Nat /\ DOMAIN q = 1 .. Len(q) /\ q \in [1 .. Len(q) -> S]
  OBVIOUS
<1>2. q \in Bijection(1 .. Len(q), T)
  <2>1. q \in [1 .. Len(q) -> T]
    BY <1>1 DEF RangeOf
  <2>2. \A a, b \in 1 .. Len(q) : q[a] = q[b] => a = b
    BY <1>1 DEF NoRepeats
  <2>3. \A t \in T : \E s \in 1 .. Len(q) : q[s] = t
    BY <1>1 DEF RangeOf
  <2> HIDE DEF T
  <2> QED BY <2>1, <2>2, <2>3 DEF Bijection, Injection, IsInjective, Surjection
<1>3. IsFiniteSet(1 .. Len(q)) /\ Cardinality(1 .. Len(q)) = Len(q)
  BY <1>1, FS_Interval
<1>4. ExistsBijection(1 .. Len(q), T)
  BY <1>2 DEF ExistsBijection
<1> HIDE DEF T
<1>5. Cardinality(T) = Cardinality(1 .. Len(q))
  BY <1>3, <1>4, FS_Bijection
<1> QED BY <1>3, <1>5 DEF T

(* Records that differ in the field sub are as many as their fields. *)
LEMMA AsManySubdomains ==
    ASSUME NEW S, IsFiniteSet(S), \A x, y \in S : x.sub = y.sub => x = y
    PROVE  Cardinality(S) = Cardinality({x.sub : x \in S})
<1> DEFINE T == {x.sub : x \in S}
           h == [x \in S |-> x.sub]
<1>1. h \in [S -> T] /\ \A x \in S : h[x] = x.sub
  OBVIOUS
<1>2. \A t \in T : \E x \in S : t = x.sub
  OBVIOUS
<1> HIDE DEF h, T
<1>3. h \in Bijection(S, T)
  BY <1>1, <1>2 DEF Bijection, Injection, IsInjective, Surjection
<1>4. ExistsBijection(S, T)
  BY <1>3 DEF ExistsBijection
<1>5. Cardinality(T) = Cardinality(S)
  BY <1>4, FS_Bijection
<1> QED BY <1>5 DEF T

(* A subdomain is checked once: it waits, or is with the executor, or has    *)
(* its one result, or was split, and never two of these.                     *)
THEOREM CheckedOnceAlways == Spec => []CheckedOnce
<1>1. CegarInv => CheckedOnce
  <2> SUFFICES ASSUME CegarInv PROVE CheckedOnce
    OBVIOUS
  <2>1. Once /\ IsFiniteSet(futures) /\ IsFiniteSet(results) /\ pending \in Seq(Subdomain)
    BY DEF CegarInv, PartitionInv, LimitsInv, Typed, QueueTyped
  <2>2. Len(pending) = Cardinality(Waiting)
    BY <2>1, LengthIsNumber, WaitingIsRange DEF Once
  <2>3. Cardinality(futures) = Cardinality(Given)
    BY <2>1, AsManySubdomains DEF Once, FuturesOnce, Given
  <2>4. Cardinality(results) = Cardinality(Taken)
    BY <2>1, AsManySubdomains DEF Once, ResultsOnce, Taken
  <2> QED BY <2>1, <2>2, <2>3, <2>4 DEF Once, Apart, CheckedOnce
<1> QED BY <1>1, AlwaysCegar, PTL

(* The boxes of the results that count are the whole domain and do not       *)
(* overlap: verified_volume and unverified_volume add up to its volume.      *)
THEOREM VolumesAddUpAlways == Spec => []VolumesAddUp
<1>1. CegarInv => VolumesAddUp
  <2> SUFFICES ASSUME CegarInv, verdict \in {"verified", "unverified"}
               PROVE  /\ UNION {Cells(r.sub.box) : r \in LeafResults} = Cells(Root)
                      /\ \A q, r \in LeafResults : q # r => Cells(q.sub.box) \cap Cells(r.sub.box) = {}
    BY DEF VolumesAddUp, Volume
  <2>1. Leaves \subseteq Taken /\ Once /\ Boxes /\ Covered
    BY DEF CegarInv, PartitionInv, Counted, SoundInv
  <2>2. ASSUME NEW c \in Cells(Root) PROVE \E r \in LeafResults : c \in Cells(r.sub.box)
    <3>1. PICK s \in Leaves : c \in Cells(s.box)
      BY <2>1 DEF Covered
    <3>2. PICK r \in results : r.sub = s
      BY <2>1, <3>1 DEF Taken
    <3> QED BY <3>1, <3>2 DEF LeafResults
  <2>3. ASSUME NEW r \in LeafResults PROVE Cells(r.sub.box) \subseteq Cells(Root)
    BY <2>1 DEF LeafResults, Leaves, Boxes
  <2>4. ASSUME NEW q \in LeafResults, NEW r \in LeafResults, q # r
        PROVE  Cells(q.sub.box) \cap Cells(r.sub.box) = {}
    <3>1. q.sub # r.sub
      BY <2>1, <2>4 DEF Once, ResultsOnce, LeafResults
    <3> QED BY <2>1, <3>1 DEF LeafResults, Boxes
  <2> QED BY <2>2, <2>3, <2>4
<1> QED BY <1>1, AlwaysCegar, PTL

(* No subdomain is lost or counted twice, on its way or in the result.       *)
THEOREM CountedOnceAlways == Spec => []CountedOnce
<1>1. CheckedOnce /\ VolumesAddUp => CountedOnce
  BY DEF CountedOnce
<1> QED BY <1>1, CheckedOnceAlways, VolumesAddUpAlways, PTL

-----------------------------------------------------------------------------
(* The verifier implements DomainCover                                      *)

Pieces  == {Cells(s.box) : s \in Leaves}
Proved  == {Cells(r.sub.box) : r \in {q \in results : q.verified}}
Failing == Cells(Root) \cap Wrong[Direction]

(* The steps of the cover, in terms of the verifier's state. *)
LEMMA CoverProves ==
    ASSUME verdict = "open", verdict' = verdict, NEW p \in Pieces, p \notin Proved, p \cap Failing = {},
           Proved' = Proved \cup {p}, Pieces' = Pieces, Failing' = Failing
    PROVE  Cover!Next
  BY DEF Cover!Next, Cover!Prove, Pieces, Proved, Failing

LEMMA CoverRefines ==
    ASSUME verdict = "open", verdict' = verdict, NEW p \in Pieces, p \notin Proved,
           NEW part \in Pieces', part \subseteq p, part # {}, part # p,
           Pieces' = (Pieces \ {p}) \cup {part, p \ part}, Proved' = Proved, Failing' = Failing
    PROVE  Cover!Next
  BY DEF Cover!Next, Cover!Refine, Pieces, Proved, Failing

LEMMA CoverEnds ==
    ASSUME verdict = "open", Pieces' = Pieces, Proved' = Proved, Failing' = Failing,
           \/ verdict' = "raised"
           \/ verdict' = IF Pieces = Proved THEN "verified" ELSE "unverified"
    PROVE  Cover!Next
  BY DEF Cover!Next, Cover!Conclude, Cover!Abort, Pieces, Proved, Failing

LEMMA CoverStutters ==
    ASSUME Pieces' = Pieces, Proved' = Proved, Failing' = Failing, verdict' = verdict
    PROVE  UNCHANGED Cover!vars
  BY DEF Cover!vars, Pieces, Proved, Failing

(* Two leaves with the same cells are one leaf. *)
LEMMA LeafOfCells ==
    ASSUME Typed, Boxes, NEW s \in Leaves, NEW t \in Leaves, Cells(s.box) = Cells(t.box)
    PROVE  s = t
<1>1. s \in Subdomain /\ Gridded(s.box)
  BY DEF Typed, TreeTyped, Leaves, Boxes
<1>2. Cells(s.box) # {}
  BY <1>1, GriddedCells DEF Subdomain
<1> QED BY <1>2 DEF Boxes

(* A leaf that has no result yet is a piece that is not proved. *)
LEMMA LeafNotProved ==
    ASSUME Typed, Boxes, Taken \subseteq Leaves, NEW s \in Leaves, s \notin Taken
    PROVE  Cells(s.box) \in Pieces /\ Cells(s.box) \notin Proved
<1>1. ASSUME NEW q \in results, Cells(q.sub.box) = Cells(s.box) PROVE FALSE
  BY <1>1, LeafOfCells DEF Taken
<1> QED BY <1>1 DEF Pieces, Proved

(* One turn of a loop proves a piece, refines one, or changes none. *)
LEMMA HandleCovers ==
    ASSUME Typed, IdsUnique, Boxes, Taken \subseteq Leaves, NEW s \in Leaves, s \notin Taken,
           NEW out, NEW rest, Handle(s, out, rest), out = "verified" => HoldsOn(s),
           verdict = "open", verdict' = verdict, asked' = asked
    PROVE  Cover!Next \/ UNCHANGED Cover!vars
<1>1. Failing' = Failing
  BY DEF Failing, Direction
<1>2. Cells(s.box) \in Pieces /\ Cells(s.box) \notin Proved
  BY LeafNotProved
<1>3. CASE Split(s, out, rest)
  <2>1. s \in Subdomain
    BY DEF Typed, TreeTyped, Leaves
  <2>2. PICK l, r : SplitInto(s, l, r, rest)
    BY <1>3, <2>1, SplitCuts DEF Typed
  <2>3. Leaves' = (Leaves \ {s}) \cup {l, r}
    BY <2>2, BoxesAfterSplit
  <2>4. Cells(l.box) # {} /\ Cells(r.box) # {}
    BY <2>2, GriddedCells DEF SplitInto, Subdomain, Boxes, Leaves
  <2>5. /\ Cells(l.box) \cup Cells(r.box) = Cells(s.box) /\ Cells(l.box) \cap Cells(r.box) = {}
        /\ results' = results
    BY <2>2 DEF SplitInto
  <2>6. Proved' = Proved
    BY <2>5 DEF Proved
  <2>7. Cells(l.box) \subseteq Cells(s.box) /\ Cells(l.box) # Cells(s.box)
        /\ Cells(r.box) = Cells(s.box) \ Cells(l.box)
    BY <2>4, <2>5
  <2>8. Pieces' = {Cells(t.box) : t \in (Leaves \ {s}) \cup {l, r}}
    BY <2>3 DEF Pieces
  <2>9. Pieces' = (Pieces \ {Cells(s.box)}) \cup {Cells(l.box), Cells(r.box)}
    <3>1. ASSUME NEW t \in Leaves PROVE Cells(t.box) = Cells(s.box) <=> t = s
      BY LeafOfCells
    <3>2. {Cells(t.box) : t \in Leaves \ {s}} = Pieces \ {Cells(s.box)}
      BY <3>1 DEF Pieces
    <3> QED BY <2>8, <3>2
  <2>10. Cells(l.box) \in Pieces'
    BY <2>9
  <2> QED BY <1>1, <1>2, <2>4, <2>6, <2>7, <2>9, <2>10, CoverRefines
<1>4. CASE Keep(s, out, rest) \/ AnalysisRaises(s, out, rest)
  <2>1. Leaves' = Leaves /\ Pieces' = Pieces
    BY <1>4 DEF Keep, AnalysisRaises, tree, Leaves, Pieces
  <2>2. PICK v : results' = results \cup {[sub |-> s, verified |-> v]} /\ (v => out = "verified") /\ v \in BOOLEAN
    BY <1>4 DEF Keep, AnalysisRaises
  <2> DEFINE n == [sub |-> s, verified |-> v]
  <2>3. n.sub = s /\ n.verified = v /\ results' = results \cup {n}
    BY <2>2
  <2> HIDE DEF n
  <2>4. CASE v
    <3>1. Proved' = Proved \cup {Cells(s.box)}
      BY <2>3, <2>4 DEF Proved
    <3>2. Cells(s.box) \cap Failing = {}
      BY <2>2, <2>4 DEF HoldsOn, Failing
    <3> QED BY <1>1, <1>2, <2>1, <3>1, <3>2, CoverProves
  <2>5. CASE ~v
    <3>1. Proved' = Proved
      BY <2>3, <2>5 DEF Proved
    <3> QED BY <1>1, <2>1, <3>1, CoverStutters
  <2> QED BY <2>2, <2>4, <2>5
<1> QED BY <1>3, <1>4 DEF Handle

(* The report is the cover's: every leaf verified is every piece proved. *)
LEMMA ReportIsCovers ==
    ASSUME Typed, Boxes, Once, Leaves \subseteq Taken
    PROVE  (\A r \in LeafResults : r.verified) <=> Pieces = Proved
<1>1. Taken \subseteq Leaves /\ ResultsOnce
  BY DEF Once
<1>2. \A r \in results : r.sub \in Leaves
  BY <1>1 DEF Taken
<1>3. Proved \subseteq Pieces
  BY <1>2 DEF Pieces, Proved
<1>4. ASSUME \A r \in LeafResults : r.verified PROVE Pieces \subseteq Proved
  <2>1. ASSUME NEW s \in Leaves PROVE Cells(s.box) \in Proved
    <3>1. PICK r \in results : r.sub = s
      BY DEF Taken
    <3> QED BY <1>4, <3>1 DEF LeafResults, Proved
  <2> QED BY <2>1 DEF Pieces
<1>5. ASSUME Pieces = Proved, NEW r \in LeafResults PROVE r.verified
  <2>1. r \in results /\ r.sub \in Leaves
    BY DEF LeafResults
  <2>2. PICK q \in results : q.verified /\ Cells(q.sub.box) = Cells(r.sub.box)
    BY <1>5, <2>1 DEF Pieces, Proved
  <2>3. q.sub = r.sub
    BY <1>2, <2>1, <2>2, LeafOfCells
  <2> QED BY <1>1, <2>1, <2>2, <2>3 DEF ResultsOnce
<1> QED BY <1>3, <1>4, <1>5

LEMMA CoverStep ==
    ASSUME CegarInv, [Next]_vars PROVE Cover!Next \/ UNCHANGED Cover!vars
<1>1. /\ Typed /\ PoolInv /\ IdsUnique /\ Boxes /\ Once /\ Checked /\ InTree /\ Placed /\ Ended
      /\ Taken \subseteq Leaves
  BY DEF CegarInv, SoundInv, PartitionInv, Once
<1>2. asked' = asked
  BY <1>1, CheckedStep
<1>3. Failing' = Failing
  BY <1>2 DEF Failing, Direction
<1>4. status # "done" => verdict = "open"
  BY <1>1 DEF PoolInv
<1>5. ASSUME UNCHANGED <<subdomains, results>> PROVE Pieces' = Pieces /\ Proved' = Proved
  BY <1>5 DEF Pieces, Proved, Leaves
<1>6. ASSUME UNCHANGED <<subdomains, results, verdict>> PROVE UNCHANGED Cover!vars
  BY <1>3, <1>5, <1>6, CoverStutters
<1>7. CASE Start
  <2>1. UNCHANGED <<subdomains, results>> /\ (verdict' = verdict \/ verdict' = "raised") /\ verdict = "open"
    BY <1>4, <1>7 DEF Start, tree
  <2> QED BY <1>3, <1>5, <1>6, <2>1, CoverEnds
<1>8. CASE CheckNext
  <2>1. verdict = "open" /\ verdict' = verdict /\ pending # <<>>
    BY <1>4, <1>8 DEF CheckNext
  <2> DEFINE s == Head(pending)
  <2>2. s \in Waiting
    BY <1>1, <2>1, HeadOfQueue
  <2>3. s \in Leaves /\ s \notin Taken
    BY <1>1, <2>2 DEF Once, Apart
  <2>4. ASSUME NEW out \in CheckOutcomes(s.box), Handle(s, out, Tail(pending))
        PROVE  Cover!Next \/ UNCHANGED Cover!vars
    <3>1. out = "verified" => HoldsOn(s)
      BY <2>4 DEF CheckOutcomes, HoldsOn
    <3> HIDE DEF s
    <3> QED BY <1>1, <1>2, <2>1, <2>3, <2>4, <3>1, HandleCovers
  <2>5. CASE UNCHANGED <<tree, results>>
    BY <1>6, <2>1, <2>5 DEF tree
  <2> QED BY <1>8, <2>4, <2>5, CheckNextCases
<1>9. ASSUME NEW f \in batch, TakeBack(f) PROVE Cover!Next \/ UNCHANGED Cover!vars
  <2>1. verdict = "open" /\ verdict' = verdict
    BY <1>4, <1>9 DEF TakeBack
  <2>2. f \in futures /\ Handle(f.sub, TakenAs(f), pending)
    BY <1>1, <1>9, TakeBackCases DEF Typed, BatchTyped
  <2>3. f.sub \in Leaves /\ f.sub \notin Taken
    BY <1>1, <2>2 DEF Once, Apart, Given
  <2>4. TakenAs(f) = "verified" => HoldsOn(f.sub)
    BY <1>1, <2>2 DEF TakenAs, Checked
  <2> QED BY <1>1, <1>2, <2>1, <2>2, <2>3, <2>4, HandleCovers
<1>10. CASE Conclude
  <2>1. UNCHANGED <<subdomains, results>> /\ status = "finishing" /\ verdict = "open"
    BY <1>4, <1>10 DEF Conclude, tree
  <2>2. Pieces' = Pieces /\ Proved' = Proved
    BY <1>5, <2>1
  <2>3. CASE verdict' = "raised"
    BY <1>3, <2>1, <2>2, <2>3, CoverEnds
  <2>4. CASE ~error /\ verdict' = IF \A r \in LeafResults : r.verified THEN "verified" ELSE "unverified"
    <3>1. Waiting = {} /\ Given = {}
      BY <1>1, <2>1, <2>4 DEF Ended, Waiting, Given
    <3>2. Leaves \subseteq Taken
      BY <1>1, <2>4, <3>1 DEF Placed
    <3>3. (\A r \in LeafResults : r.verified) <=> Pieces = Proved
      BY <1>1, <3>2, ReportIsCovers
    <3>4. verdict' = IF Pieces = Proved THEN "verified" ELSE "unverified"
      BY <2>4, <3>3
    <3> QED BY <1>3, <2>1, <2>2, <3>4, CoverEnds
  <2> QED BY <1>10, <2>3, <2>4 DEF Conclude
<1>11. CASE \/ SequentialEnds \/ Submit \/ Wait \/ ParallelEnds \/ PoolStops \/ AllClosed \/ UNCHANGED vars
  BY <1>6, <1>11 DEF SequentialEnds, Submit, Wait, ParallelEnds, PoolStops, AllClosed, vars, tree
<1>12. CASE \E w \in Workers : CloseClient(w) \/ PickUp(w) \/ NoClient(w) \/ Check(w)
  BY <1>6, <1>12 DEF CloseClient, PickUp, NoClient, Check, tree
<1> QED BY <1>7, <1>8, <1>9, <1>10, <1>11, <1>12, NextCases

LEMMA CoverInit == Init => Cover!Init
<1> SUFFICES ASSUME Init PROVE Cover!Init
  OBVIOUS
<1>1. Leaves = {RootSubdomain} /\ results = {} /\ verdict = "open"
  BY DEF Init, Leaves, RootSubdomain
<1>2. RootSubdomain.box = Root
  BY DEF RootSubdomain
<1> QED BY <1>1, <1>2 DEF Cover!Init

(* The verifier, with its queue, its threads, its limits and its exceptions, *)
(* does nothing but refine a cover of the domain and prove its pieces, and   *)
(* reports what that cover shows.                                            *)
THEOREM ImplementsCover == Spec => CoverSpec
<1>1. Init => Cover!Init
  BY CoverInit
<1>2. CegarInv /\ [Next]_vars => [Cover!Next]_Cover!vars
  BY CoverStep
<1> QED BY <1>1, <1>2, AlwaysCegar, PTL DEF Spec, CoverSpec, Cover!Spec
=============================================================================
