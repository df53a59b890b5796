--------------------------- MODULE ArtifactProofs ---------------------------
(* What exporters publish and what exit code 0 means, for any number of     *)
(* exporters, destinations, files and requests.                             *)
EXTENDS Artifact, FiniteSetTheorems, TLAPS

-----------------------------------------------------------------------------
(* Rendering loses no part of a claim                                       *)

(* With as many checks as lowerings, every lowering is selected. *)
LEMMA AllSelected ==
  ASSUME NEW checks, NEW lowerings, Len(checks) \in Nat, Len(lowerings) = Len(checks),
         NEW s \in Selections(checks, lowerings), NEW i \in 1..Len(lowerings)
  PROVE  \E k \in 1..Len(checks) : s[k] = i
  <1> DEFINE n == Len(checks)
  <1>1. s \in [1..n -> 1..n]
    BY DEF Selections
  <1>2. \A k \in 1..n : \A j \in 1..(k - 1) : s[j] # s[k]
    BY DEF Selections
  <1>3. \A a, b \in 1..n : s[a] = s[b] => a = b
    <2>1. SUFFICES ASSUME NEW a \in 1..n, NEW b \in 1..n, s[a] = s[b], a # b PROVE FALSE
      OBVIOUS
    <2>2. a \in 1..(b - 1) \/ b \in 1..(a - 1)
      BY <2>1
    <2>3. QED BY <1>2, <2>1, <2>2
  <1>4. s \in Injection(1..n, 1..n)
    BY <1>1, <1>3 DEF Injection, IsInjective
  <1>5. IsFiniteSet(1..n)
    BY FS_Interval
  <1>6. s \in Surjection(1..n, 1..n)
    BY <1>4, <1>5, FS_Injection
  <1>7. QED BY <1>6 DEF Surjection

LEMMA BoundStated ==
  ASSUME NEW r \in Verified, Retained(r), RenderBound(r) # {}
  PROVE  Claim(r) \subseteq RenderBound(r)
  <1> DEFINE n == Len(r.checks)
             selections == Selections(r.checks, r.lowerings)
             s == CHOOSE q \in selections : TRUE
             By(k) == r.lowerings[s[k]]
             stated == {Compares(By(k), r.checks[k].box) : k \in 1..n}
  <1>0. n \in Nat /\ Len(r.lowerings) = n /\ r.kind = "bound" /\ r.equality \in BOOLEAN
    BY DEF Verified, Retained
  <1>1. /\ n > 0 /\ \A k \in 1..n : r.checks[k] # None
        /\ selections # {}
        /\ RenderBound(r) = IF r.equality
             THEN stated \cup {States("eq", <<By(1).lhs, By(1).rhs>>, r.checks[1].box)}
             ELSE stated
    BY DEF RenderBound
  <1>2. s \in selections
    BY <1>1
  <1>3. \A k \in 1..n : r.checks[k].box = r.domain
    BY <1>1 DEF Retained
  <1> HIDE DEF selections, s
  <1>4. CASE ~r.equality
    <2>1. SUFFICES ASSUME NEW i \in 1..n
                   PROVE  Compares(r.lowerings[i], r.domain) \in stated
      BY <1>0, <1>1, <1>4 DEF Claim
    <2>2. PICK k \in 1..n : s[k] = i
      BY <1>0, <1>2, AllSelected DEF selections
    <2>3. By(k) = r.lowerings[i] /\ r.checks[k].box = r.domain
      BY <2>2, <1>3
    <2>4. QED BY <2>3
  <1>5. CASE r.equality
    <2>1. 1 \in 1..n
      BY <1>0, <1>1
    <2>2. Matches(r.checks[1], r.lowerings[1])
      BY <1>0, <1>1, <1>5, <2>1 DEF Retained, Verified
    <2>3. /\ s[1] \in 1..n
          /\ \A i \in 1..(s[1] - 1) :
               Matches(r.checks[1], r.lowerings[i]) => \E j \in 1..(1 - 1) : s[j] = i
      BY <1>0, <1>2, <2>1 DEF selections, Selections
    <2>4. s[1] = 1
      <3>1. SUFFICES ASSUME s[1] # 1 PROVE FALSE
        OBVIOUS
      <3>2. 1 \in 1..(s[1] - 1)
        BY <2>3, <3>1
      <3>3. QED BY <2>2, <2>3, <3>2
    <2>5. Claim(r) = {States("eq", <<By(1).lhs, By(1).rhs>>, r.checks[1].box)}
      BY <1>0, <1>3, <1>5, <2>1, <2>4 DEF Claim
    <2>6. QED BY <1>1, <1>5, <2>5
  <1>6. QED BY <1>0, <1>4, <1>5

(* The results that are exported; a conjunction is composed to a bound. *)
Exported == Verified \cup SystemRoot \cup EventualBound \cup ScalarRoot \cup Integral

LEMMA ClaimStated ==
  ASSUME NEW r \in Exported, r.kind = "bound" => Retained(r), Source(r) # {}
  PROVE  Claim(r) \subseteq Source(r)
  <1>1. CASE r \in Verified
    BY <1>1, BoundStated DEF Source, Verified
  <1>2. CASE r \in SystemRoot
    BY <1>2 DEF Source, SystemRoot, Claim, RenderSystemRoot
  <1>3. CASE r \in EventualBound
    BY <1>3 DEF Source, EventualBound, Claim, RenderEventual
  <1>4. CASE r \in ScalarRoot
    BY <1>4 DEF Source, ScalarRoot, Claim, RenderScalarRoot
  <1>5. CASE r \in Integral
    BY <1>5 DEF Source, Integral, Claim, RenderIntegral
  <1>6. QED BY <1>1, <1>2, <1>3, <1>4, <1>5 DEF Exported

LEMMA BoundTyped ==
  ASSUME NEW r \in Verified
  PROVE  RenderBound(r) \subseteq Statement
  <1> DEFINE n == Len(r.checks)
             selections == Selections(r.checks, r.lowerings)
             s == CHOOSE q \in selections : TRUE
             By(k) == r.lowerings[s[k]]
             stated == {Compares(By(k), r.checks[k].box) : k \in 1..n}
  <1>1. SUFFICES ASSUME RenderBound(r) # {} PROVE RenderBound(r) \subseteq Statement
    OBVIOUS
  <1>2. /\ n > 0 /\ \A k \in 1..n : r.checks[k] # None
        /\ selections # {}
        /\ RenderBound(r) = IF r.equality
             THEN stated \cup {States("eq", <<By(1).lhs, By(1).rhs>>, r.checks[1].box)}
             ELSE stated
    BY <1>1 DEF RenderBound
  <1>3. s \in selections
    BY <1>2
  <1> HIDE DEF s
  <1>4. n \in Nat /\ Len(r.lowerings) \in Nat
    BY DEF Verified
  <1>5. ASSUME NEW k \in 1..n
        PROVE  By(k) \in Lowering /\ r.checks[k] \in Certificate
    <2>1. s[k] \in 1..Len(r.lowerings)
      BY <1>3, <1>5 DEF Selections
    <2>2. r.lowerings \in Seq(Lowering) /\ r.checks \in Seq(Certificate \cup {None})
      BY DEF Verified
    <2>3. r.lowerings[s[k]] \in Lowering
      BY <2>1, <2>2, <1>4
    <2>4. r.checks[k] \in Certificate
      BY <1>2, <1>4, <1>5, <2>2
    <2>5. QED BY <2>3, <2>4
  <1> HIDE DEF n, selections
  <1>6. ASSUME NEW k \in 1..n
        PROVE  /\ By(k).lhs \in Exprs /\ By(k).rhs \in Exprs /\ r.checks[k].box \in Boxes
               /\ <<By(k).lhs, By(k).rhs>> \in Seq(Exprs \cup Rationals)
    <2>1. By(k).lhs \in Exprs /\ By(k).rhs \in Exprs /\ r.checks[k].box \in Boxes
      BY <1>5, <1>6 DEF Lowering, Certificate
    <2> HIDE DEF By
    <2>2. QED BY <2>1
  <1> HIDE DEF By
  <1>7. ASSUME NEW k \in 1..n PROVE Compares(By(k), r.checks[k].box) \in Statement
    BY <1>6, <1>7 DEF Compares, States, Statement, Forms
  <1>8. 1 \in 1..n
    BY <1>2, <1>4 DEF n
  <1>9. States("eq", <<By(1).lhs, By(1).rhs>>, r.checks[1].box) \in Statement
    BY <1>6, <1>8 DEF States, Statement, Forms
  <1>10. QED BY <1>2, <1>7, <1>9

LEMMA StatesTyped ==
  ASSUME NEW form \in Forms, NEW x \in Exprs, NEW box \in Boxes
  PROVE  /\ States(form, <<x>>, box) \in Statement
         /\ \A y \in Rationals : States(form, <<x, y>>, box) \in Statement
  <1>1. <<x>> \in Seq(Exprs \cup Rationals)
    OBVIOUS
  <1>2. \A y \in Rationals : <<x, y>> \in Seq(Exprs \cup Rationals)
    OBVIOUS
  <1>3. \A of \in Seq(Exprs \cup Rationals) : States(form, of, box) \in Statement
    BY DEF States, Statement
  <1>4. QED BY <1>1, <1>2, <1>3

LEMMA SourceTyped ==
  ASSUME NEW r \in Exported
  PROVE  Source(r) \subseteq Statement
  <1>1. CASE r \in Verified
    BY <1>1, BoundTyped DEF Source, Verified
  <1>2. CASE r \in SystemRoot
    <2>1. r.kind = "system_root" /\ r.expr \in Exprs /\ r.box \in Boxes
      BY <1>2 DEF SystemRoot
    <2>2. \A form \in {"unique", "exists"} : States(form, <<r.expr>>, r.box) \in Statement
      BY <2>1, StatesTyped DEF Forms
    <2>3. RenderSystemRoot(r) \subseteq Statement
      BY <2>2 DEF RenderSystemRoot
    <2>4. QED BY <2>1, <2>3 DEF Source
  <1>3. CASE r \in EventualBound
    <2>1. /\ r.kind = "eventual_bound" /\ r.expr \in Exprs /\ r.box \in Boxes
          /\ r.bound \in Rationals
      BY <1>3 DEF EventualBound
    <2>2. States("eventually_le", <<r.expr, r.bound>>, r.box) \in Statement
      BY <2>1, StatesTyped DEF Forms
    <2>3. RenderEventual(r) \subseteq Statement
      BY <2>2 DEF RenderEventual
    <2>4. QED BY <2>1, <2>3 DEF Source
  <1>4. CASE r \in ScalarRoot
    <2>1. /\ r.kind = "scalar_root" /\ r.expr \in Exprs /\ r.box \in Boxes
          /\ r.claim \in {"exists", "unique", "excluded"}
      BY <1>4 DEF ScalarRoot
    <2>2. r.claim \in Forms
      BY <2>1 DEF Forms
    <2>3. States(r.claim, <<r.expr>>, r.box) \in Statement
      BY <2>1, <2>2, StatesTyped
    <2>4. RenderScalarRoot(r) \subseteq Statement
      BY <2>3 DEF RenderScalarRoot
    <2>5. QED BY <2>1, <2>4 DEF Source
  <1>5. CASE r \in Integral
    <2>1. /\ r.kind = "integral" /\ r.expr \in Exprs /\ r.box \in Boxes /\ r.bound \in Rationals
          /\ r.relation \in {"eq", "lower", "upper"}
      BY <1>5 DEF Integral
    <2>2. IntegralForm[r.relation] \in Forms
      BY <2>1 DEF Forms, IntegralForm
    <2>3. States(IntegralForm[r.relation], <<r.expr, r.bound>>, r.box) \in Statement
      BY <2>1, <2>2, StatesTyped
    <2>4. RenderIntegral(r) \subseteq Statement
      BY <2>3 DEF RenderIntegral
    <2>5. QED BY <2>1, <2>4 DEF Source
  <1>6. QED BY <1>1, <1>2, <1>3, <1>4, <1>5 DEF Exported

LEMMA ExportedProvenance ==
  ASSUME NEW r \in Exported PROVE r.prov \in Provenance
  BY DEF Exported, Verified, SystemRoot, EventualBound, ScalarRoot, Integral

-----------------------------------------------------------------------------
(* What a call of an exporter does                                          *)

(* The requests an exporter serves. *)
Served == {q \in Request : q.result \in Exported /\ (q.result.kind = "bound" => Retained(q.result))}

Fresh(e, q) == [by |-> e, files |-> {}, claim |-> Claim(q.result), source |-> Source(q.result),
                prov |-> q.result.prov, manifest |-> None]

Refuses(e, q) ==
  /\ pc[e] = "idle" /\ pc' = [pc EXCEPT ![e] = "done"]
  /\ request' = [request EXCEPT ![e] = q]
  /\ \E o \in {"unsupported", "exists"} : outcome' = [outcome EXCEPT ![e] = o]
  /\ UNCHANGED <<dirs, verifierVars>>

Begins(e, q) ==
  /\ pc[e] = "idle" /\ pc' = [pc EXCEPT ![e] = "write"]
  /\ q \in Served /\ Exportable(q.result)
  /\ request' = [request EXCEPT ![e] = q]
  /\ dirs' = [dirs EXCEPT ![e] = Fresh(e, q)]
  /\ UNCHANGED <<outcome, verifierVars>>

LEMMA StartMeans ==
  ASSUME NEW e \in Exporters, NEW q \in Served, Start(e, q)
  PROVE  Refuses(e, q) \/ Begins(e, q)
  <1>1. CASE ~Exportable(q.result) /\ Unsupported(e, q)
    BY <1>1 DEF Unsupported, Refuses, At, Ends
  <1>2. CASE /\ Exportable(q.result) /\ dirs[q.dest] # Absent
             /\ request' = [request EXCEPT ![e] = q]
             /\ At(e, "idle", "done") /\ Ends(e, "exists")
             /\ UNCHANGED <<dirs, verifierVars>>
    BY <1>2 DEF Refuses, At, Ends
  <1>3. CASE /\ Exportable(q.result)
             /\ request' = [request EXCEPT ![e] = q]
             /\ dirs' = [dirs EXCEPT ![Place(e)'] = Fresh(e, q)]
             /\ At(e, "idle", "write")
             /\ UNCHANGED <<outcome, verifierVars>>
    BY <1>3 DEF Begins, At, Place
  <1>4. QED BY <1>1, <1>2, <1>3 DEF Start, Fresh

LEMMA CallsMean ==
  ASSUME NEW e \in Exporters, Calls(e)
  PROVE  \E q \in Request : Refuses(e, q) \/ Begins(e, q)
  <1>1. \A r \in Requests[e] : r \in Request /\ Faithful(r.result) /\ r.result \in Result
    BY ArtifactAssumption DEF Request
  <1>2. ASSUME NEW r \in Requests[e], r.result.kind # "conjunction", Start(e, r)
        PROVE  \E q \in Request : Refuses(e, q) \/ Begins(e, q)
    <2>1. r.result \in Exported
      BY <1>1, <1>2 DEF Result, Conjunction, Exported
    <2>2. r \in Served
      BY <1>1, <2>1 DEF Served, Faithful
    <2>3. QED BY <1>2, <2>2, StartMeans DEF Served
  <1>3. ASSUME NEW r \in Requests[e], r.result.kind = "conjunction", Composable(r.result),
               Start(e, [r EXCEPT !.result = Composed(r.result)])
        PROVE  \E q \in Request : Refuses(e, q) \/ Begins(e, q)
    <2> DEFINE q == [r EXCEPT !.result = Composed(r.result)]
    <2>1. Composed(r.result) \in Verified /\ Retained(Composed(r.result))
      BY <1>1, <1>3 DEF Faithful
    <2>2. q.result = Composed(r.result) /\ q \in Request
      BY <1>1, <2>1 DEF Request, Result
    <2>3. q \in Served
      BY <2>1, <2>2 DEF Served, Exported
    <2> HIDE DEF q
    <2>4. QED BY <1>3, <2>3, StartMeans DEF Served, q
  <1>4. ASSUME NEW r \in Requests[e], Unsupported(e, r)
        PROVE  \E q \in Request : Refuses(e, q) \/ Begins(e, q)
    BY <1>1, <1>4 DEF Unsupported, Refuses, At, Ends
  <1>5. CASE ExportConjunction(e)
    BY <1>3, <1>4, <1>5 DEF ExportConjunction, Asked
  <1>6. CASE ExportBound(e)
    BY <1>2, <1>6 DEF ExportBound, Asked
  <1>7. CASE ExportSystemRoot(e)
    BY <1>2, <1>7 DEF ExportSystemRoot, Asked
  <1>8. CASE ExportEventualBound(e)
    BY <1>2, <1>8 DEF ExportEventualBound, Asked
  <1>9. CASE ExportScalarRoot(e)
    BY <1>2, <1>9 DEF ExportScalarRoot, Asked
  <1>10. CASE ExportIntegral(e)
    BY <1>2, <1>10 DEF ExportIntegral, Asked
  <1>11. QED BY <1>5, <1>6, <1>7, <1>8, <1>9, <1>10 DEF Calls

-----------------------------------------------------------------------------
(* What is true of an exporter's staging directory and of what it published *)

Working == {"write", "manifest", "check", "rewrite", "publish"}
First(k) == {Files[i] : i \in 1..k}
Listed(p) == [claim |-> p.claim, source |-> p.source, prov |-> p.prov]
Identified(prov) == prov.source = "canonical" /\ prov.revision = "full"

(* An exporter e that is at `at`, with request q and outcome out, and p in  *)
(* its staging directory.                                                   *)
StagedAt(e, at, q, out, p) ==
  /\ at \in {"idle", "done"} => p = Absent
  /\ at = "idle" => q = None /\ out = None
  /\ at \in Working => /\ q \in Request /\ out = None /\ p \in Project /\ p.by = e
                       /\ p.claim = Ordered(q) /\ p.claim \subseteq p.source /\ Identified(p.prov)
  /\ at = "write" => \E k \in 0..(Len(Files) - 1) : p.files = First(k)
  /\ at \in Working \ {"write"} => p.files = ToSet(Files)
  /\ at \in {"check", "rewrite", "publish"} => p.manifest # None
  /\ at \in {"check", "rewrite"} => q.verify
  /\ at = "rewrite" \/ (at = "publish" /\ q.verify) => p.claim \subseteq Sound
  /\ at = "publish" /\ ~q.verify => p.manifest = Listed(p)
  /\ at # "done" => out \notin Success

(* The same for p at a destination. *)
LeftAt(e, at, q, out, p) ==
  p # Absent /\ p.by = e =>
    /\ at = "done" /\ out \in Success /\ Complete(p)
    /\ q.verify => p.claim \subseteq Sound
    /\ out = "prepared" => p.manifest = Listed(p) /\ Identified(p.prov)

Staged(e) == StagedAt(e, pc[e], request[e], outcome[e], dirs[e])
Left(e)   == \A d \in Dests : LeftAt(e, pc[e], request[e], outcome[e], dirs[d])

ExporterTypes ==
    /\ dirs \in [Names -> Project \cup {Absent}]
    /\ pc \in [Exporters -> {"idle", "write", "manifest", "check", "rewrite", "publish",
                             "cleanup", "done", "killed"}]
    /\ request \in [Exporters -> Request \cup {None}]
    /\ outcome \in [Exporters -> Outcomes]

LEMMA FirstCounted ==
  ASSUME NEW k \in 0..Len(Files)
  PROVE  Cardinality(First(k)) = k
  <1> DEFINE f == [i \in 1..k |-> Files[i]]
  <1>1. Len(Files) \in Nat /\ DOMAIN Files = 1..Len(Files)
    BY ArtifactAssumption
  <1>2. \A i, j \in 1..k : Files[i] = Files[j] => i = j
    BY <1>1, ArtifactAssumption DEF IsInjective
  <1>3. f \in [1..k -> First(k)]
    BY DEF First
  <1>4. f \in Injection(1..k, First(k))
    BY <1>2, <1>3 DEF Injection, IsInjective
  <1>5. f \in Surjection(1..k, First(k))
    BY <1>3 DEF Surjection, First
  <1>6. ExistsBijection(1..k, First(k))
    BY <1>4, <1>5 DEF ExistsBijection, Bijection
  <1>7. QED BY <1>1, <1>6, FS_CountingElements

LEMMA AllWritten ==
  /\ Len(Files) \in Nat \ {0} /\ First(Len(Files)) = ToSet(Files)
  /\ Required \subseteq ToSet(Files)
  <1>1. Len(Files) \in Nat \ {0} /\ DOMAIN Files = 1..Len(Files)
    BY ArtifactAssumption
  <1>2. First(Len(Files)) = ToSet(Files)
    BY <1>1 DEF First, ToSet
  <1>3. \A x \in Required : x \in ToSet(Files)
    <2>1. TAKE x \in Required
    <2>2. PICK i \in DOMAIN Front(Files) : x = Front(Files)[i]
      BY <2>1 DEF Required, ToSet
    <2>3. i \in 1..(Len(Files) - 1) /\ Front(Files)[i] = Files[i]
      BY <1>1, <2>2, ArtifactAssumption DEF Front
    <2>4. QED BY <1>1, <2>2, <2>3 DEF ToSet
  <1>4. QED BY <1>1, <1>2, <1>3

-----------------------------------------------------------------------------
(* What a step of an exporter does, to it and to nobody else                *)

Keeps(p, q) == /\ p # Absent /\ q # Absent /\ q.source = p.source
               /\ Pinned(p.prov) => Pinned(q.prov)

Alone(e) ==
  /\ \A x \in Exporters \ {e} : pc'[x] = pc[x] /\ request'[x] = request[x] /\ outcome'[x] = outcome[x]
  /\ UNCHANGED verifierVars

(* A call has one request and one outcome. *)
Once(e, q, out) ==
  /\ q = request[e] \/ (request[e] = None /\ q # None)
  /\ out = outcome[e] \/ (outcome[e] = None /\ q # None)

(* Any step but a publication. *)
Ordinary(e) ==
  /\ ExporterTypes' /\ Staged(e)' /\ Once(e, request'[e], outcome'[e])
  /\ pc[e] # "done" /\ pc'[e] # "idle" /\ outcome'[e] \notin Success
  /\ Alone(e)
  /\ \A n \in Names \ {e} : dirs'[n] = dirs[n]
  /\ pc[e] # "idle" => dirs'[e] = dirs[e] \/ dirs'[e] = Absent \/ Keeps(dirs[e], dirs'[e])

Publishes(e) ==
  /\ ExporterTypes' /\ Staged(e)'
  /\ pc[e] = "publish" /\ pc'[e] = "done"
  /\ outcome'[e] = IF request[e].verify THEN "verified" ELSE "prepared"
  /\ request' = request
  /\ Alone(e)
  /\ request[e].dest \in Dests /\ dirs[request[e].dest] = Absent
  /\ dirs'[request[e].dest] = dirs[e] /\ dirs'[e] = Absent
  /\ \A n \in Names \ {e, request[e].dest} : dirs'[n] = dirs[n]

(* A step of e that moves it to `at` with outcome out and leaves q in its   *)
(* staging directory.                                                       *)
LEMMA Moved ==
  ASSUME ExporterTypes, NEW e \in Exporters, NEW to, NEW q \in Request \cup {None}, NEW out \in Outcomes,
         NEW p \in Project \cup {Absent},
         to \in {"write", "manifest", "check", "rewrite", "publish", "cleanup", "done", "killed"},
         pc[e] # "done", pc' = [pc EXCEPT ![e] = to], request' = [request EXCEPT ![e] = q],
         outcome' = [outcome EXCEPT ![e] = out], dirs' = [dirs EXCEPT ![e] = p],
         UNCHANGED verifierVars, StagedAt(e, to, q, out, p), out \notin Success, Once(e, q, out),
         pc[e] # "idle" => p = dirs[e] \/ p = Absent \/ Keeps(dirs[e], p)
  PROVE  Ordinary(e)
  <1>1. e \in Names
    BY DEF Names
  <1>2. ExporterTypes'
    BY <1>1 DEF ExporterTypes
  <1>3. pc'[e] = to /\ request'[e] = q /\ outcome'[e] = out /\ dirs'[e] = p
    BY <1>1 DEF ExporterTypes
  <1>4. /\ \A x \in Exporters \ {e} :
             pc'[x] = pc[x] /\ request'[x] = request[x] /\ outcome'[x] = outcome[x]
        /\ \A n \in Names \ {e} : dirs'[n] = dirs[n]
    BY <1>1 DEF ExporterTypes
  <1>5. Staged(e)'
    BY <1>3 DEF Staged
  <1>6. QED BY <1>2, <1>3, <1>4, <1>5 DEF Ordinary, Alone

LEMMA NoneApart ==
  /\ None \in Outcomes /\ None \notin Success /\ None \notin Request /\ None \notin Manifest
  /\ None # "env"
  BY ArtifactAssumption DEF Outcomes

(* A function that a step leaves alone at e. *)
LEMMA Same ==
  ASSUME ExporterTypes, NEW e \in Exporters
  PROVE  /\ request = [request EXCEPT ![e] = request[e]]
         /\ outcome = [outcome EXCEPT ![e] = outcome[e]]
         /\ dirs = [dirs EXCEPT ![e] = dirs[e]]
         /\ request[e] \in Request \cup {None} /\ outcome[e] \in Outcomes
         /\ dirs[e] \in Project \cup {Absent}
  <1>1. e \in Names
    BY DEF Names
  <1>2. QED BY <1>1 DEF ExporterTypes

LEMMA WorkingProject ==
  ASSUME ExporterTypes, NEW e \in Exporters, Staged(e), pc[e] \in Working
  PROVE  /\ request[e] \in Request /\ outcome[e] = None /\ dirs[e] \in Project /\ dirs[e] # Absent
         /\ dirs[e].by = e /\ dirs[e].claim \subseteq dirs[e].source /\ Identified(dirs[e].prov)
         /\ dirs[e].claim = Ordered(request[e])
  BY ArtifactAssumption DEF Staged, StagedAt

LEMMA CallSteps ==
  ASSUME ExporterTypes, NEW e \in Exporters, Staged(e), Calls(e)
  PROVE  Ordinary(e)
  <1>1. PICK q \in Request : Refuses(e, q) \/ Begins(e, q)
    BY CallsMean
  <1>2. pc[e] = "idle" => dirs[e] = Absent
    BY DEF Staged, StagedAt
  <1>3. CASE Refuses(e, q)
    <2>1. PICK o \in {"unsupported", "exists"} : outcome' = [outcome EXCEPT ![e] = o]
      BY <1>3 DEF Refuses
    <2>2. o \in Outcomes /\ o \notin Success
      BY <2>1 DEF Outcomes, Success
    <2>3. /\ pc[e] = "idle" /\ pc' = [pc EXCEPT ![e] = "done"] /\ request' = [request EXCEPT ![e] = q]
          /\ dirs' = [dirs EXCEPT ![e] = dirs[e]] /\ UNCHANGED verifierVars
          /\ dirs[e] \in Project \cup {Absent}
      BY <1>3, Same DEF Refuses
    <2>4. StagedAt(e, "done", q, o, dirs[e])
      BY <1>2, <2>3 DEF StagedAt, Working
    <2>5. Once(e, q, o)
      BY <2>3, NoneApart DEF Once, Staged, StagedAt
    <2>6. QED BY <2>1, <2>2, <2>3, <2>4, <2>5, Moved
  <1>4. CASE Begins(e, q)
    <2> DEFINE p == Fresh(e, q)
    <2>1. q \in Served /\ Source(q.result) # {} /\ Identified(q.result.prov)
      BY <1>4 DEF Begins, Exportable, Identified
    <2>2. q.result \in Exported /\ (q.result.kind = "bound" => Retained(q.result))
      BY <2>1 DEF Served
    <2>3. Claim(q.result) \subseteq Source(q.result) /\ Source(q.result) \subseteq Statement
      BY <2>1, <2>2, ClaimStated, SourceTyped
    <2>4. q.result.prov \in Provenance
      BY <2>2, ExportedProvenance
    <2>5. /\ p \in Project /\ p.by = e /\ p.files = {} /\ p.claim = Claim(q.result)
          /\ p.source = Source(q.result) /\ p.prov = q.result.prov
      BY <2>3, <2>4 DEF Fresh, Project
    <2>6. First(0) = {} /\ 0 \in 0..(Len(Files) - 1)
      BY AllWritten DEF First
    <2>7. pc[e] = "idle" /\ outcome[e] = None /\ request[e] = None
      BY <1>4, Same DEF Begins, Staged, StagedAt
    <2> HIDE DEF p
    <2>8. p.claim = Ordered(q)
      <3>1. q.result.kind # "conjunction"
        BY <2>2 DEF Exported, Verified, SystemRoot, EventualBound, ScalarRoot, Integral
      <3>2. QED BY <2>5, <3>1 DEF Ordered
    <2>9. Once(e, q, None)
      BY <2>1, <2>7, NoneApart DEF Once, Served
    <2>10. StagedAt(e, "write", q, None, p)
      <3>1. \E k \in 0..(Len(Files) - 1) : p.files = First(k)
        BY <2>5, <2>6
      <3>2. QED BY <2>1, <2>3, <2>5, <2>8, <3>1, NoneApart DEF StagedAt, Working
    <2>11. /\ pc' = [pc EXCEPT ![e] = "write"] /\ request' = [request EXCEPT ![e] = q]
          /\ outcome' = [outcome EXCEPT ![e] = None] /\ dirs' = [dirs EXCEPT ![e] = p]
          /\ UNCHANGED verifierVars
      BY <1>4, <2>7, Same DEF Begins, p
    <2>12. QED BY <2>5, <2>7, <2>10, <2>11, <2>9, Moved, NoneApart
  <1>5. QED BY <1>1, <1>3, <1>4

LEMMA WriteFileStep ==
  ASSUME ExporterTypes, NEW e \in Exporters, Staged(e), WriteFile(e)
  PROVE  Ordinary(e)
  <1> DEFINE p == [dirs[e] EXCEPT !.files = @ \cup {Files[Written(e) + 1]}]
             to == IF Written(e) + 1 = Len(Files) THEN "manifest" ELSE "write"
  <1>1. pc[e] = "write" /\ pc[e] \in Working
    BY DEF WriteFile, At, Working
  <1>2. /\ request[e] \in Request /\ outcome[e] = None /\ dirs[e] \in Project /\ dirs[e] # Absent
        /\ dirs[e].by = e /\ dirs[e].claim \subseteq dirs[e].source /\ Identified(dirs[e].prov)
        /\ dirs[e].claim = Ordered(request[e])
    BY <1>1, WorkingProject
  <1>3. PICK k \in 0..(Len(Files) - 1) : dirs[e].files = First(k)
    BY <1>1 DEF Staged, StagedAt
  <1>4. Len(Files) \in Nat \ {0} /\ First(Len(Files)) = ToSet(Files)
    BY AllWritten
  <1>5. Written(e) = k
    BY <1>3, <1>4, FirstCounted DEF Written, Mine, Place
  <1>6. First(k) \cup {Files[k + 1]} = First(k + 1)
    <2>1. 1..(k + 1) = 1..k \cup {k + 1}
      BY <1>3
    <2>2. QED BY <2>1 DEF First
  <1>7. First(k + 1) \subseteq ToSet(Files)
    <2>1. First(k + 1) \subseteq First(Len(Files))
      BY <1>3, <1>4 DEF First
    <2>2. QED BY <1>4, <2>1
  <1>8. /\ p.files = First(k + 1) /\ p.by = e /\ p.claim = dirs[e].claim
        /\ p.source = dirs[e].source /\ p.prov = dirs[e].prov /\ p \in Project
    <2>1. p = [dirs[e] EXCEPT !.files = First(k + 1)]
      BY <1>2, <1>3, <1>5, <1>6 DEF Project
    <2> HIDE DEF p
    <2>2. QED BY <1>2, <1>7, <2>1 DEF Project
  <1>9. /\ pc' = [pc EXCEPT ![e] = to] /\ dirs' = [dirs EXCEPT ![e] = p]
        /\ request' = [request EXCEPT ![e] = request[e]] /\ outcome' = [outcome EXCEPT ![e] = outcome[e]]
        /\ UNCHANGED verifierVars
    BY Same DEF WriteFile, At, Place
  <1>10. to \in {"write", "manifest"} /\ p # Absent
    BY <1>8, ArtifactAssumption
  <1>11. /\ to = "write" => k + 1 \in 0..(Len(Files) - 1)
         /\ to = "manifest" => p.files = ToSet(Files)
    BY <1>3, <1>4, <1>5, <1>8
  <1> HIDE DEF p, to
  <1>12. StagedAt(e, to, request[e], outcome[e], p)
    <2>1. to = "write" => \E j \in 0..(Len(Files) - 1) : p.files = First(j)
      BY <1>8, <1>11
    <2>2. QED BY <1>2, <1>8, <1>10, <1>11, <2>1, NoneApart DEF StagedAt, Working
  <1>13. Keeps(dirs[e], p)
    BY <1>2, <1>8, <1>10 DEF Keeps
  <1>14. outcome[e] \in Outcomes /\ outcome[e] \notin Success
    BY <1>2, NoneApart
  <1>15. QED BY <1>1, <1>2, <1>8, <1>9, <1>10, <1>12, <1>13, <1>14, Moved DEF Once

LEMMA WriteManifestStep ==
  ASSUME ExporterTypes, NEW e \in Exporters, Staged(e), WriteManifest(e)
  PROVE  Ordinary(e)
  <1> DEFINE m == [claim |-> dirs[e].claim, source |-> dirs[e].source, prov |-> dirs[e].prov]
             p == [dirs[e] EXCEPT !.manifest = m]
             to == IF request[e].verify THEN "check" ELSE "publish"
  <1>1. pc[e] = "manifest" /\ pc[e] \in Working
    BY DEF WriteManifest, At, Working
  <1>2. /\ request[e] \in Request /\ outcome[e] = None /\ dirs[e] \in Project /\ dirs[e] # Absent
        /\ dirs[e].by = e /\ dirs[e].claim \subseteq dirs[e].source /\ Identified(dirs[e].prov)
        /\ dirs[e].claim = Ordered(request[e])
    BY <1>1, WorkingProject
  <1>3. dirs[e].files = ToSet(Files)
    BY <1>1 DEF Staged, StagedAt, Working
  <1>4. m \in Manifest /\ m # None
    BY <1>2, NoneApart DEF Manifest, Project
  <1>5. /\ pc' = [pc EXCEPT ![e] = to] /\ dirs' = [dirs EXCEPT ![e] = p]
        /\ request' = [request EXCEPT ![e] = request[e]] /\ outcome' = [outcome EXCEPT ![e] = outcome[e]]
        /\ UNCHANGED verifierVars
    BY Same DEF WriteManifest, At, Place, Mine
  <1>6. to \in {"check", "publish"} /\ (to = "check" <=> request[e].verify)
    OBVIOUS
  <1> HIDE DEF m
  <1>7. /\ p.manifest = m /\ p.files = dirs[e].files /\ p.by = e /\ p.claim = dirs[e].claim
        /\ p.source = dirs[e].source /\ p.prov = dirs[e].prov /\ p \in Project
    BY <1>2, <1>4 DEF Project
  <1> HIDE DEF p, to
  <1>8. m = Listed(p)
    BY <1>7 DEF Listed, m
  <1>9. p # Absent
    BY <1>7, ArtifactAssumption
  <1>10. StagedAt(e, to, request[e], outcome[e], p)
    BY <1>2, <1>3, <1>4, <1>6, <1>7, <1>8, <1>9, NoneApart DEF StagedAt, Working
  <1>11. Keeps(dirs[e], p)
    BY <1>2, <1>7, <1>9 DEF Keeps
  <1>12. outcome[e] \in Outcomes /\ outcome[e] \notin Success
    BY <1>2, NoneApart
  <1>13. QED BY <1>1, <1>2, <1>5, <1>6, <1>7, <1>10, <1>11, <1>12, Moved DEF Once

(* Failing, cleaning up and being killed. *)
LEMMA EndingSteps ==
  ASSUME ExporterTypes, NEW e \in Exporters, Staged(e), WriteFails(e) \/ Cleanup(e) \/ Killed(e)
  PROVE  Ordinary(e)
  <1>1. /\ request = [request EXCEPT ![e] = request[e]] /\ outcome = [outcome EXCEPT ![e] = outcome[e]]
        /\ dirs = [dirs EXCEPT ![e] = dirs[e]] /\ request[e] \in Request \cup {None}
        /\ outcome[e] \in Outcomes /\ dirs[e] \in Project \cup {Absent}
    BY Same
  <1>2. CASE WriteFails(e)
    <2>1. "raised" \in Outcomes /\ "raised" \notin Success
      BY DEF Outcomes, Success
    <2>2. /\ pc[e] # "done" /\ pc' = [pc EXCEPT ![e] = "cleanup"] /\ request' = request /\ dirs' = dirs
          /\ outcome' = [outcome EXCEPT ![e] = "raised"] /\ UNCHANGED verifierVars
      BY <1>2 DEF WriteFails, Ends
    <2>3. StagedAt(e, "cleanup", request[e], "raised", dirs[e])
      BY <2>1 DEF StagedAt, Working
    <2>4. pc[e] \in Working
      BY <1>2 DEF WriteFails, Working
    <2>5. Once(e, request[e], "raised")
      BY <2>4, WorkingProject, NoneApart DEF Once
    <2>6. QED BY <1>1, <2>1, <2>2, <2>3, <2>5, Moved
  <1>3. CASE Cleanup(e)
    <2>1. /\ pc[e] = "cleanup" /\ pc' = [pc EXCEPT ![e] = "done"] /\ request' = request
          /\ outcome' = outcome /\ dirs' = [dirs EXCEPT ![e] = Absent] /\ UNCHANGED verifierVars
      BY <1>3 DEF Cleanup, At, Place, Leftover
    <2>2. outcome[e] \notin Success
      BY <2>1 DEF Staged, StagedAt
    <2>3. StagedAt(e, "done", request[e], outcome[e], Absent)
      BY <2>2 DEF StagedAt, Working
    <2>4. QED BY <1>1, <2>1, <2>2, <2>3, Moved DEF Once
  <1>4. CASE Killed(e)
    <2>1. /\ pc[e] # "done" /\ pc' = [pc EXCEPT ![e] = "killed"] /\ request' = request
          /\ outcome' = outcome /\ dirs' = dirs /\ UNCHANGED verifierVars
      BY <1>4 DEF Killed
    <2>2. outcome[e] \notin Success
      BY <2>1 DEF Staged, StagedAt
    <2>3. StagedAt(e, "killed", request[e], outcome[e], dirs[e])
      BY <2>2 DEF StagedAt, Working
    <2>4. QED BY <1>1, <2>1, <2>2, <2>3, Moved DEF Once
  <1>5. QED BY <1>2, <1>3, <1>4

LEMMA KernelCheckStep ==
  ASSUME ExporterTypes, NEW e \in Exporters, Staged(e), KernelCheck(e)
  PROVE  Ordinary(e)
  <1>1. pc[e] = "check" /\ pc[e] \in Working /\ pc[e] # "done"
    BY DEF KernelCheck, Working
  <1>2. /\ request[e] \in Request /\ outcome[e] = None /\ dirs[e] \in Project /\ dirs[e] # Absent
        /\ dirs[e].by = e /\ dirs[e].claim \subseteq dirs[e].source /\ Identified(dirs[e].prov)
        /\ dirs[e].claim = Ordered(request[e])
    BY <1>1, WorkingProject
  <1>3. dirs[e].files = ToSet(Files) /\ dirs[e].manifest # None /\ request[e].verify
    BY <1>1 DEF Staged, StagedAt, Working
  <1>4. /\ request = [request EXCEPT ![e] = request[e]] /\ outcome = [outcome EXCEPT ![e] = outcome[e]]
        /\ dirs = [dirs EXCEPT ![e] = dirs[e]]
    BY Same
  <1>5. request' = request /\ dirs' = dirs /\ UNCHANGED verifierVars
    BY DEF KernelCheck
  <1>6. CASE At(e, "check", "rewrite") /\ UNCHANGED outcome /\ dirs[e].source \subseteq Sound
    <2>1. dirs[e].claim \subseteq Sound
      BY <1>2, <1>6
    <2>2. StagedAt(e, "rewrite", request[e], outcome[e], dirs[e])
      BY <1>2, <1>3, <2>1, NoneApart DEF StagedAt, Working
    <2>3. pc' = [pc EXCEPT ![e] = "rewrite"] /\ outcome[e] \in Outcomes /\ outcome[e] \notin Success
      BY <1>2, <1>6, NoneApart DEF At
    <2>4. QED BY <1>1, <1>2, <1>4, <1>5, <1>6, <2>2, <2>3, Moved DEF Once
  <1>7. ASSUME NEW o \in {"unavailable", "raised", "unsupported", "mismatch", "limit"},
               At(e, "check", "cleanup"), Ends(e, o)
        PROVE  Ordinary(e)
    <2>1. o \in Outcomes /\ o \notin Success
      BY DEF Outcomes, Success
    <2>2. StagedAt(e, "cleanup", request[e], o, dirs[e])
      BY <2>1 DEF StagedAt, Working
    <2>3. pc' = [pc EXCEPT ![e] = "cleanup"] /\ outcome' = [outcome EXCEPT ![e] = o]
      BY <1>7 DEF At, Ends
    <2>4. Once(e, request[e], o)
      BY <1>2, NoneApart DEF Once
    <2>5. QED BY <1>1, <1>2, <1>4, <1>5, <2>1, <2>2, <2>3, <2>4, Moved
  <1>8. PICK answer \in IF Pinned(request[e].result.prov)
                          THEN {"unavailable"} \cup Replayed(dirs[e].source)
                                 \cup (IF request[e].result.prov.env = None THEN {"raised"} ELSE {})
                          ELSE {"unsupported"} :
                 IF answer = "verified"
                   THEN At(e, "check", "rewrite") /\ UNCHANGED outcome
                   ELSE At(e, "check", "cleanup") /\ Ends(e, answer)
    BY DEF KernelCheck, Mine, Place
  <1>9. /\ answer \in {"unavailable", "raised", "unsupported", "mismatch", "limit", "verified"}
        /\ answer = "verified" => dirs[e].source \subseteq Sound
    BY <1>8 DEF Replayed
  <1>10. CASE answer = "verified"
    BY <1>6, <1>8, <1>9, <1>10
  <1>11. CASE answer # "verified"
    BY <1>7, <1>8, <1>9, <1>11
  <1>12. QED BY <1>10, <1>11

LEMMA RewriteStep ==
  ASSUME ExporterTypes, NEW e \in Exporters, Staged(e), Rewrite(e)
  PROVE  Ordinary(e)
  <1> DEFINE prov == [dirs[e].prov EXCEPT !.env = "env", !.lock = "lock"]
             p == [dirs[e] EXCEPT !.prov = prov]
  <1>1. pc[e] = "rewrite" /\ pc[e] \in Working
    BY DEF Rewrite, At, Working
  <1>2. /\ request[e] \in Request /\ outcome[e] = None /\ dirs[e] \in Project /\ dirs[e] # Absent
        /\ dirs[e].by = e /\ dirs[e].claim \subseteq dirs[e].source /\ Identified(dirs[e].prov)
        /\ dirs[e].claim = Ordered(request[e])
    BY <1>1, WorkingProject
  <1>3. /\ dirs[e].files = ToSet(Files) /\ dirs[e].manifest # None /\ request[e].verify
        /\ dirs[e].claim \subseteq Sound
    BY <1>1 DEF Staged, StagedAt, Working
  <1>4. dirs[e].prov \in Provenance
    BY <1>2 DEF Project
  <1>5. prov \in Provenance /\ Identified(prov) /\ prov.env = "env"
    BY <1>2, <1>4 DEF Provenance, Identified
  <1>6. /\ pc' = [pc EXCEPT ![e] = "publish"] /\ dirs' = [dirs EXCEPT ![e] = p]
        /\ request' = [request EXCEPT ![e] = request[e]] /\ outcome' = [outcome EXCEPT ![e] = outcome[e]]
        /\ UNCHANGED verifierVars
    BY Same DEF Rewrite, At, Place
  <1> HIDE DEF prov
  <1>7. /\ p.manifest = dirs[e].manifest /\ p.files = dirs[e].files /\ p.by = e /\ p.claim = dirs[e].claim
        /\ p.source = dirs[e].source /\ p.prov = prov /\ p \in Project
    BY <1>2, <1>5 DEF Project
  <1> HIDE DEF p
  <1>8. p # Absent
    BY <1>7, ArtifactAssumption
  <1>9. StagedAt(e, "publish", request[e], outcome[e], p)
    BY <1>2, <1>3, <1>5, <1>7, <1>8, NoneApart DEF StagedAt, Working
  <1>10. Keeps(dirs[e], p)
    BY <1>2, <1>5, <1>7, <1>8, NoneApart DEF Keeps, Pinned
  <1>11. outcome[e] \in Outcomes /\ outcome[e] \notin Success
    BY <1>2, NoneApart
  <1>12. QED BY <1>1, <1>2, <1>6, <1>7, <1>9, <1>10, <1>11, Moved DEF Once

LEMMA PublishStep ==
  ASSUME ExporterTypes, NEW e \in Exporters, Staged(e), Publish(e)
  PROVE  Ordinary(e) \/ Publishes(e)
  <1> DEFINE d == request[e].dest
             out == IF request[e].verify THEN "verified" ELSE "prepared"
  <1>1. pc[e] = "publish" /\ pc[e] \in Working /\ request' = request /\ UNCHANGED verifierVars
    BY DEF Publish, Working
  <1>2. /\ request[e] \in Request /\ outcome[e] = None /\ dirs[e] \in Project /\ dirs[e] # Absent
        /\ dirs[e].by = e /\ dirs[e].claim \subseteq dirs[e].source /\ Identified(dirs[e].prov)
        /\ dirs[e].claim = Ordered(request[e])
    BY <1>1, WorkingProject
  <1>3. CASE At(e, "publish", "cleanup") /\ Ends(e, "raised") /\ UNCHANGED dirs
    <2>1. "raised" \in Outcomes /\ "raised" \notin Success
      BY DEF Outcomes, Success
    <2>2. StagedAt(e, "cleanup", request[e], "raised", dirs[e])
      BY <2>1 DEF StagedAt, Working
    <2>3. /\ pc' = [pc EXCEPT ![e] = "cleanup"] /\ outcome' = [outcome EXCEPT ![e] = "raised"]
          /\ dirs' = [dirs EXCEPT ![e] = dirs[e]] /\ request' = [request EXCEPT ![e] = request[e]]
      BY <1>1, <1>3, Same DEF At, Ends
    <2>4. Once(e, request[e], "raised")
      BY <1>2, NoneApart DEF Once
    <2>5. QED BY <1>1, <1>2, <2>1, <2>2, <2>3, <2>4, Moved
  <1>4. CASE /\ Free(d) /\ dirs' = [dirs EXCEPT ![d] = dirs[e], ![e] = Absent]
             /\ At(e, "publish", "done") /\ Ends(e, out)
    <2>1. d \in Dests /\ d \in Names /\ e \in Names /\ d # e
      BY <1>2, ArtifactAssumption DEF Request, Names
    <2>2. dirs[d] = Absent
      BY <1>4 DEF Free
    <2>3. out \in Success /\ out \in Outcomes
      BY DEF Success, Outcomes
    <2> HIDE DEF d, out
    <2>4. /\ dirs' \in [Names -> Project \cup {Absent}] /\ dirs'[d] = dirs[e] /\ dirs'[e] = Absent
          /\ \A n \in Names \ {e, d} : dirs'[n] = dirs[n]
      BY <1>2, <1>4, <2>1 DEF ExporterTypes
    <2>5. /\ pc' = [pc EXCEPT ![e] = "done"] /\ outcome' = [outcome EXCEPT ![e] = out]
      BY <1>4 DEF At, Ends
    <2>6. ExporterTypes' /\ pc'[e] = "done" /\ outcome'[e] = out
      BY <1>1, <2>3, <2>4, <2>5 DEF ExporterTypes
    <2>7. Alone(e)
      BY <1>1, <2>5 DEF Alone, ExporterTypes
    <2>8. Staged(e)'
      BY <2>4, <2>6 DEF Staged, StagedAt, Working
    <2>9. QED BY <1>1, <2>1, <2>2, <2>4, <2>6, <2>7, <2>8 DEF Publishes, d, out
  <1>5. QED BY <1>3, <1>4 DEF Publish, Mine, Place

LEMMA ExporterSteps ==
  ASSUME ExporterTypes, NEW e \in Exporters, Staged(e), Calls(e) \/ Exporting(e) \/ Killed(e)
  PROVE  Ordinary(e) \/ Publishes(e)
  BY CallSteps, WriteFileStep, WriteManifestStep, EndingSteps, KernelCheckStep, RewriteStep, PublishStep
     DEF Exporting

-----------------------------------------------------------------------------
(* The exporters' invariant                                                 *)

Reported(e) == outcome[e] \in Success => Published(e)

ExporterInv ==
  ExporterTypes /\ \A e \in Exporters : Staged(e) /\ Left(e) /\ Reported(e)

(* No step changes what is at a destination. *)
Stable == \A d \in Dests : dirs[d] # Absent => dirs'[d] = dirs[d]

LEMMA Apart == \A e \in Exporters : e \in Names /\ e \notin Dests
  BY ArtifactAssumption DEF Names

LEMMA DestNames == \A d \in Dests : d \in Names /\ d \notin Exporters
  BY ArtifactAssumption DEF Names

LEMMA OrdinaryKeeps ==
  ASSUME ExporterInv, NEW e \in Exporters, Ordinary(e)
  PROVE  ExporterInv' /\ Stable
  <1>1. ExporterTypes'
    BY DEF Ordinary
  <1>2. \A d \in Dests : dirs'[d] = dirs[d]
    BY Apart, DestNames DEF Ordinary
  <1>3. ASSUME NEW x \in Exporters, x # e
        PROVE  pc'[x] = pc[x] /\ request'[x] = request[x] /\ outcome'[x] = outcome[x] /\ dirs'[x] = dirs[x]
    BY <1>3, Apart DEF Ordinary, Alone
  <1>4. ASSUME NEW x \in Exporters PROVE Staged(x)'
    <2>1. CASE x = e
      BY <2>1 DEF Ordinary
    <2>2. CASE x # e
      BY <1>3, <2>2 DEF Staged, ExporterInv
    <2>3. QED BY <2>1, <2>2
  <1>5. ASSUME NEW x \in Exporters PROVE Left(x)'
    <2>1. CASE x = e
      <3>1. \A d \in Dests : ~(dirs[d] # Absent /\ dirs[d].by = e)
        BY DEF Ordinary, ExporterInv, Left, LeftAt
      <3>2. QED BY <1>2, <2>1, <3>1 DEF Left, LeftAt
    <2>2. CASE x # e
      BY <1>2, <1>3, <2>2 DEF Left, ExporterInv
    <2>3. QED BY <2>1, <2>2
  <1>6. ASSUME NEW x \in Exporters PROVE Reported(x)'
    <2>1. CASE x = e
      BY <2>1 DEF Ordinary, Reported
    <2>2. CASE x # e
      BY <1>2, <1>3, <2>2 DEF Reported, Published, ExporterInv
    <2>3. QED BY <2>1, <2>2
  <1>7. QED BY <1>1, <1>2, <1>4, <1>5, <1>6 DEF ExporterInv, Stable

LEMMA PublishingKeeps ==
  ASSUME ExporterInv, NEW e \in Exporters, Publishes(e)
  PROVE  ExporterInv' /\ Stable
  <1> DEFINE d == request[e].dest
  <1>1. /\ ExporterTypes' /\ pc[e] = "publish" /\ pc'[e] = "done" /\ request'[e] = request[e]
        /\ outcome'[e] = IF request[e].verify THEN "verified" ELSE "prepared"
        /\ d \in Dests /\ dirs[d] = Absent /\ dirs'[d] = dirs[e] /\ Staged(e)'
    BY DEF Publishes
  <1>2. \A n \in Names \ {e, d} : dirs'[n] = dirs[n]
    BY DEF Publishes
  <1>3. pc[e] \in Working /\ Staged(e)
    BY <1>1 DEF Working, ExporterInv
  <1>4. /\ request[e] \in Request /\ dirs[e] \in Project /\ dirs[e] # Absent
        /\ dirs[e].by = e /\ Identified(dirs[e].prov)
    BY <1>3, WorkingProject DEF ExporterInv
  <1>5. /\ Complete(dirs[e])
        /\ request[e].verify => dirs[e].claim \subseteq Sound
        /\ ~request[e].verify => dirs[e].manifest = Listed(dirs[e])
    BY <1>1, <1>3 DEF Staged, StagedAt, Working, Complete
  <1> HIDE DEF d
  <1>6. \A c \in Dests : c # d => dirs'[c] = dirs[c]
    BY <1>2, Apart, DestNames
  <1>7. ASSUME NEW x \in Exporters, x # e
        PROVE  pc'[x] = pc[x] /\ request'[x] = request[x] /\ outcome'[x] = outcome[x] /\ dirs'[x] = dirs[x]
    BY <1>1, <1>2, <1>7, Apart DEF Publishes, Alone
  <1>8. ASSUME NEW x \in Exporters PROVE Staged(x)'
    <2>1. CASE x = e
      BY <1>1, <2>1
    <2>2. CASE x # e
      BY <1>7, <2>2 DEF Staged, ExporterInv
    <2>3. QED BY <2>1, <2>2
  <1>9. outcome'[e] \in Success
    BY <1>1 DEF Success
  <1>10. ASSUME NEW x \in Exporters PROVE Left(x)'
    <2>1. CASE x = e
      <3>1. LeftAt(e, pc'[e], request'[e], outcome'[e], dirs'[d])
        BY <1>1, <1>4, <1>5, <1>9 DEF LeftAt
      <3>2. \A c \in Dests : c # d => ~(dirs[c] # Absent /\ dirs[c].by = e)
        BY <1>1 DEF ExporterInv, Left, LeftAt
      <3>3. \A c \in Dests : c # d => LeftAt(e, pc'[e], request'[e], outcome'[e], dirs'[c])
        BY <1>6, <3>2 DEF LeftAt
      <3>4. QED BY <2>1, <3>1, <3>3 DEF Left
    <2>2. CASE x # e
      <3>1. LeftAt(x, pc'[x], request'[x], outcome'[x], dirs'[d])
        BY <1>1, <1>4, <2>2 DEF LeftAt
      <3>2. \A c \in Dests : c # d => LeftAt(x, pc'[x], request'[x], outcome'[x], dirs'[c])
        BY <1>6, <1>7, <2>2 DEF Left, ExporterInv
      <3>3. QED BY <3>1, <3>2 DEF Left
    <2>3. QED BY <2>1, <2>2
  <1>11. ASSUME NEW x \in Exporters PROVE Reported(x)'
    <2>1. CASE x = e
      BY <1>1, <1>4, <2>1 DEF Reported, Published
    <2>2. CASE x # e
      <3>1. SUFFICES ASSUME outcome'[x] \in Success PROVE Published(x)'
        BY DEF Reported
      <3>2. PICK c \in Dests : dirs[c] # Absent /\ dirs[c].by = x
        BY <1>7, <2>2, <3>1 DEF Reported, Published, ExporterInv
      <3>3. dirs'[c] = dirs[c]
        BY <1>1, <1>6, <3>2
      <3>4. QED BY <3>2, <3>3 DEF Published
    <2>3. QED BY <2>1, <2>2
  <1>12. QED BY <1>1, <1>6, <1>8, <1>10, <1>11 DEF ExporterInv, Stable

LEMMA VerifierApart ==
  ASSUME Discover \/ Verifying \/ UNCHANGED vars
  PROVE  UNCHANGED <<dirs, exporterVars>>
  BY DEF Discover, Verifying, ReadManifest, ValidateFiles, OpenEnvironment, CheckSource, ExecutionFails,
         Record, vars

LEMMA ExporterInvInit ==
  ASSUME Init PROVE ExporterInv
  <1>1. \A e \in Exporters :
           dirs[e] = Absent /\ pc[e] = "idle" /\ request[e] = None /\ outcome[e] = None
    BY Apart DEF Init
  <1>2. \A d \in Dests : dirs[d] = Present[d]
    BY DestNames DEF Init
  <1>3. ExporterTypes
    BY ArtifactAssumption, NoneApart DEF Init, ExporterTypes, Names
  <1>4. \A e \in Exporters : Staged(e) /\ Reported(e)
    BY <1>1, NoneApart DEF Staged, StagedAt, Working, Reported
  <1>5. \A e \in Exporters : Left(e)
    BY <1>2, ArtifactAssumption DEF Left, LeftAt
  <1>6. QED BY <1>3, <1>4, <1>5 DEF ExporterInv

LEMMA ExporterInvStep ==
  ASSUME ExporterInv, [Next]_vars PROVE ExporterInv' /\ Stable
  <1>1. ASSUME NEW e \in Exporters, Calls(e) \/ Exporting(e) \/ Killed(e)
        PROVE  ExporterInv' /\ Stable
    BY <1>1, ExporterSteps, OrdinaryKeeps, PublishingKeeps DEF ExporterInv
  <1>2. ASSUME Discover \/ Verifying \/ UNCHANGED vars
        PROVE  ExporterInv' /\ Stable
    <2>1. UNCHANGED <<dirs, pc, request, outcome>>
      BY <1>2, VerifierApart DEF exporterVars
    <2>2. QED BY <2>1 DEF ExporterInv, ExporterTypes, Staged, Left, Reported, Published, Stable
  <1>3. QED BY <1>1, <1>2 DEF Next

-----------------------------------------------------------------------------
(* The verifier, while exporters go on                                      *)

(* A name that is in use and will not be used for another project.          *)
Settled(n) == (n \in Exporters => pc[n] # "idle") /\ (n \in Dests => dirs[n] # Absent)

SameOrGone(n) == dirs'[n] = dirs[n] \/ dirs'[n] = Absent \/ Keeps(dirs[n], dirs'[n])

Accepted(n) == dirs[n] # Absent => dirs[n].source \subseteq Sound /\ Pinned(dirs[n].prov)

VerifierTypes ==
    /\ vpc \in {"idle", "next", "files", "open", "source", "done"}
    /\ failFast \in BOOLEAN
    /\ todo \subseteq Names /\ project \in Names \cup {None}
    /\ manifest \in Manifest \cup {None}
    /\ DOMAIN results \subseteq Names /\ \A n \in DOMAIN results : results[n] \in Statuses
    /\ exit \in (0..4) \cup {-1, -2}

Reading == vpc \in {"files", "open", "source"}

VerifierInv ==
    /\ VerifierTypes
    /\ vpc # "done" => exit = -1
    /\ \A n \in todo \cup DOMAIN results : Settled(n)
    /\ Reading => project \in Names /\ Settled(project)
    /\ vpc \in {"open", "source"} => (dirs[project] # Absent => Pinned(dirs[project].prov))
    /\ \A n \in DOMAIN results : results[n] = "verified" => Accepted(n)
    /\ exit = 0 => /\ todo = {} /\ results # << >>
                   /\ \A n \in DOMAIN results : results[n] = "verified"

LEMMA Steady ==
  ASSUME ExporterInv, NEW e \in Exporters, Calls(e) \/ Exporting(e) \/ Killed(e),
         NEW n \in Names, Settled(n)
  PROVE  Settled(n)' /\ SameOrGone(n) /\ UNCHANGED verifierVars
  <1>1. CASE Ordinary(e)
    <2>1. CASE n = e
      BY <1>1, <2>1, Apart DEF Ordinary, Alone, Settled, SameOrGone
    <2>2. CASE n # e
      <3>1. dirs'[n] = dirs[n]
        BY <1>1, <2>2 DEF Ordinary
      <3>2. n \in Exporters => pc'[n] = pc[n]
        BY <1>1, <2>2 DEF Ordinary, Alone
      <3>3. QED BY <1>1, <3>1, <3>2 DEF Ordinary, Alone, Settled, SameOrGone
    <2>3. QED BY <2>1, <2>2
  <1>2. CASE Publishes(e)
    <2>1. /\ pc'[e] = "done" /\ dirs'[e] = Absent /\ UNCHANGED verifierVars
          /\ request[e].dest \in Dests /\ dirs[request[e].dest] = Absent
      BY <1>2 DEF Publishes, Alone
    <2>2. CASE n = e
      BY <2>1, <2>2, Apart DEF Settled, SameOrGone
    <2>3. CASE n # e
      <3>1. n # request[e].dest
        BY <2>1 DEF Settled
      <3>2. dirs'[n] = dirs[n]
        BY <1>2, <2>3, <3>1 DEF Publishes
      <3>3. n \in Exporters => pc'[n] = pc[n]
        BY <1>2, <2>3 DEF Publishes, Alone
      <3>4. QED BY <2>1, <3>2, <3>3 DEF Settled, SameOrGone
    <2>4. QED BY <2>2, <2>3
  <1>3. QED BY <1>1, <1>2, ExporterSteps DEF ExporterInv

LEMMA ExportingKeepsVerifier ==
  ASSUME ExporterInv, VerifierInv, NEW e \in Exporters, Calls(e) \/ Exporting(e) \/ Killed(e)
  PROVE  VerifierInv'
  <1>1. UNCHANGED <<vpc, failFast, todo, project, manifest, results, exit>>
    BY ExporterSteps DEF ExporterInv, Ordinary, Publishes, Alone, verifierVars
  <1>2. \A n \in Names : Settled(n) => Settled(n)' /\ SameOrGone(n)
    BY Steady
  <1>3. todo \subseteq Names /\ DOMAIN results \subseteq Names
    BY DEF VerifierInv, VerifierTypes
  <1>4. VerifierTypes' /\ (vpc' # "done" => exit' = -1)
    BY <1>1 DEF VerifierInv, VerifierTypes
  <1>5. \A n \in todo' \cup DOMAIN results' : Settled(n)'
    BY <1>1, <1>2, <1>3 DEF VerifierInv
  <1>6. Reading' => project' \in Names /\ Settled(project)'
    BY <1>1, <1>2 DEF VerifierInv, Reading, Settled
  <1>7. vpc' \in {"open", "source"} => (dirs'[project'] # Absent => Pinned(dirs'[project'].prov))
    <2>1. SUFFICES ASSUME vpc \in {"open", "source"}, dirs'[project] # Absent
                   PROVE  Pinned(dirs'[project].prov)
      BY <1>1
    <2>2. SameOrGone(project) /\ (dirs[project] # Absent => Pinned(dirs[project].prov))
      BY <1>2, <2>1 DEF VerifierInv, Reading
    <2>3. QED BY <2>1, <2>2 DEF SameOrGone, Keeps
  <1>8. \A n \in DOMAIN results' : results'[n] = "verified" => Accepted(n)'
    <2>1. SUFFICES ASSUME NEW n \in DOMAIN results, results[n] = "verified", dirs'[n] # Absent
                   PROVE  dirs'[n].source \subseteq Sound /\ Pinned(dirs'[n].prov)
      BY <1>1 DEF Accepted
    <2>2. SameOrGone(n) /\ Accepted(n)
      BY <1>2, <1>3, <2>1 DEF VerifierInv
    <2>3. QED BY <2>1, <2>2 DEF SameOrGone, Keeps, Accepted
  <1>9. exit' = 0 => /\ todo' = {} /\ results' # << >>
                     /\ \A n \in DOMAIN results' : results'[n] = "verified"
    BY <1>1 DEF VerifierInv
  <1>10. QED BY <1>4, <1>5, <1>6, <1>7, <1>8, <1>9 DEF VerifierInv

(* The end, without exit code 0. *)
LEMMA FinishKeeps ==
  ASSUME VerifierInv, NEW code \in {2, -2}, Finish(code),
         UNCHANGED <<dirs, exporterVars, results>>, failFast' \in BOOLEAN,
         todo' \subseteq todo
  PROVE  VerifierInv'
  <1>1. UNCHANGED <<dirs, pc, results>> /\ vpc' = "done" /\ exit' = code /\ project' = None /\ manifest' = None
    BY DEF Finish, Forget, exporterVars
  <1>2. VerifierTypes'
    BY <1>1 DEF VerifierInv, VerifierTypes
  <1>3. \A n : (Settled(n)' <=> Settled(n)) /\ (Accepted(n)' <=> Accepted(n))
    BY <1>1 DEF Settled, Accepted
  <1>4. QED BY <1>1, <1>2, <1>3 DEF VerifierInv, Reading

LEMMA RecordKeeps ==
  ASSUME VerifierInv, Reading, NEW status \in Statuses, Record(status),
         status = "verified" => Accepted(project)
  PROVE  VerifierInv'
  <1>1. /\ results' = [m \in DOMAIN results \cup {project} |-> IF m = project THEN status ELSE results[m]]
        /\ UNCHANGED <<dirs, pc, failFast, todo>>
    BY DEF Record, Add, exporterVars
  <1>2. project \in Names /\ Settled(project)
    BY DEF VerifierInv
  <1>3. /\ DOMAIN results' = DOMAIN results \cup {project}
        /\ results'[project] = status
        /\ \A n \in DOMAIN results' : n # project => n \in DOMAIN results /\ results'[n] = results[n]
    <2> DEFINE names == DOMAIN results \cup {project}
    <2>1. DOMAIN results' = names
      BY <1>1
    <2>2. \A n \in names : results'[n] = IF n = project THEN status ELSE results[n]
      BY <1>1
    <2> HIDE DEF names
    <2>3. project \in names /\ \A n \in names : n # project => n \in DOMAIN results
      BY DEF names
    <2>4. QED BY <2>1, <2>2, <2>3 DEF names
  <1>4. project' = None /\ manifest' = None /\ vpc' \in {"done", "next"}
    BY DEF Record, Finish, Forget
  <1>5. DOMAIN results' \subseteq Names /\ \A n \in DOMAIN results' : results'[n] \in Statuses
    BY <1>2, <1>3 DEF VerifierInv, VerifierTypes
  <1>6. CASE vpc' = "next" /\ exit' = exit
    <2>1. exit = -1
      BY DEF VerifierInv, Reading
    <2>2. VerifierTypes'
      BY <1>1, <1>4, <1>5, <1>6, <2>1 DEF VerifierInv, VerifierTypes
    <2>3. QED BY <1>1, <1>2, <1>3, <1>4, <1>6, <2>1, <2>2 DEF VerifierInv, Reading, Settled, Accepted
  <1>7. CASE /\ todo = {} \/ Halts(status)
             /\ Finish(ExitCode({results'[n] : n \in DOMAIN results'}))
    <2> DEFINE statuses == {results'[n] : n \in DOMAIN results'}
    <2>1. vpc' = "done" /\ exit' = ExitCode(statuses)
      BY <1>7 DEF Finish
    <2>2. exit' \in 0..4
      BY <2>1 DEF ExitCode
    <2>3. statuses \subseteq Statuses /\ status \in statuses
      BY <1>3, <1>5
    <2> HIDE DEF statuses
    <2>4. exit' = 0 => statuses \subseteq {"verified"}
      BY <2>1, <2>3 DEF ExitCode, Statuses
    <2>5. VerifierTypes'
      BY <1>1, <1>4, <1>5, <2>1, <2>2 DEF VerifierInv, VerifierTypes
    <2>6. exit' = 0 => /\ todo' = {} /\ results' # << >>
                       /\ \A n \in DOMAIN results' : results'[n] = "verified"
      <3>1. SUFFICES ASSUME exit' = 0
                     PROVE  /\ todo' = {} /\ results' # << >>
                            /\ \A n \in DOMAIN results' : results'[n] = "verified"
        OBVIOUS
      <3>2. status = "verified"
        BY <2>3, <2>4, <3>1
      <3>3. todo' = {}
        BY <1>1, <1>7, <3>2 DEF Halts
      <3>4. \A n \in DOMAIN results' : results'[n] = "verified"
        BY <2>4, <3>1 DEF statuses
      <3>5. results' # << >>
        BY <1>3
      <3>6. QED BY <3>3, <3>4, <3>5
    <2>7. QED BY <1>1, <1>2, <1>3, <1>4, <2>1, <2>5, <2>6 DEF VerifierInv, Reading, Settled, Accepted
  <1>8. QED BY <1>6, <1>7 DEF Record, Forget

LEMMA DiscoverKeeps ==
  ASSUME ExporterInv, VerifierInv, Discover PROVE VerifierInv'
  <1>1. /\ vpc = "idle" /\ exit = -1 /\ failFast' \in BOOLEAN /\ UNCHANGED <<dirs, pc, exporterVars, results>>
        /\ \A n \in todo' : n \in Names /\ HasManifest(n)
    BY DEF Discover, VerifierInv, exporterVars, Names
  <1>2. \A n \in todo' : Settled(n)
    BY <1>1 DEF HasManifest, Settled, ExporterInv, Staged, StagedAt
  <1>3. CASE Finish(2) /\ todo' = {}
    BY <1>1, <1>3, FinishKeeps
  <1>4. CASE vpc' = "next" /\ UNCHANGED <<exit, project, manifest>>
    <2>1. VerifierTypes'
      BY <1>1, <1>4 DEF VerifierInv, VerifierTypes
    <2>2. \A n : (Settled(n)' <=> Settled(n)) /\ (Accepted(n)' <=> Accepted(n))
      BY <1>1 DEF Settled, Accepted
    <2>3. QED BY <1>1, <1>2, <1>4, <2>1, <2>2 DEF VerifierInv, Reading
  <1>5. QED BY <1>3, <1>4 DEF Discover

LEMMA ReadManifestKeeps ==
  ASSUME ExporterInv, VerifierInv, ReadManifest PROVE VerifierInv'
  <1>1. PICK n \in todo :
             /\ project' = n /\ todo' = todo \ {n} /\ vpc' = "files"
             /\ manifest' = IF HasManifest(n) THEN dirs[n].manifest ELSE None
    BY DEF ReadManifest
  <1>2. vpc = "next" /\ exit = -1 /\ UNCHANGED <<dirs, pc, failFast, results, exit>>
    BY DEF ReadManifest, VerifierInv, exporterVars
  <1>3. n \in Names /\ Settled(n)
    BY DEF VerifierInv, VerifierTypes
  <1>4. manifest' \in Manifest \cup {None}
    <2>1. CASE HasManifest(n)
      <3>1. dirs[n] \in Project
        BY <1>3, <2>1 DEF HasManifest, ExporterInv, ExporterTypes
      <3>2. QED BY <1>1, <2>1, <3>1 DEF Project
    <2>2. CASE ~HasManifest(n)
      BY <1>1, <2>2
    <2>3. QED BY <2>1, <2>2
  <1>5. VerifierTypes'
    BY <1>1, <1>2, <1>3, <1>4 DEF VerifierInv, VerifierTypes
  <1>6. \A x : (Settled(x)' <=> Settled(x)) /\ (Accepted(x)' <=> Accepted(x))
    BY <1>2 DEF Settled, Accepted
  <1>7. QED BY <1>1, <1>2, <1>3, <1>5, <1>6 DEF VerifierInv, Reading

(* From one step of the verifier to the next one about the same project. *)
LEMMA GoesOn ==
  ASSUME VerifierInv, Reading, UNCHANGED <<dirs, exporterVars, failFast, todo, project, manifest, results, exit>>,
         vpc' \in {"open", "source"},
         dirs[project] # Absent => Pinned(dirs[project].prov)
  PROVE  VerifierInv'
  <1>1. UNCHANGED <<dirs, pc>>
    BY DEF exporterVars
  <1>2. VerifierTypes'
    BY DEF VerifierInv, VerifierTypes
  <1>3. \A n : (Settled(n)' <=> Settled(n)) /\ (Accepted(n)' <=> Accepted(n))
    BY <1>1 DEF Settled, Accepted
  <1>4. project \in Names /\ Settled(project) /\ exit = -1
    BY DEF VerifierInv, Reading
  <1>5. QED BY <1>1, <1>2, <1>3, <1>4 DEF VerifierInv

LEMMA VerifyingKeeps ==
  ASSUME ExporterInv, VerifierInv, Verifying PROVE VerifierInv'
  <1>1. CASE ReadManifest
    BY <1>1, ReadManifestKeeps
  <1>2. CASE ValidateFiles
    <2>1. Reading
      BY <1>2 DEF ValidateFiles, Reading
    <2>2. CASE Record("invalid_artifact")
      BY <2>1, <2>2, RecordKeeps DEF Statuses
    <2>3. CASE Validates(dirs[project], manifest) /\ vpc' = "open"
               /\ UNCHANGED <<dirs, exporterVars, failFast, todo, project, manifest, results, exit>>
      BY <2>1, <2>3, GoesOn DEF Validates
    <2>4. QED BY <1>2, <2>2, <2>3 DEF ValidateFiles
  <1>3. CASE OpenEnvironment
    <2>1. Reading /\ (dirs[project] # Absent => Pinned(dirs[project].prov))
      BY <1>3 DEF OpenEnvironment, Reading, VerifierInv
    <2>2. CASE Record("infrastructure_failure")
      BY <2>1, <2>2, RecordKeeps DEF Statuses
    <2>3. CASE vpc' = "source" /\ UNCHANGED <<dirs, exporterVars, failFast, todo, project, manifest, results, exit>>
      BY <2>1, <2>3, GoesOn
    <2>4. CASE Finish(-2) /\ UNCHANGED <<dirs, exporterVars, failFast, todo, results>>
      BY <2>4, FinishKeeps DEF VerifierInv, VerifierTypes
    <2>5. QED BY <1>3, <2>2, <2>3, <2>4 DEF OpenEnvironment
  <1>4. CASE CheckSource
    <2>1. Reading /\ (dirs[project] # Absent => Pinned(dirs[project].prov))
      BY <1>4 DEF CheckSource, Reading, VerifierInv
    <2>2. CASE Finish(2) /\ UNCHANGED <<dirs, exporterVars, failFast, todo, results>>
      BY <2>2, FinishKeeps DEF VerifierInv, VerifierTypes
    <2>3. ASSUME NEW answer \in Replayed(dirs[project].source),
                 Record(CASE answer = "verified" -> "verified"
                          [] answer = "mismatch" -> "verification_failed"
                          [] answer = "limit" -> "resource_limit")
          PROVE  VerifierInv'
      <3>1. CASE answer = "verified"
        <4>1. Record("verified")
          BY <2>3, <3>1
        <4>2. Accepted(project)
          BY <2>1, <2>3, <3>1 DEF Replayed, Accepted
        <4>3. QED BY <2>1, <4>1, <4>2, RecordKeeps DEF Statuses
      <3>2. CASE answer = "mismatch"
        BY <2>1, <2>3, <3>2, RecordKeeps DEF Statuses
      <3>3. CASE answer = "limit"
        BY <2>1, <2>3, <3>3, RecordKeeps DEF Statuses
      <3>4. QED BY <3>1, <3>2, <3>3 DEF Replayed
    <2>4. QED BY <1>4, <2>2, <2>3 DEF CheckSource
  <1>5. CASE ExecutionFails
    <2>1. Reading /\ Record("infrastructure_failure")
      BY <1>5 DEF ExecutionFails, Reading
    <2>2. QED BY <2>1, RecordKeeps DEF Statuses
  <1>6. QED BY <1>1, <1>2, <1>3, <1>4, <1>5 DEF Verifying

LEMMA VerifierInvInit ==
  ASSUME Init PROVE VerifierInv
  <1>1. DOMAIN results = {}
    <2>1. DOMAIN << >> = {}
      OBVIOUS
    <2>2. QED BY <2>1 DEF Init
  <1>2. /\ vpc = "idle" /\ failFast = FALSE /\ todo = {} /\ project = None /\ manifest = None
        /\ exit = -1
    BY DEF Init
  <1>3. VerifierTypes
    BY <1>1, <1>2 DEF VerifierTypes
  <1>4. QED BY <1>1, <1>2, <1>3 DEF VerifierInv, Reading

LEMMA VerifierInvStep ==
  ASSUME ExporterInv, VerifierInv, [Next]_vars PROVE VerifierInv'
  <1>1. CASE UNCHANGED vars
    <2>1. UNCHANGED <<dirs, pc, vpc, failFast, todo, project, manifest, results, exit>>
      BY <1>1 DEF vars, exporterVars, verifierVars
    <2>2. VerifierTypes'
      BY <2>1 DEF VerifierInv, VerifierTypes
    <2>3. \A n : (Settled(n)' <=> Settled(n)) /\ (Accepted(n)' <=> Accepted(n))
      BY <2>1 DEF Settled, Accepted
    <2>4. QED BY <2>1, <2>2, <2>3 DEF VerifierInv, Reading
  <1>2. CASE \E e \in Exporters : Calls(e) \/ Exporting(e) \/ Killed(e)
    BY <1>2, ExportingKeepsVerifier
  <1>3. CASE Discover
    BY <1>3, DiscoverKeeps
  <1>4. CASE Verifying
    BY <1>4, VerifyingKeeps
  <1>5. QED BY <1>1, <1>2, <1>3, <1>4 DEF Next

-----------------------------------------------------------------------------
Inv == ExporterInv /\ VerifierInv

(* Every behaviour keeps the invariant, and what is at a destination. *)
THEOREM Invariance == Spec => []Inv /\ [][Stable]_vars
  <1>1. Init => Inv
    BY ExporterInvInit, VerifierInvInit DEF Inv
  <1>2. Inv /\ [Next]_vars => Inv' /\ Stable
    BY ExporterInvStep, VerifierInvStep DEF Inv
  <1>3. QED BY <1>1, <1>2, PTL DEF Spec

(* Every variable keeps its type. *)
THEOREM TypeCorrect == Spec => []TypeOK
  <1>1. Inv => TypeOK
    BY DEF Inv, ExporterInv, VerifierInv, ExporterTypes, VerifierTypes, TypeOK
  <1>2. QED BY <1>1, Invariance, PTL

(* What an exporter leaves at its destination is complete at every moment,  *)
(* and when a rebuild was requested the kernel accepted the proved claim.   *)
THEOREM AtomicPublicationAlways == Spec => []AtomicPublication
  <1>1. Inv => AtomicPublication
    BY DEF Inv, ExporterInv, Left, LeftAt, AtomicPublication
  <1>2. QED BY <1>1, Invariance, PTL

(* An exporter reports a project exactly when it published one.             *)
THEOREM ReportedAsPublishedAlways == Spec => []ReportedAsPublished
  <1>1. Inv => ReportedAsPublished
    BY DEF Inv, ExporterInv, Left, LeftAt, Reported, Published, ReportedAsPublished
  <1>2. QED BY <1>1, Invariance, PTL

(* An export that was not killed leaves no staging directory behind.        *)
THEOREM NoLitterAlways == Spec => []NoLitter
  <1>1. Inv => NoLitter
    BY DEF Inv, ExporterInv, Staged, StagedAt, NoLitter
  <1>2. QED BY <1>1, Invariance, PTL

(* All or nothing: a complete project that is reported, or no trace.         *)
THEOREM AllOrNothingAlways == Spec => []AllOrNothing
  <1>1. AtomicPublication /\ ReportedAsPublished /\ NoLitter => AllOrNothing
    BY DEF AllOrNothing
  <1>2. QED BY <1>1, AtomicPublicationAlways, ReportedAsPublishedAlways, NoLitterAlways, PTL

(* What was published without a rebuild validates for a later verifier.     *)
THEOREM PreparedValidatesAlways == Spec => []PreparedValidates
  <1>1. Inv => PreparedValidates
    <2>1. SUFFICES ASSUME Inv, NEW d \in Dests, NEW e \in Exporters,
                          dirs[d] # Absent, dirs[d].by = e, outcome[e] = "prepared",
                          Pinned(dirs[d].prov), dirs[d].prov.toolchain = "released"
                   PROVE  Validates(dirs[d], dirs[d].manifest)
      BY DEF PreparedValidates
    <2>2. Complete(dirs[d]) /\ dirs[d].manifest = Listed(dirs[d]) /\ Identified(dirs[d].prov)
      BY <2>1 DEF Inv, ExporterInv, Left, LeftAt
    <2>3. Required \subseteq dirs[d].files
      BY <2>2, AllWritten DEF Complete
    <2>4. QED BY <2>1, <2>2, <2>3 DEF Validates, Complete, Listed, Identified
  <1>2. QED BY <1>1, Invariance, PTL

(* A project at a destination is never replaced nor changed.                *)
THEOREM NeverOverwrittenAlways == Spec => NeverOverwritten
  <1>1. [Stable]_vars => [\A d \in Dests : dirs[d] # Absent => dirs'[d] = dirs[d]]_vars
    BY DEF Stable
  <1>2. QED BY <1>1, Invariance, PTL DEF NeverOverwritten

(* Exit code 0: all that was discovered is verified, and stays so.          *)
THEOREM ExitZeroAlways == Spec => []ExitZero
  <1>1. Inv => ExitZero
    BY DEF Inv, VerifierInv, Accepted, ExitZero
  <1>2. QED BY <1>1, Invariance, PTL

-----------------------------------------------------------------------------
(* The exporters implement Shelf                                            *)

OnShelf == {Item(d) : d \in {x \in Dests : dirs[x] # Absent}}
Orders  == {Order(e) : e \in {x \in Exporters : request[x] # None}}
Answers == {Told(e) : e \in {x \in Exporters : outcome[x] # None}}

(* e is told `what`, and was told nothing before. *)
Tells(e, what) ==
  /\ \A a \in Answers : a.client # e
  /\ Answers' = Answers \cup {[client |-> e, said |-> what]}

(* The steps of the shelf, in terms of the exporters' state. *)
LEMMA TakesOrder ==
  ASSUME NEW e \in Exporters, \A o \in Orders : o.client # e,
         NEW order, order.client = e, Orders' = Orders \cup {order},
         Answers' = Answers \/ Tells(e, "failed"), OnShelf' = OnShelf
  PROVE  Promise!Next
  BY DEF Promise!Next, Promise!Order, Promise!Tell, Tells, OnShelf, Orders, Answers

LEMMA Fails ==
  ASSUME NEW order \in Orders, Tells(order.client, "failed"), OnShelf' = OnShelf, Orders' = Orders
  PROVE  Promise!Next
  BY DEF Promise!Next, Promise!Fail, Promise!Tell, Tells, OnShelf, Orders, Answers

LEMMA Delivers ==
  ASSUME NEW order \in Orders, \A item \in OnShelf : item.place # order.place,
         NEW item, Promise!Fulfils(item, order), OnShelf' = OnShelf \cup {item},
         Tells(order.client, IF order.rebuild THEN "verified" ELSE "prepared"), Orders' = Orders
  PROVE  Promise!Next
  BY DEF Promise!Next, Promise!Deliver, Promise!Tell, Tells, OnShelf, Orders, Answers

LEMMA ShelfStutters ==
  ASSUME OnShelf' = OnShelf, Orders' = Orders, Answers' = Answers
  PROVE  UNCHANGED Promise!vars
  BY DEF Promise!vars, OnShelf, Orders, Answers

(* Who was told something, and who ordered. *)
LEMMA WhoAsked ==
  /\ \A a \in Answers : \E e \in Exporters : outcome[e] # None /\ a.client = e
  /\ \A o \in Orders : \E e \in Exporters : request[e] # None /\ o.client = e
  BY DEF Answers, Told, Orders, Order

(* What a step of e means for the orders and for the answers. *)
LEMMA AnswersAfter ==
  ASSUME NEW e \in Exporters, \A x \in Exporters \ {e} : outcome'[x] = outcome[x],
         outcome'[e] = outcome[e] \/ outcome[e] = None
  PROVE  \/ Answers' = Answers
         \/ /\ outcome[e] = None /\ outcome'[e] # None
            /\ Tells(e, IF outcome'[e] \in Success THEN outcome'[e] ELSE "failed")
  <1>1. \A x \in Exporters \ {e} : Told(x)' = Told(x)
    BY DEF Told
  <1>2. CASE outcome'[e] = outcome[e]
    <2>1. \A x \in Exporters : Told(x)' = Told(x) /\ outcome'[x] = outcome[x]
      BY <1>1, <1>2 DEF Told
    <2>2. QED BY <2>1 DEF Answers
  <1>3. CASE outcome[e] = None /\ outcome'[e] # None
    <2>1. Answers = {Told(x) : x \in {y \in Exporters \ {e} : outcome[y] # None}}
      BY <1>3 DEF Answers
    <2>2. Answers' = {Told(x)' : x \in {y \in Exporters \ {e} : outcome[y] # None}} \cup {Told(e)'}
      BY <1>3 DEF Answers
    <2>3. Answers' = Answers \cup {Told(e)'}
      BY <1>1, <2>1, <2>2
    <2>4. \A a \in Answers : a.client # e
      BY <1>3, WhoAsked
    <2>5. QED BY <1>3, <2>3, <2>4 DEF Tells, Told
  <1>4. QED BY <1>2, <1>3

LEMMA OrdersAfter ==
  ASSUME NEW e \in Exporters, \A x \in Exporters \ {e} : request'[x] = request[x]
  PROVE  /\ request'[e] = request[e] => Orders' = Orders
         /\ request[e] = None /\ request'[e] # None =>
              /\ \A o \in Orders : o.client # e
              /\ Orders' = Orders \cup {Order(e)'}
  <1>1. \A x \in Exporters \ {e} : Order(x)' = Order(x)
    BY DEF Order, Ordered
  <1>2. CASE request'[e] = request[e]
    <2>1. \A x \in Exporters : Order(x)' = Order(x) /\ request'[x] = request[x]
      BY <1>1, <1>2 DEF Order, Ordered
    <2>2. Orders' = Orders
      BY <2>1 DEF Orders
    <2>3. QED BY <1>2, <2>2
  <1>3. CASE request[e] = None /\ request'[e] # None
    <2>1. Orders = {Order(x) : x \in {y \in Exporters \ {e} : request[y] # None}}
      BY <1>3 DEF Orders
    <2>2. Orders' = {Order(x)' : x \in {y \in Exporters \ {e} : request[y] # None}} \cup {Order(e)'}
      BY <1>3 DEF Orders
    <2>3. Orders' = Orders \cup {Order(e)'}
      BY <1>1, <2>1, <2>2
    <2>4. \A o \in Orders : o.client # e
      BY <1>3, WhoAsked
    <2>5. QED BY <1>3, <2>3, <2>4
  <1>4. QED BY <1>2, <1>3

(* Any step but a publication takes an order, fails one, or is not seen. *)
LEMMA OrdinaryImplements ==
  ASSUME ExporterInv, NEW e \in Exporters, Ordinary(e)
  PROVE  Promise!Next \/ UNCHANGED Promise!vars
  <1>1. /\ Once(e, request'[e], outcome'[e]) /\ outcome'[e] \notin Success
        /\ \A x \in Exporters \ {e} : request'[x] = request[x] /\ outcome'[x] = outcome[x]
    BY DEF Ordinary, Alone
  <1>2. OnShelf' = OnShelf
    <2>1. \A d \in Dests : dirs'[d] = dirs[d]
      BY Apart, DestNames DEF Ordinary
    <2>2. QED BY <2>1 DEF OnShelf, Item, Complete
  <1>3. Answers' = Answers \/ (outcome[e] = None /\ outcome'[e] # None /\ Tells(e, "failed"))
    BY <1>1, AnswersAfter DEF Once
  <1>4. CASE request'[e] = request[e]
    <2>1. Orders' = Orders
      BY <1>1, <1>4, OrdersAfter
    <2>2. CASE Answers' = Answers
      BY <1>2, <2>1, <2>2, ShelfStutters
    <2>3. CASE outcome[e] = None /\ outcome'[e] # None /\ Tells(e, "failed")
      <3>1. request[e] # None
        BY <1>1, <1>4, <2>3 DEF Once
      <3>2. Order(e) \in Orders /\ Order(e).client = e
        BY <3>1 DEF Orders, Order
      <3>3. QED BY <1>2, <2>1, <2>3, <3>2, Fails
    <2>4. QED BY <1>3, <2>2, <2>3
  <1>5. CASE request[e] = None /\ request'[e] # None
    <2>1. (\A o \in Orders : o.client # e) /\ Orders' = Orders \cup {Order(e)'}
      BY <1>1, <1>5, OrdersAfter
    <2>2. Order(e)'.client = e
      BY DEF Order
    <2>3. QED BY <1>2, <1>3, <2>1, <2>2, TakesOrder
  <1>6. QED BY <1>1, <1>4, <1>5 DEF Once

(* A publication is a delivery. *)
LEMMA PublishingImplements ==
  ASSUME ExporterInv, NEW e \in Exporters, Publishes(e)
  PROVE  Promise!Next
  <1>0. PICK d \in Dests : d = request[e].dest
    BY DEF Publishes
  <1>1. /\ pc[e] = "publish" /\ dirs[d] = Absent /\ dirs'[d] = dirs[e]
        /\ outcome'[e] = IF request[e].verify THEN "verified" ELSE "prepared"
        /\ \A x \in Exporters \ {e} : outcome'[x] = outcome[x]
        /\ request' = request
    BY <1>0 DEF Publishes, Alone
  <1>2. \A c \in Dests \ {d} : dirs'[c] = dirs[c]
    BY <1>0, Apart, DestNames DEF Publishes
  <1>3. pc[e] \in Working /\ Staged(e)
    BY <1>1 DEF Working, ExporterInv
  <1>4. /\ request[e] \in Request /\ outcome[e] = None /\ dirs[e] # Absent /\ dirs[e].by = e
        /\ dirs[e].claim = Ordered(request[e])
    BY <1>3, WorkingProject DEF ExporterInv
  <1>5. Complete(dirs[e]) /\ (request[e].verify => dirs[e].claim \subseteq Sound)
    BY <1>1, <1>3 DEF Staged, StagedAt, Working, Complete
  <1>6. request[e] # None
    BY <1>4, NoneApart
  <1>7. /\ Order(e) \in Orders /\ Order(e).client = e /\ Order(e).place = d
        /\ Order(e).claim = Ordered(request[e]) /\ Order(e).rebuild = request[e].verify
    BY <1>0, <1>6 DEF Orders, Order
  <1>8. \A item \in OnShelf : item.place # d
    BY <1>1 DEF OnShelf, Item
  <1>9. OnShelf' = OnShelf \cup {Item(d)'}
    <2>1. \A c \in Dests \ {d} : Item(c)' = Item(c)
      BY <1>2 DEF Item, Complete
    <2>2. OnShelf = {Item(c) : c \in {x \in Dests \ {d} : dirs[x] # Absent}}
      BY <1>1 DEF OnShelf
    <2>3. OnShelf' = {Item(c)' : c \in {x \in Dests \ {d} : dirs[x] # Absent}} \cup {Item(d)'}
      BY <1>1, <1>2, <1>4 DEF OnShelf
    <2>4. QED BY <2>1, <2>2, <2>3
  <1>10. Item(d)' = [place |-> d, project |-> dirs[e], whole |-> Complete(dirs[e])]
    BY <1>1 DEF Item, Complete
  <1>11. Promise!Fulfils(Item(d)', Order(e))
    BY <1>4, <1>5, <1>7, <1>10 DEF Promise!Fulfils
  <1>12. outcome'[e] # None /\ outcome'[e] \in Success
    BY <1>1, NoneApart DEF Success
  <1>13. Tells(e, IF request[e].verify THEN "verified" ELSE "prepared")
    <2>1. ~(Answers' = Answers)
      <3>1. Told(e)' \in Answers' /\ Told(e)'.client = e
        BY <1>12 DEF Answers, Told
      <3>2. \A a \in Answers : a.client # e
        BY <1>4, WhoAsked
      <3>3. QED BY <3>1, <3>2
    <2>2. QED BY <1>1, <1>4, <1>12, <2>1, AnswersAfter
  <1>14. Orders' = Orders
    BY <1>1 DEF Orders, Order, Ordered
  <1>15. QED BY <1>7, <1>8, <1>9, <1>11, <1>13, <1>14, Delivers

LEMMA ShelfStep ==
  ASSUME ExporterInv, [Next]_vars PROVE Promise!Next \/ UNCHANGED Promise!vars
  <1>1. ASSUME NEW e \in Exporters, Calls(e) \/ Exporting(e) \/ Killed(e)
        PROVE  Promise!Next \/ UNCHANGED Promise!vars
    BY <1>1, ExporterSteps, OrdinaryImplements, PublishingImplements DEF ExporterInv
  <1>2. ASSUME Discover \/ Verifying \/ UNCHANGED vars
        PROVE  UNCHANGED Promise!vars
    <2>1. UNCHANGED <<dirs, request, outcome>>
      BY <1>2, VerifierApart DEF exporterVars
    <2>2. OnShelf' = OnShelf /\ Orders' = Orders /\ Answers' = Answers
      BY <2>1 DEF OnShelf, Item, Complete, Orders, Order, Ordered, Answers, Told
    <2>3. QED BY <2>2, ShelfStutters
  <1>3. QED BY <1>1, <1>2 DEF Next

LEMMA ShelfInit == Init => Promise!Init
  <1>1. SUFFICES ASSUME Init PROVE Promise!Init
    OBVIOUS
  <1>2. Orders = {} /\ Answers = {}
    BY <1>1 DEF Init, Orders, Answers
  <1>3. ASSUME NEW item \in OnShelf PROVE item.project.by \notin Exporters
    <2>1. PICK d \in Dests : dirs[d] # Absent /\ item = Item(d)
      BY <1>3 DEF OnShelf
    <2>2. dirs[d].by = "user"
      BY <1>1, <2>1, DestNames, ArtifactAssumption DEF Init
    <2>3. QED BY <2>1, <2>2, ArtifactAssumption DEF Item
  <1>4. QED BY <1>2, <1>3 DEF Promise!Init, OnShelf, Orders, Answers

(* Exporters with their staging directories, failures, races and kills do   *)
(* nothing but take an order each, deliver it whole or fail it.             *)
THEOREM ImplementsShelf == Spec => ShelfSpec
  <1>1. Init => Promise!Init
    BY ShelfInit
  <1>2. Inv /\ [Next]_vars => [Promise!Next]_Promise!vars
    BY ShelfStep DEF Inv
  <1>3. QED BY <1>1, <1>2, Invariance, PTL DEF Spec, ShelfSpec, Promise!Spec
=============================================================================
