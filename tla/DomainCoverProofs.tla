--------------------------- MODULE DomainCoverProofs ---------------------------
(***************************************************************************)
(* What the abstract cover promises, for every set of points.               *)
(***************************************************************************)
EXTENDS DomainCover, TLAPS

(* Where the claim was checked, it holds. *)
ProvedHolds == \A p \in proved : p \cap wrong = {}

CoverInv == TypeOK /\ Partition /\ ProvedHolds /\ Sound

LEMMA RefineStep ==
    ASSUME CoverInv, NEW p \in pieces, Refine(p) PROVE CoverInv'
<1>1. PICK part : /\ part \subseteq p /\ part # {} /\ part # p
                  /\ pieces' = (pieces \ {p}) \cup {part, p \ part}
  BY DEF Refine
<1>2. /\ p \notin proved /\ verdict = "open"
      /\ wrong' = wrong /\ proved' = proved /\ verdict' = verdict
  BY DEF Refine
<1>3. TypeOK'
  BY <1>1, <1>2 DEF CoverInv, TypeOK
<1>4. UNION pieces' = Points
  <2>1. UNION pieces = Points
    BY DEF CoverInv, Partition
  <2>2. ASSUME NEW x \in Points PROVE x \in UNION pieces'
    <3>1. PICK u \in pieces : x \in u
      BY <2>1
    <3>2. CASE u = p
      <4>1. x \in part \/ x \in p \ part
        BY <3>1, <3>2
      <4>2. part \in pieces' /\ (p \ part) \in pieces'
        BY <1>1
      <4> QED BY <4>1, <4>2
    <3>3. CASE u # p
      BY <1>1, <3>1, <3>3
    <3> QED BY <3>2, <3>3
  <2>3. ASSUME NEW u \in pieces', NEW x \in u PROVE x \in Points
    <3>1. u \in pieces \/ u \subseteq p
      BY <1>1
    <3> QED BY <2>1, <2>3, <3>1
  <2> QED BY <2>2, <2>3
<1>5. ASSUME NEW q \in pieces', NEW r \in pieces', q # r PROVE q \cap r = {}
  <2>1. \A u \in pieces \ {p} : u \cap p = {}
    BY DEF CoverInv, Partition
  <2>2. q \in pieces \ {p} \/ q = part \/ q = p \ part
    BY <1>1
  <2>3. r \in pieces \ {p} \/ r = part \/ r = p \ part
    BY <1>1
  <2>4. CASE q \in pieces \ {p} /\ r \in pieces \ {p}
    BY <1>5, <2>4 DEF CoverInv, Partition
  <2>5. CASE q \in pieces \ {p} /\ r \notin pieces \ {p}
    <3>1. q \cap p = {} /\ r \subseteq p
      BY <1>1, <2>1, <2>3, <2>5
    <3> QED BY <3>1
  <2>6. CASE q \notin pieces \ {p} /\ r \in pieces \ {p}
    <3>1. r \cap p = {} /\ q \subseteq p
      BY <1>1, <2>1, <2>2, <2>6
    <3> QED BY <3>1
  <2>7. CASE q \notin pieces \ {p} /\ r \notin pieces \ {p}
    <3>1. q = part \/ q = p \ part
      BY <2>2, <2>7
    <3>2. r = part \/ r = p \ part
      BY <2>3, <2>7
    <3>3. part \cap (p \ part) = {}
      OBVIOUS
    <3> QED BY <1>5, <3>1, <3>2, <3>3, Zenon
  <2> QED BY <2>4, <2>5, <2>6, <2>7
<1> QED BY <1>2, <1>3, <1>4, <1>5 DEF CoverInv, Partition, ProvedHolds, Sound

LEMMA ConcludeStep ==
    ASSUME CoverInv, Conclude PROVE CoverInv'
<1>1. wrong' = wrong /\ pieces' = pieces /\ proved' = proved
  BY DEF Conclude
<1>2. verdict' = "verified" => pieces = proved
  BY DEF Conclude
<1>3. verdict' \in Verdicts
  BY DEF Conclude, Verdicts
<1>4. ASSUME pieces = proved PROVE wrong = {}
  BY <1>4 DEF CoverInv, TypeOK, Partition, ProvedHolds
<1> QED BY <1>1, <1>2, <1>3, <1>4 DEF CoverInv, TypeOK, Partition, ProvedHolds, Sound

LEMMA CoverInvariant == Spec => []CoverInv
<1>1. Init => CoverInv
  BY DEF Init, CoverInv, TypeOK, Partition, ProvedHolds, Sound, Verdicts
<1>2. CoverInv /\ [Next]_vars => CoverInv'
  <2> SUFFICES ASSUME CoverInv, [Next]_vars PROVE CoverInv'
    OBVIOUS
  <2>1. ASSUME NEW p \in pieces, Prove(p) PROVE CoverInv'
    BY <2>1 DEF Prove, CoverInv, TypeOK, Partition, ProvedHolds, Sound
  <2>2. CASE Abort
    BY <2>2 DEF Abort, CoverInv, TypeOK, Partition, ProvedHolds, Sound, Verdicts
  <2>3. CASE UNCHANGED vars
    BY <2>3 DEF vars, CoverInv, TypeOK, Partition, ProvedHolds, Sound
  <2> QED BY <2>1, <2>2, <2>3, RefineStep, ConcludeStep DEF Next
<1> QED BY <1>1, <1>2, PTL DEF Spec

(* The pieces always cover the domain and never overlap: what the volumes    *)
(* of AdaptiveResult count.                                                  *)
THEOREM AlwaysPartition == Spec => []Partition
<1>1. CoverInv => Partition
  BY DEF CoverInv
<1> QED BY <1>1, CoverInvariant, PTL

(* A report "verified" means that the claim holds at every point: whatever   *)
(* implements the cover inherits the promise of AdaptiveResult.verified.     *)
THEOREM CoverIsSound == Spec => []Sound
<1>1. CoverInv => Sound
  BY DEF CoverInv
<1> QED BY <1>1, CoverInvariant, PTL
=============================================================================
