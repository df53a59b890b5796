----------------------------- MODULE DomainCover -----------------------------
(***************************************************************************)
(* What adaptive verification promises, without its queue, its threads and  *)
(* its limits: a domain is cut into pieces that always cover it and never   *)
(* overlap, each piece is checked on its own, and the claim is reported     *)
(* verified only when every piece has been.                                 *)
(***************************************************************************)
EXTENDS Naturals

CONSTANT Points        \* the points of the domain

VARIABLES
    wrong,             \* the points at which the claim fails
    pieces,            \* the current pieces of the domain
    proved,            \* the pieces on which the claim was checked
    verdict            \* what was reported

vars == <<wrong, pieces, proved, verdict>>

Verdicts == {"open", "verified", "unverified", "raised"}

TypeOK ==
    /\ wrong \subseteq Points
    /\ pieces \subseteq SUBSET Points
    /\ proved \subseteq pieces
    /\ verdict \in Verdicts

Init ==
    /\ wrong \subseteq Points
    /\ pieces = {Points}
    /\ proved = {}
    /\ verdict = "open"

(* A piece is checked: possible only where the claim holds.                 *)
Prove(p) ==
    /\ verdict = "open"
    /\ p \in pieces \ proved
    /\ p \cap wrong = {}
    /\ proved' = proved \cup {p}
    /\ UNCHANGED <<wrong, pieces, verdict>>

(* A piece that was not checked is cut in two; part is one of the new ones.  *)
Refine(p) ==
    /\ verdict = "open"
    /\ p \in pieces \ proved
    /\ \E part \in pieces' :
         /\ part \subseteq p /\ part # {} /\ part # p
         /\ pieces' = (pieces \ {p}) \cup {part, p \ part}
    /\ UNCHANGED <<wrong, proved, verdict>>

Conclude ==
    /\ verdict = "open"
    /\ verdict' = IF pieces = proved THEN "verified" ELSE "unverified"
    /\ UNCHANGED <<wrong, pieces, proved>>

(* An exception ends the call without a report. *)
Abort ==
    /\ verdict = "open"
    /\ verdict' = "raised"
    /\ UNCHANGED <<wrong, pieces, proved>>

Next ==
    \/ \E p \in pieces : Prove(p) \/ Refine(p)
    \/ Conclude
    \/ Abort

Spec == Init /\ [][Next]_vars

-----------------------------------------------------------------------------
(* The pieces cover the domain and do not overlap. *)
Partition ==
    /\ UNION pieces = Points
    /\ \A p, q \in pieces : p # q => p \cap q = {}

(* A verified claim holds everywhere on the domain: the promise of           *)
(* AdaptiveResult.verified.                                                   *)
Sound == verdict = "verified" => wrong = {}
=============================================================================
