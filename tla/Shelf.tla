-------------------------------- MODULE Shelf --------------------------------
(***************************************************************************)
(* What exporting promises, without staging directories, writes, renames    *)
(* and kills: a client orders a project for a place; the project appears    *)
(* there whole, in one step and for good, with the theorems that were       *)
(* ordered, or the client is told that it will not; and a project that was  *)
(* to be rebuilt first states nothing that the kernel does not accept.      *)
(***************************************************************************)
CONSTANTS
    Clients,   \* who orders
    Accepted   \* the theorems of which the kernel accepts the proof

VARIABLES
    shelf,     \* what is there: [place, project, whole]
    orders,    \* what was ordered: [client, place, claim, rebuild]
    answers    \* what clients were told: [client, said]

vars == <<shelf, orders, answers>>

(* What is there at the start was made by somebody else. *)
Init ==
    /\ \A item \in shelf : item.project.by \notin Clients
    /\ orders = {} /\ answers = {}

(* A client is told one thing. *)
Tell(c, what) ==
    /\ \A a \in answers : a.client # c
    /\ answers' = answers \cup {[client |-> c, said |-> what]}

(* A client's only order is taken, or turned down at once. *)
Order(c) ==
    /\ \A order \in orders : order.client # c
    /\ \E order \in orders' : order.client = c /\ orders' = orders \cup {order}
    /\ UNCHANGED answers \/ Tell(c, "failed")
    /\ UNCHANGED shelf

Fulfils(item, order) ==
    /\ item.place = order.place /\ item.whole
    /\ item.project.by = order.client /\ item.project.claim = order.claim
    /\ order.rebuild => order.claim \subseteq Accepted

(* Only to a place where nothing is. *)
Deliver(order) ==
    /\ \A item \in shelf : item.place # order.place
    /\ \E item \in shelf' : Fulfils(item, order) /\ shelf' = shelf \cup {item}
    /\ Tell(order.client, IF order.rebuild THEN "verified" ELSE "prepared")
    /\ UNCHANGED orders

Fail(order) == Tell(order.client, "failed") /\ UNCHANGED <<shelf, orders>>

Next ==
    \/ \E c \in Clients : Order(c)
    \/ \E order \in orders : Deliver(order) \/ Fail(order)

Spec == Init /\ [][Next]_vars
=============================================================================
