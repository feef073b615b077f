------------------------------ MODULE Delivery -------------------------------
(***************************************************************************)
(* What the way of a sample set to the repositories promises, without the  *)
(* queue, the consumers and the whiteboard: a set that is on its way to a  *)
(* repository stays so until the repository has stored it, or a copy of it *)
(* was lost; only what is on its way is stored or lost; and a set comes on *)
(* its way when it is sent, or sent again.                                 *)
(***************************************************************************)
EXTENDS Naturals, Sequences

CONSTANT Repositories

VARIABLES submitted,  \* number of sets that were sent
          open,       \* <<r, x>>: a copy of set x is on its way to repository r
          stored,     \* repository -> the sets that it was given, in order
          lost        \* <<r, x>>: a copy of set x was lost on its way to r

DeliveryVars == <<submitted, open, stored, lost>>

DeliveryInit ==
    submitted = 0 /\ open = {} /\ stored = [r \in Repositories |-> <<>>] /\ lost = {}

(* A new set is on its way to all repositories, or lost to all of them.    *)
Submit ==
    /\ submitted' = submitted + 1
    /\ LET new == Repositories \X {submitted + 1}
       IN  \/ open' = open \cup new /\ UNCHANGED lost
           \/ lost' = lost \cup new /\ UNCHANGED open
    /\ UNCHANGED stored

(* What leaves, apart from the pairs in P, is lost, and nothing else is.   *)
Leaves(P) ==
    /\ open' \subseteq open /\ open \ open' \subseteq P \cup lost'
    /\ lost \subseteq lost' /\ lost' \subseteq lost \cup open

Drop == Leaves({}) /\ UNCHANGED <<submitted, stored>>

(* Repository r is given set x; those after it may miss it.                *)
Deliver(r, x) ==
    /\ <<r, x>> \in open
    /\ stored' = [stored EXCEPT ![r] = Append(@, x)]
    /\ Leaves({<<r, x>>})
    /\ UNCHANGED submitted

(* A set is sent once more.                                                *)
SendAgain(x) ==
    /\ open' = open \cup (Repositories \X {x})
    /\ UNCHANGED <<submitted, stored, lost>>

DeliveryNext ==
    \/ Submit \/ Drop
    \/ \E r \in Repositories : \E x \in 1..submitted : Deliver(r, x)
    \/ \E x \in 1..submitted : SendAgain(x)

DeliverySpec == DeliveryInit /\ [][DeliveryNext]_DeliveryVars

(* So no set vanishes.                                                     *)
NoneVanishes ==
    \A r \in Repositories : \A x \in 1..submitted :
       (\E k \in DOMAIN stored[r] : stored[r][k] = x) \/ <<r, x>> \in open \cup lost
=============================================================================
