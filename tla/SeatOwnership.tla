--------------------------- MODULE SeatOwnership ---------------------------
(***************************************************************************)
(* What reserved seating of an event without sessions promises, told       *)
(* without rows, clocks, retries or background tasks.  A purchase takes a  *)
(* set of seats nobody has, keeps exactly these until it is paid for or    *)
(* over, and when it is over it has no seats and never gets any again.     *)
(***************************************************************************)
EXTENDS FiniteSets

CONSTANTS Seats, Keys

VARIABLES
    claim,   \* the seats each purchase has
    phase    \* "new", "holding", "paid" or "over"

vars == <<claim, phase>>

Init ==
    /\ claim = [k \in Keys |-> {}]
    /\ phase = [k \in Keys |-> "new"]

Take(k, S) ==
    /\ phase[k] = "new"
    /\ S # {}
    /\ \A l \in Keys : claim[l] \cap S = {}
    /\ claim' = [claim EXCEPT ![k] = S]
    /\ phase' = [phase EXCEPT ![k] = "holding"]

Pay(k) ==
    /\ phase[k] = "holding"
    /\ phase' = [phase EXCEPT ![k] = "paid"]
    /\ UNCHANGED claim

\* The hold lapses, the payment fails or the paid order is cancelled.
GiveUp(k) ==
    /\ phase[k] \in {"holding", "paid"}
    /\ claim' = [claim EXCEPT ![k] = {}]
    /\ phase' = [phase EXCEPT ![k] = "over"]

Next ==
    \E k \in Keys :
        \/ \E S \in SUBSET Seats : Take(k, S)
        \/ Pay(k)
        \/ GiveUp(k)

Spec == Init /\ [][Next]_vars

----------------------------------------------------------------------------
\* Claims are sets of seats, and exactly the purchases under way have some.
TypeOK ==
    /\ claim \in [Keys -> SUBSET Seats]
    /\ phase \in [Keys -> {"new", "holding", "paid", "over"}]
    /\ \A k \in Keys : claim[k] # {} <=> phase[k] \in {"holding", "paid"}

\* No seat belongs to two purchases.  (what EventSeat.status is there for)
Exclusive ==
    \A k, l \in Keys : k # l => claim[k] \cap claim[l] = {}
=============================================================================
