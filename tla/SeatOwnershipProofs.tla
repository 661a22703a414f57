------------------------ MODULE SeatOwnershipProofs ------------------------
(***************************************************************************)
(* SeatOwnership keeps its own promise, for any seats and purchases.  What *)
(* implements it inherits both theorems.                                   *)
(***************************************************************************)
EXTENDS SeatOwnership, TLAPS

Inv == TypeOK /\ Exclusive

LEMMA TakeKeeps ==
  ASSUME Inv, NEW k \in Keys, NEW S \in SUBSET Seats, Take(k, S)
  PROVE  Inv'
<1> USE DEF Inv, Take
<1>1. /\ claim'[k] = S /\ phase'[k] = "holding"
      /\ \A l \in Keys \ {k} : claim'[l] = claim[l] /\ phase'[l] = phase[l]
  BY DEF TypeOK
<1>2. TypeOK'
  <2>1. /\ claim' \in [Keys -> SUBSET Seats]
        /\ phase' \in [Keys -> {"new", "holding", "paid", "over"}]
    BY DEF TypeOK
  <2>2. \A l \in Keys : claim'[l] # {} <=> phase'[l] \in {"holding", "paid"}
    BY <1>1 DEF TypeOK
  <2> QED
    BY <2>1, <2>2 DEF TypeOK
<1>3. Exclusive'
  BY <1>1 DEF TypeOK, Exclusive
<1> QED
  BY <1>2, <1>3

\* Paying keeps the claim, giving up empties it.
LEMMA EndKeeps ==
  ASSUME Inv, NEW k \in Keys, Pay(k) \/ GiveUp(k)
  PROVE  Inv'
<1> USE DEF Inv
<1>1. /\ \A l \in Keys \ {k} : claim'[l] = claim[l] /\ phase'[l] = phase[l]
      /\ claim'[k] = IF Pay(k) THEN claim[k] ELSE {}
  BY DEF Pay, GiveUp, TypeOK
<1>2. TypeOK'
  BY DEF Pay, GiveUp, TypeOK
<1>3. Exclusive'
  BY <1>1 DEF Exclusive
<1> QED
  BY <1>2, <1>3

\* A purchase has seats while it is under way and no two have one seat.
THEOREM OwnershipKept == Spec => [](TypeOK /\ Exclusive)
<1>1. Init => Inv
  BY DEF Init, Inv, TypeOK, Exclusive
<1>2. Inv /\ [Next]_vars => Inv'
  <2>1. CASE UNCHANGED vars
    BY <2>1 DEF vars, Inv, TypeOK, Exclusive
  <2> QED
    BY <2>1, TakeKeeps, EndKeeps DEF Next
<1> QED
  BY <1>1, <1>2, PTL DEF Spec, Inv
=============================================================================
