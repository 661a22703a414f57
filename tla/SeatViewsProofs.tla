--------------------------- MODULE SeatViewsProofs ---------------------------
(***************************************************************************)
(* Proofs about SeatViews.  The views change no row, so everything proved  *)
(* of SeatBooking holds beside them.                                       *)
(***************************************************************************)
EXTENDS SeatViews, SeatBookingProofs, FiniteSetTheorems, NaturalsInduction,
        WellFoundedInduction

\* A map request only reads: with the views the rows behave as without them.
THEOREM ViewsOnlyRead == SpecViews => Spec
<1>1. InitViews => Init
  BY DEF InitViews
<1>2. [NextViews]_shownVars => [Next]_vars
  BY DEF NextViews, OpenMap, ReadSold, Moment, AnswerMap, BookingStep, shownVars
<1> QED
  BY <1>1, <1>2, PTL DEF Spec, SpecViews

\* The two readers of the rows agree whatever the rows say.
LEMMA MapNowExact ==
  ASSUME TypeOK, NEW session \in AnySession
  PROVE  {s \in HallSeats : MapNow(s, session) = "available"} = FreeSeats(session)
<1> USE HallAssumption DEF HallSeats, FreeSeats, MapNow, SeatStatusForSession, SeatTaken, OrderedIn, HeldIn
<1>1. CASE session = NoSession
  BY <1>1 DEF TypeOK, SeatStatus
<1>2. CASE session # NoSession
  BY <1>2 DEF SoldIds, ReservedIds, Live
<1> QED
  BY <1>1, <1>2

\* The seat map offers exactly what reserve_seats accepts, for every event.
THEOREM MapIsExact == SpecViews => []MapOffersWhatSells
<1>1. TypeOK => MapOffersWhatSells
  BY MapNowExact DEF MapOffersWhatSells
<1> QED
  BY <1>1, ViewsOnlyRead, TypeCorrect, PTL

LEMMA FreeIsTheRest ==
  ASSUME TypeOK, NEW session \in AnySession
  PROVE  /\ FreeSeats(session) = Seats \ (SoldSeats(session) \cup ReservedSeats(session))
         /\ SoldSeats(session) \subseteq Seats
         /\ ReservedSeats(session) \subseteq Seats
<1> USE DEF FreeSeats, SeatTaken, OrderedIn, HeldIn, SoldSeats, ReservedSeats
<1>1. CASE session = NoSession
  BY <1>1 DEF TypeOK, SeatStatus
<1>2. CASE session # NoSession
  BY <1>2 DEF SoldIds, ReservedIds, Live
<1> QED
  BY <1>1, <1>2

\* Sold and reserved seats are counted once each and are exactly the refused
\* ones, for every event.
THEOREM CountsAreExact == SpecViews => []CountsAgree
<1>1. ASSUME TypeOK, NEW session \in AnySession
      PROVE  CountSold(session) + CountReserved(session) = Cardinality(Seats \ FreeSeats(session))
  <2>1. PICK sold, reserved, free :
            /\ sold = SoldSeats(session) /\ reserved = ReservedSeats(session)
            /\ free = FreeSeats(session)
    OBVIOUS
  <2>2. /\ Seats \ free = sold \cup (reserved \ sold)
        /\ sold \cap (reserved \ sold) = {}
        /\ sold \subseteq Seats /\ reserved \subseteq Seats
    BY <1>1, <2>1, FreeIsTheRest
  <2>3. IsFiniteSet(sold) /\ IsFiniteSet(reserved \ sold)
    BY <2>2, HallAssumption, FS_Subset
  <2>4. Cardinality(sold) \in Nat /\ Cardinality(reserved \ sold) \in Nat
    BY <2>3, FS_CardinalityType
  <2>5. Cardinality(sold \cup (reserved \ sold)) = Cardinality(sold)
            + Cardinality(reserved \ sold) - Cardinality(sold \cap (reserved \ sold))
    BY <2>3, FS_Union
  <2>6. Cardinality(sold \cap (reserved \ sold)) = 0
    BY <2>2, FS_EmptySet
  <2>7. Cardinality(Seats \ free) = Cardinality(sold) + Cardinality(reserved \ sold) - 0
    BY <2>2, <2>5, <2>6
  <2> QED
    BY <2>1, <2>4, <2>7 DEF CountSold, CountReserved
<1>2. TypeOK => CountsAgree
  BY <1>1 DEF CountsAgree
<1> QED
  BY <1>2, ViewsOnlyRead, TypeCorrect, PTL

----------------------------------------------------------------------------
\* While a map is under way its history covers the present moment, what it
\* has read covers what it was, and an order paid for since the orders were
\* read was free, or somebody else's as well, before it was paid.
HistoryCovers ==
    view # "idle" =>
        /\ FreeSeats(view_session) \subseteq was_free
        /\ Seats \ FreeSeats(view_session) \subseteq was_taken
        /\ Contested(view_session) \subseteq contested

RowsReadHonest ==
    view = "rows" /\ view_session = NoSession =>
        \A s \in Seats : IF rows_read[s] = "available" THEN s \in was_free ELSE s \in was_taken

SoldSince ==
    IF view = "sold"
    THEN /\ view_session # NoSession
         /\ read_at <= now
         /\ sold_read \subseteq was_taken
         /\ SoldIds(view_session) \ sold_read \subseteq was_free \cup contested
    ELSE sold_read = {}

HeldSince == view = "sold" => ReservedIds(view_session, read_at) \subseteq was_taken

ViewInv == ViewTypeOK /\ HistoryCovers /\ RowsReadHonest /\ SoldSince /\ HeldSince

LEMMA InitViewInv == InitViews => ViewInv
BY TimeAssumption DEF InitViews, ViewInv, ViewTypeOK, HistoryCovers, RowsReadHonest, SoldSince,
   HeldSince, AnySession, SeatStatus

\* What a step of the booking can add to the two sets of ids.
LEMMA BookingChanges ==
  ASSUME IndInv, Next, HoldTime > 0, NEW k \in Keys
  PROVE  /\ reservation'[k] = "active" =>
                (reservation[k] = "active" /\ hold'[k] = hold[k]) \/ Live(k)'
         /\ order'[k] = "confirmed" =>
                /\ hold'[k] = hold[k]
                /\ order[k] = "confirmed"
                        \/ (order[k] = "reserved" /\ reservation[k] = "confirmed")
<1> DEFINE Goal ==
        /\ reservation'[k] = "active" =>
                (reservation[k] = "active" /\ hold'[k] = hold[k]) \/ Live(k)'
        /\ order'[k] = "confirmed" =>
                /\ hold'[k] = hold[k]
                /\ order[k] = "confirmed"
                        \/ (order[k] = "reserved" /\ reservation[k] = "confirmed")
<1>0. TypeOK /\ RowsAgree
  BY DEF IndInv
<1>1. CASE UNCHANGED <<reservation, hold, order>>
  BY <1>1
<1>2. ASSUME NEW l \in Keys, NEW S, NEW session, NEW time \in Nat, time + HoldTime > now,
             HoldSeats(l, S, session, time)
      PROVE  Goal
  <2>1. CASE k = l
    <3>1. hold'[k].until = time + HoldTime /\ now' = now /\ reservation'[k] = "active"
      BY <1>0, <1>2, <2>1 DEF HoldSeats, TypeOK
    <3>2. Live(k)'
      BY <1>0, <1>2, <3>1, TimeAssumption DEF Live, TypeOK
    <3>3. order'[k] = "none"
      BY <1>0, <1>2, <2>1 DEF HoldSeats, RowsAgree
    <3> QED
      BY <3>2, <3>3
  <2>2. CASE k # l
    <3>1. reservation'[k] = reservation[k] /\ hold'[k] = hold[k] /\ order'[k] = order[k]
      BY <1>0, <1>2, <2>2 DEF HoldSeats, TypeOK
    <3> QED
      BY <1>0, <3>1 DEF RowsAgree, TypeOK
  <2> QED
    BY <2>1, <2>2
<1>3. ASSUME NEW w \in Workers, CommitConfirm(w)
      PROVE  Goal
  BY <1>0, <1>3 DEF CommitConfirm, RowsAgree, TypeOK
<1>4. ASSUME NEW l \in Keys, CapturePayment(l)
      PROVE  Goal
  <2>1. payment[l] = "pending" => order[l] = "reserved" /\ reservation[l] = "confirmed"
    BY <1>0 DEF RowsAgree, TypeOK, ReservationStatus
  <2> QED
    BY <1>0, <1>4, <2>1 DEF CapturePayment, Payable, TypeOK
<1>5. ASSUME NEW l \in Keys, FailPayment(l) \/ CancelOrder(l)
      PROVE  Goal
  BY <1>0, <1>5 DEF FailPayment, CancelOrder, TypeOK
<1>6. ASSUME NEW t \in Sweepers, NEW l \in Keys, ReleaseHold(t, l)
      PROVE  Goal
  BY <1>0, <1>6 DEF ReleaseHold, TypeOK
<1>7. CASE TrialStep
  BY <1>1, <1>7, TrialsOnlyRead DEF rowVars
<1>8. ASSUME NEW l \in Keys, NEW S \in SUBSET Seats, ReserveSeats(l, S) PROVE Goal
  <2>1. now \in Nat /\ now + HoldTime > now
    BY <1>0, TimeAssumption DEF TypeOK
  <2> QED
    BY <1>2, <1>8, <2>1, WhatIsReserved
<1>9. ASSUME NEW l \in Keys, ReserveTested(l) PROVE Goal
  <2>1. trial[l].at \in Nat /\ now \in Nat
    BY <1>0, <1>9, WhatIsReserved, TimeAssumption DEF TypeOK
  <2>2. trial[l].at + HoldTime > now
    BY <1>9, <2>1, TimeAssumption DEF ReserveTested
  <2>3. HoldSeats(l, trial[l].seats, trial[l].session, trial[l].at)
    BY <1>9, WhatIsReserved
  <2> QED
    BY <1>2, <2>1, <2>2, <2>3
<1> QED
  BY <1>1, <1>3, <1>4, <1>5, <1>6, <1>7, <1>8, <1>9 DEF TrialStep, Next, Tick, Request, Sweep, CheckConfirm,
     RefuseConfirm, StartPayment, WorkerDies, StartSweep, SkipHold, SweeperDies, rowVars

\* The clock of SeatBooking is the views' clock and never goes back.
LEMMA TimeForward ==
  ASSUME TypeOK, [Next]_vars
  PROVE  now \in Nat /\ now' \in Nat /\ now <= now'
BY TimeAssumption
   DEF TypeOK, Next, Tick, Request, Sweep, ReserveSeats, HoldSeats, TestOrders, TestHolds,
       ReserveTested, LeaveTrial, CheckConfirm, CommitConfirm, RefuseConfirm, StartPayment, WorkerDies, CapturePayment, FailPayment, CancelOrder,
       StartSweep, ReleaseHold, SkipHold, SweeperDies, vars, rowVars

LEMMA BookingStepInv ==
  ASSUME IndInv, ViewInv, BookingStep, ViewTypeOK', HoldTime > 0
  PROVE  ViewInv'
<1> USE DEF BookingStep
<1>1. HistoryCovers' /\ RowsReadHonest'
  BY DEF ViewInv, HistoryCovers, RowsReadHonest
<1>2. ASSUME view = "sold", NEW s \in SoldIds(view_session)', s \notin sold_read
      PROVE  s \in was_free \cup contested
  <2>1. PICK k \in Keys :
            hold'[k].session = view_session /\ s \in hold'[k].seats /\ order'[k] = "confirmed"
    BY <1>2 DEF SoldIds
  <2>2. hold'[k] = hold[k]
        /\ (order[k] = "confirmed" \/ (order[k] = "reserved" /\ reservation[k] = "confirmed"))
    BY <2>1, BookingChanges
  <2>3. s \in Seats /\ view_session # NoSession
    BY <1>2 DEF SoldIds, ViewInv, SoldSince
  <2>4. CASE s \in SoldIds(view_session)
    BY <1>2, <2>4 DEF ViewInv, SoldSince
  <2>5. CASE s \in FreeSeats(view_session)
    BY <1>2, <2>5 DEF ViewInv, HistoryCovers
  <2>6. CASE s \notin SoldIds(view_session) /\ s \notin FreeSeats(view_session)
    <3>1. PICK l \in Keys :
              hold[l].session = view_session /\ s \in hold[l].seats /\ Live(l)
      BY <2>3, <2>6 DEF FreeSeats, SeatTaken, OrderedIn, HeldIn, SoldIds, Live
    <3>2. order[k] = "reserved" /\ reservation[k] = "confirmed" /\ k # l
      BY <2>1, <2>2, <2>3, <2>6, <3>1 DEF SoldIds, Live
    <3>3. s \in Contested(view_session)
      BY <2>1, <2>2, <2>3, <3>1, <3>2 DEF Contested, Owns, Live
    <3> QED
      BY <1>2, <3>3 DEF ViewInv, HistoryCovers
  <2> QED
    BY <2>4, <2>5, <2>6
<1>3. SoldSince'
  <2>1. now' >= now
    BY TimeForward DEF IndInv
  <2>2. read_at \in Nat /\ now \in Nat /\ now' \in Nat
    BY TimeForward, TimeAssumption DEF IndInv, ViewInv, ViewTypeOK
  <2> QED
    BY <1>2, <2>1, <2>2 DEF ViewInv, SoldSince
<1>4. ASSUME view = "sold", NEW s \in ReservedIds(view_session, read_at)'
      PROVE  s \in was_taken'
  <2>1. PICK k \in Keys :
            /\ hold'[k].session = view_session /\ s \in hold'[k].seats
            /\ reservation'[k] = "active" /\ hold'[k].until > read_at
    BY <1>4 DEF ReservedIds
  <2>2. s \in Seats /\ view_session # NoSession
    BY <1>4 DEF ReservedIds, ViewInv, SoldSince
  <2>3. CASE reservation[k] = "active" /\ hold'[k] = hold[k]
    BY <1>4, <2>1, <2>2, <2>3 DEF ReservedIds, ViewInv, HeldSince
  <2>4. CASE Live(k)'
    <3>1. s \notin FreeSeats(view_session)'
      BY <2>1, <2>2, <2>4 DEF FreeSeats, SeatTaken, OrderedIn, HeldIn, Live
    <3> QED
      BY <1>4, <2>2, <3>1
  <2> QED
    BY <2>1, <2>3, <2>4, BookingChanges
<1>5. HeldSince'
  BY <1>4 DEF HeldSince
<1> QED
  BY <1>1, <1>3, <1>5 DEF ViewInv

LEMMA ViewStepInv ==
  ASSUME IndInv, ViewInv, [NextViews]_shownVars
  PROVE  ViewTypeOK' /\ (~BookingStep => ViewInv')
<1>0. TypeOK /\ now \in 0..MaxTime /\ event_seats \in [Seats -> SeatStatus]
  BY DEF IndInv, TypeOK
<1>1. ASSUME NEW session \in AnySession, OpenMap(session) PROVE ViewInv'
  <2>1. ViewTypeOK'
    BY <1>0, <1>1 DEF OpenMap, ViewInv, ViewTypeOK, FreeSeats, Contested
  <2>2. UNCHANGED vars
    BY <1>1 DEF OpenMap
  <2>3. /\ FreeSeats(session)' = FreeSeats(session)
        /\ Contested(session)' = Contested(session)
    BY <2>2 DEF vars, rowVars, FreeSeats, SeatTaken, OrderedIn, HeldIn, Live, Contested, Owns
  <2>4. HistoryCovers'
    BY <1>1, <2>3 DEF OpenMap, HistoryCovers
  <2>5. RowsReadHonest'
    BY <1>1 DEF OpenMap, RowsReadHonest, FreeSeats, SeatTaken, OrderedIn, HeldIn
  <2> QED
    BY <1>1, <2>1, <2>4, <2>5 DEF OpenMap, ViewInv, SoldSince, HeldSince
<1>2. ASSUME ReadSold PROVE ViewInv'
  <2>1. ViewTypeOK'
    BY <1>0, <1>2 DEF ReadSold, Moment, ViewInv, ViewTypeOK, SoldIds
  <2>2. UNCHANGED vars
    BY <1>2 DEF ReadSold, Moment
  <2>3. /\ FreeSeats(view_session)' = FreeSeats(view_session)
        /\ Contested(view_session)' = Contested(view_session)
        /\ SoldIds(view_session)' = SoldIds(view_session)
        /\ ReservedIds(view_session, read_at)' = ReservedIds(view_session, now)
    BY <1>2, <2>2 DEF ReadSold, Moment, vars, rowVars, FreeSeats, SeatTaken, OrderedIn, HeldIn, Live, Contested, Owns,
       SoldIds, ReservedIds
  <2>4. HistoryCovers' /\ RowsReadHonest'
    BY <1>2, <2>3 DEF ReadSold, Moment, ViewInv, HistoryCovers, RowsReadHonest
  <2>5. SoldIds(view_session) \cup ReservedIds(view_session, now)
            \subseteq Seats \ FreeSeats(view_session)
    BY <1>2 DEF ReadSold, Moment, SoldIds, ReservedIds, FreeSeats, SeatTaken, OrderedIn, HeldIn, Live
  <2>6. SoldIds(view_session) \cup ReservedIds(view_session, now) \subseteq was_taken
    BY <1>2, <2>5 DEF ReadSold, Moment, ViewInv, HistoryCovers
  <2>7. SoldSince'
    <3>1. view' = "sold" /\ view_session' # NoSession /\ read_at' = now' /\ now' \in Nat
      BY <1>0, <1>2, <2>2, TimeAssumption DEF ReadSold, Moment, vars, rowVars
    <3>2. sold_read' = SoldIds(view_session)' /\ sold_read' \subseteq was_taken'
      BY <1>2, <2>3, <2>6 DEF ReadSold, Moment
    <3> QED
      BY <3>1, <3>2 DEF SoldSince
  <2>8. HeldSince'
    BY <1>2, <2>3, <2>6 DEF ReadSold, Moment, HeldSince
  <2> QED
    BY <2>1, <2>4, <2>7, <2>8 DEF ViewInv
<1>3. ASSUME AnswerMap PROVE ViewInv'
  BY <1>3, TimeAssumption DEF AnswerMap, ViewInv, ViewTypeOK, HistoryCovers, RowsReadHonest,
     SoldSince, HeldSince, AnySession, SeatStatus
<1>4. ASSUME BookingStep PROVE ViewTypeOK'
  BY <1>4 DEF BookingStep, ViewInv, ViewTypeOK, FreeSeats, Contested
<1>5. ASSUME UNCHANGED shownVars PROVE ViewInv'
  BY <1>5 DEF shownVars, viewVars, vars, rowVars, ViewInv, ViewTypeOK, HistoryCovers,
     RowsReadHonest, SoldSince, HeldSince, FreeSeats, SeatTaken, OrderedIn, HeldIn, Live, Contested, Owns,
     SoldIds, ReservedIds
<1> QED
  BY <1>1, <1>2, <1>3, <1>4, <1>5 DEF NextViews, ViewInv

\* The history and the reads of a map under way stay tied to the rows.
THEOREM ViewInvariance ==
  ASSUME HoldTime > 0
  PROVE  SpecViews => [](IndInv /\ ViewInv)
<1>1. IndInv /\ ViewInv /\ [NextViews]_shownVars => ViewInv'
  BY ViewStepInv, BookingStepInv
<1>2. SpecViews => []IndInv
  BY ViewsOnlyRead, Invariance, PTL
<1> QED
  BY <1>1, <1>2, InitViewInv, PTL DEF SpecViews

\* The view's variables keep their types, whatever the booking does.
THEOREM ViewTypeCorrect == ASSUME HoldTime > 0 PROVE SpecViews => []ViewTypeOK
BY ViewInvariance, PTL DEF ViewInv

\* No seat map is invented, for any number of buyers, seats and sessions.
THEOREM MapsAreHonest ==
  ASSUME HoldTime > 0
  PROVE  SpecViews => MapHonest
<1> DEFINE Honest ==
        \A s \in Seats : AnswerMap =>
            /\ Shown(s) = "available" => s \in was_free \cup contested
            /\ Shown(s) \in {"reserved", "sold"} => s \in was_taken
<1>1. ASSUME IndInv, ViewInv PROVE Honest
  <2> SUFFICES ASSUME NEW s \in Seats, AnswerMap
               PROVE  /\ Shown(s) = "available" => s \in was_free \cup contested
                      /\ Shown(s) \in {"reserved", "sold"} => s \in was_taken
    OBVIOUS
  <2>0. s \notin Blocked /\ s \notin Rowless
    BY HallAssumption
  <2>1. CASE view_session = NoSession
    BY <1>1, <2>0, <2>1 DEF AnswerMap, Shown, SeatStatusForSession, ReservedRead, ViewInv,
       ViewTypeOK, RowsReadHonest, SoldSince
  <2>2. CASE view_session # NoSession
    <3>1. view = "sold"
      BY <2>2 DEF AnswerMap
    <3>2. CASE s \in sold_read \/ s \in ReservedRead
      BY <1>1, <2>0, <2>2, <3>1, <3>2 DEF Shown, SeatStatusForSession, ReservedRead, ViewInv,
         SoldSince, HeldSince
    <3>3. CASE s \notin sold_read /\ s \notin ReservedRead
      <4>1. Shown(s) = "available"
        BY <2>0, <2>2, <3>3 DEF Shown, SeatStatusForSession
      <4>2. CASE s \in FreeSeats(view_session)
        BY <1>1, <3>1, <4>1, <4>2 DEF ViewInv, HistoryCovers
      <4>3. CASE s \notin FreeSeats(view_session)
        <5>1. PICK k \in Keys :
                  /\ hold[k].session = view_session /\ s \in hold[k].seats
                  /\ order[k] = "confirmed" \/ Live(k)
          BY <2>2, <4>3 DEF FreeSeats, SeatTaken, OrderedIn, HeldIn, Live
        <5>2. order[k] = "confirmed" => s \in was_free \cup contested
          BY <1>1, <3>1, <3>3, <5>1 DEF ViewInv, SoldSince, SoldIds
        <5>3. read_at \in Nat /\ now \in Nat /\ hold[k].until \in Nat /\ read_at <= now
          BY <1>1, <3>1, TimeAssumption DEF ViewInv, ViewTypeOK, SoldSince, IndInv, TypeOK, Hold
        <5>4. ~Live(k)
          BY <2>2, <3>3, <5>1, <5>3 DEF Live, ReservedRead, ReservedIds
        <5> QED
          BY <4>1, <5>1, <5>2, <5>4
      <4> QED
        BY <4>2, <4>3
    <3> QED
      BY <3>2, <3>3
  <2> QED
    BY <2>1, <2>2
<1>2. IndInv /\ ViewInv /\ [NextViews]_shownVars => [Honest]_shownVars
  BY <1>1
<1> QED
  BY ViewInvariance, <1>2, PTL DEF SpecViews, MapHonest

----------------------------------------------------------------------------
(***************************************************************************)
(* The next session.                                                       *)
(***************************************************************************)

\* Of some natural numbers one is the least.
LEMMA LeastNumber ==
  ASSUME NEW S \in SUBSET Nat, S # {}
  PROVE  \E m \in S : \A n \in S : m <= n
<1> DEFINE Less == {p \in Nat \X Nat : p[1] < p[2]}
<1>1. OpToRel(<, Nat) = Less
  BY DEF OpToRel
<1>2. PICK m \in S : \A n \in S : <<n, m>> \notin Less
  BY <1>1, NatLessThanWellFounded, WFMin
<1>3. ASSUME NEW n \in S PROVE m <= n
  <2>1. m \in Nat /\ n \in Nat /\ ~(n < m)
    BY <1>2
  <2> QED
    BY <2>1
<1> QED
  BY <1>3

\* Some session of a set starts before the others, and one starts last: the
\* one that the fewest start after.
LEMMA EarliestSession ==
  ASSUME NEW T \in SUBSET Sessions, T # {}
  PROVE  \E x \in T : \A y \in T : StartsAt[x] <= StartsAt[y]
<1> DEFINE Times == {StartsAt[x] : x \in T}
<1>1. Times \in SUBSET Nat /\ Times # {}
  BY StartAssumption
<1>2. PICK m \in Times : \A n \in Times : m <= n
  BY <1>1, LeastNumber
<1> QED
  BY <1>2

LEMMA LatestSession ==
  ASSUME Sessions # {}
  PROVE  \E x \in Sessions : \A y \in Sessions : StartsAt[x] >= StartsAt[y]
<1> DEFINE After(x) == {y \in Sessions : StartsAt[y] > StartsAt[x]}
           Counts == {Cardinality(After(x)) : x \in Sessions}
<1>1. \A x \in Sessions : IsFiniteSet(After(x)) /\ Cardinality(After(x)) \in Nat
  BY StartAssumption, FS_Subset, FS_CardinalityType
<1>2. Counts \in SUBSET Nat /\ Counts # {}
  BY <1>1
<1>3. PICK m \in Counts : \A n \in Counts : m <= n
  BY <1>2, LeastNumber
<1>4. PICK x \in Sessions : m = Cardinality(After(x))
  BY <1>3
<1>5. ASSUME NEW y \in Sessions, StartsAt[y] > StartsAt[x] PROVE FALSE
  <2>1. StartsAt[x] \in Nat /\ StartsAt[y] \in Nat /\ \A z \in Sessions : StartsAt[z] \in Nat
    BY StartAssumption
  <2>2. After(y) \in SUBSET After(x) /\ y \in After(x) /\ y \notin After(y)
    BY <1>5, <2>1
  <2>3. IsFiniteSet(After(x)) /\ IsFiniteSet(After(y))
    BY <1>1
  <2> HIDE DEF After
  <2>4. Cardinality(After(y)) <= Cardinality(After(x))
    BY <2>2, <2>3, FS_Subset
  <2>5. Cardinality(After(y)) # Cardinality(After(x))
    BY <2>2, <2>3, FS_Subset
  <2>6. Cardinality(After(x)) <= Cardinality(After(y))
    BY <1>3, <1>4
  <2>7. Cardinality(After(x)) \in Nat /\ Cardinality(After(y)) \in Nat
    BY <2>3, FS_CardinalityType
  <2> QED
    BY <2>4, <2>5, <2>6, <2>7
<1>6. ASSUME NEW y \in Sessions PROVE StartsAt[x] >= StartsAt[y]
  <2>1. StartsAt[x] \in Nat /\ StartsAt[y] \in Nat
    BY StartAssumption
  <2> QED
    BY <1>5, <2>1
<1> QED
  BY <1>6

\* What the card shows as next is upcoming and first, or else the last.
LEMMA NearestIs ==
  ASSUME Sessions # {}
  PROVE  /\ NearestSession \in Sessions
         /\ Upcoming # {} =>
                NearestSession \in Upcoming
                /\ \A y \in Upcoming : StartsAt[NearestSession] <= StartsAt[y]
         /\ Upcoming = {} => \A y \in Sessions : StartsAt[NearestSession] >= StartsAt[y]
<1>1. Upcoming \subseteq Sessions
  BY DEF Upcoming
<1>2. CASE Upcoming # {}
  <2>1. \E x \in Sessions : x \in Upcoming /\ \A y \in Upcoming : StartsAt[x] <= StartsAt[y]
    BY <1>1, <1>2, EarliestSession
  <2> QED
    BY <1>2, <2>1 DEF NearestSession
<1>3. CASE Upcoming = {}
  BY <1>3, LatestSession DEF NearestSession
<1> QED
  BY <1>2, <1>3

\* The session on the card never goes back in time, for any schedule.
THEOREM CardMovesForward == SpecViews => NearestForward
<1> DEFINE Nearest ==
        Sessions # {} =>
            /\ NearestSession \in Sessions
            /\ Upcoming # {} => NearestSession \in Upcoming
            /\ Upcoming = {} => \A y \in Sessions : StartsAt[NearestSession] >= StartsAt[y]
<1>0. Nearest'
  <2>1. Nearest
    BY NearestIs
  <2> QED
    BY <2>1, PTL
<1>1. ASSUME TypeOK, [NextViews]_shownVars, Sessions # {}
      PROVE  StartsAt[EventCard'.next] >= StartsAt[EventCard.next]
  <2>1. [Next]_vars
    BY <1>1 DEF NextViews, OpenMap, ReadSold, Moment, AnswerMap, BookingStep, shownVars
  <2>2. now \in Nat /\ now' \in Nat /\ now <= now'
    BY <1>1, <2>1, TimeForward
  <2>3. Upcoming' \subseteq Upcoming
    BY <2>2, StartAssumption DEF Upcoming
  <2>4. EventCard.next = NearestSession /\ EventCard'.next = NearestSession'
    BY <1>1 DEF EventCard
  <2>5. /\ NearestSession' \in Sessions
        /\ Upcoming' # {} => NearestSession' \in Upcoming'
        /\ Upcoming' = {} => \A y \in Sessions : StartsAt[NearestSession'] >= StartsAt[y]
    BY <1>0, <1>1
  <2>6. /\ NearestSession \in Sessions
        /\ \A y \in Upcoming : StartsAt[NearestSession] <= StartsAt[y]
    BY <1>1, NearestIs
  <2>7. StartsAt[NearestSession] \in Nat /\ StartsAt[NearestSession'] \in Nat
    BY <2>5, <2>6, StartAssumption
  <2> QED
    BY <2>3, <2>4, <2>5, <2>6, <2>7
<1>2. TypeOK /\ [NextViews]_shownVars =>
        [Sessions # {} => StartsAt[EventCard'.next] >= StartsAt[EventCard.next]]_shownVars
  BY <1>1
<1> QED
  BY <1>2, ViewsOnlyRead, TypeCorrect, PTL DEF SpecViews, NearestForward
=============================================================================
