------------------------- MODULE SeatBookingProofs -------------------------
(***************************************************************************)
(* The invariants of SeatBooking, proved for every set of seats, sessions, *)
(* keys and processes.  IndInv is inductive; the lemmas below prove its    *)
(* parts one by one, each from all of IndInv and one step.                 *)
(***************************************************************************)
EXTENDS SeatBooking, TLAPS

\* The initial state satisfies every part of the inductive invariant.
LEMMA InitIndInv == Init => IndInv
<1> SUFFICES ASSUME Init PROVE IndInv
  OBVIOUS
<1>1. TypeOK
  BY TimeAssumption DEF Init, TypeOK, NoHold, Hold, NoTrial, Trial, AnySession,
     ReservationStatus, OrderStatus, PaymentStatus, SeatStatus
<1>2. CallsAgree /\ TrialsHold /\ RowsAgree /\ AnnouncedOnce
  BY DEF Init, CallsAgree, TrialsHold, Testing, NoTrial, RowsAgree, AnnouncedOnce
<1>3. SoleClaim /\ SeatRowAgrees
  BY DEF Init, SoleClaim, SeatRowAgrees, Claims, NoHold
<1>4. SessionHoldsDisjoint
  BY DEF Init, SessionHoldsDisjoint, Live
<1> QED
  BY <1>1, <1>2, <1>3, <1>4 DEF IndInv

\* What a row update leaves of the seat rows has their type.
LEMMA UpdateSeatsType ==
  ASSUME TypeOK, NEW S, NEW status \in SeatStatus
  PROVE  UpdateSeats(S, status) \in [Seats -> SeatStatus]
BY DEF TypeOK, UpdateSeats

LEMMA UpdateWholeEventSeatsType ==
  ASSUME TypeOK, NEW k \in Keys, NEW status \in SeatStatus
  PROVE  UpdateWholeEventSeats(k, status) \in [Seats -> SeatStatus]
BY UpdateSeatsType DEF TypeOK, UpdateWholeEventSeats

\* What reserve_seats writes, for the whole event and after its tests for a
\* session.
LEMMA WhatIsReserved ==
  ASSUME IndInv, NEW k \in Keys
  PROVE  /\ \A S \in SUBSET Seats : ReserveSeats(k, S) =>
                HoldSeats(k, S, NoSession, now) /\ S # {} /\ UNCHANGED trial
         /\ ReserveTested(k) =>
                /\ HoldSeats(k, trial[k].seats, trial[k].session, trial[k].at)
                /\ trial[k].seats \in SUBSET Seats /\ trial[k].seats # {}
                /\ trial[k].session \in AnySession /\ trial[k].session # NoSession
                /\ trial[k].at \in Nat
                /\ trial' = [trial EXCEPT ![k] = NoTrial]
BY SessionAssumption DEF IndInv, TypeOK, Trial, TrialsHold, Testing, AnySession, ReserveSeats,
   ReserveTested

\* A request that tests nothing.
LEMMA NoTrialType == NoTrial \in Trial
BY DEF NoTrial, Trial, AnySession

\* The steps of a test for a session that write nothing.
TrialStep ==
    \E k \in Keys :
        \/ \E S \in SUBSET Seats, session \in Sessions : TestOrders(k, S, session)
        \/ TestHolds(k) \/ LeaveTrial(k)

\* They change nothing but the trial.
LEMMA TrialsOnlyRead == TrialStep => UNCHANGED <<rowVars, callVars, expired, now>>
BY DEF TrialStep, TestOrders, TestHolds, LeaveTrial

\* Types are preserved by every step.
LEMMA TypeStep == ASSUME IndInv, [Next]_vars PROVE TypeOK'
<1> USE DEF IndInv
<1> SUFFICES ASSUME Next PROVE TypeOK'
  BY DEF vars, rowVars, callVars, TypeOK
<1>1. CASE Tick
  BY <1>1, TimeAssumption DEF Tick, TypeOK, rowVars, callVars
<1>2. ASSUME NEW k \in Keys, NEW S \in SUBSET Seats, NEW session \in AnySession,
             NEW time \in Nat, HoldSeats(k, S, session, time), trial' \in [Keys -> Trial]
      PROVE TypeOK'
  <2>1. [seats |-> S, session |-> session, until |-> time + HoldTime] \in Hold
    BY TimeAssumption DEF Hold, TypeOK
  <2>2. hold' \in [Keys -> Hold] /\ reservation' \in [Keys -> ReservationStatus]
    BY <1>2, <2>1 DEF HoldSeats, TypeOK, ReservationStatus
  <2>3. event_seats' \in [Seats -> SeatStatus]
    BY <1>2, UpdateSeatsType DEF HoldSeats, TypeOK, SeatStatus
  <2> QED
    BY <1>2, <2>2, <2>3 DEF HoldSeats, TypeOK, callVars
<1>3. ASSUME NEW w \in Workers, NEW k \in Keys, CheckConfirm(w, k) PROVE TypeOK'
  BY <1>3 DEF CheckConfirm, TypeOK, rowVars
<1>4. ASSUME NEW w \in Workers, CommitConfirm(w) PROVE TypeOK'
  BY <1>4 DEF CommitConfirm, TypeOK, CallsAgree, ReservationStatus, OrderStatus
<1>5. ASSUME NEW w \in Workers, RefuseConfirm(w) \/ WorkerDies(w) PROVE TypeOK'
  BY <1>5 DEF RefuseConfirm, WorkerDies, Hangup, TypeOK, rowVars
<1>6. ASSUME NEW w \in Workers, StartPayment(w) PROVE TypeOK'
  BY <1>6 DEF StartPayment, Hangup, TypeOK, CallsAgree, PaymentStatus
<1>7. ASSUME NEW k \in Keys, CapturePayment(k) PROVE TypeOK'
  <2>1. event_seats' \in [Seats -> SeatStatus]
    BY <1>7, UpdateWholeEventSeatsType DEF CapturePayment, SeatStatus
  <2>2. outbox' \in [Keys -> Nat]
    BY <1>7 DEF CapturePayment, EventOnce, TypeOK
  <2> QED
    BY <1>7, <2>1, <2>2 DEF CapturePayment, TypeOK, callVars, ReservationStatus,
       OrderStatus, PaymentStatus
<1>8. ASSUME NEW k \in Keys, FailPayment(k) PROVE TypeOK'
  <2>1. event_seats' \in [Seats -> SeatStatus]
    BY <1>8, UpdateWholeEventSeatsType DEF FailPayment, SeatStatus, Freed
  <2> QED
    BY <1>8, <2>1 DEF FailPayment, TypeOK, callVars, ReservationStatus,
       OrderStatus, PaymentStatus
<1>9. ASSUME NEW k \in Keys, CancelOrder(k) PROVE TypeOK'
  <2>1. event_seats' \in [Seats -> SeatStatus]
    BY <1>9, UpdateSeatsType DEF CancelOrder, SeatStatus, Freed
  <2> QED
    BY <1>9, <2>1 DEF CancelOrder, TypeOK, callVars, OrderStatus
<1>10. ASSUME NEW t \in Sweepers, StartSweep(t) \/ SweeperDies(t) PROVE TypeOK'
  BY <1>10 DEF StartSweep, SweeperDies, ExpiredHolds, TypeOK, rowVars, callVars
<1>11. ASSUME NEW t \in Sweepers, NEW k \in Keys, ReleaseHold(t, k) PROVE TypeOK'
  <2>1. event_seats' \in [Seats -> SeatStatus]
    BY <1>11, UpdateWholeEventSeatsType DEF ReleaseHold, SeatStatus, Freed
  <2> QED
    BY <1>11, <2>1 DEF ReleaseHold, TypeOK, callVars, ReservationStatus
<1>12. ASSUME NEW t \in Sweepers, NEW k \in Keys, SkipHold(t, k) PROVE TypeOK'
  BY <1>12 DEF SkipHold, TypeOK, rowVars, callVars
<1>13. CASE TrialStep
  <2>1. ASSUME NEW k \in Keys, NEW S \in SUBSET Seats, NEW session \in Sessions,
               TestOrders(k, S, session)
        PROVE  trial' \in [Keys -> Trial]
    <3>1. [seats |-> S, session |-> session, at |-> now, clear |-> FALSE] \in Trial
      BY TimeAssumption DEF Trial, TypeOK, AnySession
    <3> QED
      BY <2>1, <3>1 DEF TestOrders, TypeOK
  <2>2. ASSUME NEW k \in Keys, TestHolds(k) PROVE trial' \in [Keys -> Trial]
    <3>1. [trial[k] EXCEPT !.clear = TRUE] \in Trial
      BY DEF TypeOK, Trial
    <3> QED
      BY <2>2, <3>1 DEF TestHolds, TypeOK
  <2>3. ASSUME NEW k \in Keys, LeaveTrial(k) PROVE trial' \in [Keys -> Trial]
    BY <2>3, NoTrialType DEF LeaveTrial, TypeOK
  <2>4. trial' \in [Keys -> Trial]
    BY <1>13, <2>1, <2>2, <2>3 DEF TrialStep
  <2> QED
    BY <1>13, <2>4, TrialsOnlyRead DEF TypeOK, rowVars, callVars
<1>14. ASSUME NEW k \in Keys, NEW S \in SUBSET Seats, ReserveSeats(k, S) PROVE TypeOK'
  <2>1. NoSession \in AnySession /\ now \in Nat /\ trial' \in [Keys -> Trial]
    BY <1>14, TimeAssumption DEF AnySession, TypeOK, ReserveSeats
  <2> QED
    BY <1>2, <1>14, <2>1, WhatIsReserved
<1>15. ASSUME NEW k \in Keys, ReserveTested(k) PROVE TypeOK'
  <2>1. trial' \in [Keys -> Trial]
    BY <1>15, NoTrialType DEF ReserveTested, TypeOK
  <2> QED
    BY <1>2, <1>15, <2>1, WhatIsReserved
<1> QED
  BY <1>1, <1>3, <1>4, <1>5, <1>6, <1>7, <1>8, <1>9, <1>10, <1>11, <1>12, <1>13, <1>14, <1>15
     DEF Next, Request, Sweep, TrialStep

\* Workers, targets and the moment a hold is written.
LEMMA CallsStep == ASSUME IndInv, [Next]_vars PROVE CallsAgree'
<1> USE DEF IndInv
<1> SUFFICES ASSUME Next PROVE CallsAgree'
  BY DEF vars, rowVars, callVars, CallsAgree
<1>1. CASE Tick
  BY <1>1 DEF Tick, CallsAgree, rowVars, callVars
<1>2. ASSUME NEW k \in Keys, NEW S \in SUBSET Seats, NEW session \in AnySession,
             NEW time \in Nat, HoldSeats(k, S, session, time)
      PROVE CallsAgree'
  BY <1>2 DEF HoldSeats, CallsAgree, callVars, TypeOK
<1>3. ASSUME NEW w \in Workers, NEW k \in Keys, CheckConfirm(w, k) PROVE CallsAgree'
  BY <1>3 DEF CheckConfirm, CallsAgree, rowVars, TypeOK
<1>4. ASSUME NEW w \in Workers, CommitConfirm(w) PROVE CallsAgree'
  BY <1>4 DEF CommitConfirm, CallsAgree, TypeOK
<1>5. ASSUME NEW w \in Workers, RefuseConfirm(w) \/ WorkerDies(w) PROVE CallsAgree'
  BY <1>5 DEF RefuseConfirm, WorkerDies, Hangup, CallsAgree, rowVars, TypeOK
<1>6. ASSUME NEW w \in Workers, StartPayment(w) PROVE CallsAgree'
  BY <1>6 DEF StartPayment, Hangup, CallsAgree, TypeOK
<1>7. ASSUME NEW k \in Keys, CapturePayment(k) PROVE CallsAgree'
  BY <1>7 DEF CapturePayment, CallsAgree, callVars, TypeOK
<1>8. ASSUME NEW k \in Keys, FailPayment(k) PROVE CallsAgree'
  BY <1>8 DEF FailPayment, CallsAgree, callVars, TypeOK
<1>9. ASSUME NEW k \in Keys, CancelOrder(k) PROVE CallsAgree'
  BY <1>9 DEF CancelOrder, CallsAgree, callVars, TypeOK
<1>10. ASSUME NEW t \in Sweepers, StartSweep(t) \/ SweeperDies(t) PROVE CallsAgree'
  BY <1>10 DEF StartSweep, SweeperDies, CallsAgree, rowVars, callVars
<1>11. ASSUME NEW t \in Sweepers, NEW k \in Keys, ReleaseHold(t, k) PROVE CallsAgree'
  BY <1>11 DEF ReleaseHold, CallsAgree, callVars, TypeOK
<1>12. ASSUME NEW t \in Sweepers, NEW k \in Keys, SkipHold(t, k) PROVE CallsAgree'
  BY <1>12 DEF SkipHold, CallsAgree, rowVars, callVars
<1>13. CASE TrialStep
  BY <1>13, TrialsOnlyRead DEF CallsAgree, rowVars, callVars
<1>14. ASSUME NEW k \in Keys, (\E S \in SUBSET Seats : ReserveSeats(k, S)) \/ ReserveTested(k)
       PROVE  CallsAgree'
  <2>1. NoSession \in AnySession /\ now \in Nat
    BY TimeAssumption DEF AnySession, TypeOK
  <2> QED
    BY <1>2, <1>14, <2>1, WhatIsReserved
<1> QED
  BY <1>1, <1>3, <1>4, <1>5, <1>6, <1>7, <1>8, <1>9, <1>10, <1>11, <1>12, <1>13, <1>14
     DEF Next, Request, Sweep, TrialStep

\* The rows of one purchase stay in agreement.
LEMMA RowsStep == ASSUME IndInv, [Next]_vars PROVE RowsAgree' /\ AnnouncedOnce'
<1> USE DEF IndInv
<1> DEFINE Goal == RowsAgree' /\ AnnouncedOnce'
<1> SUFFICES ASSUME Next PROVE Goal
  BY DEF vars, rowVars, RowsAgree, AnnouncedOnce
<1>1. ASSUME UNCHANGED rowVars PROVE Goal
  BY <1>1 DEF RowsAgree, AnnouncedOnce, rowVars
<1>2. ASSUME NEW k \in Keys, NEW S \in SUBSET Seats, NEW session \in AnySession,
             NEW time \in Nat, HoldSeats(k, S, session, time)
      PROVE Goal
  BY <1>2 DEF HoldSeats, RowsAgree, AnnouncedOnce, TypeOK
<1>3. ASSUME NEW w \in Workers, CommitConfirm(w) PROVE Goal
  BY <1>3 DEF CommitConfirm, StillActive, CallsAgree, RowsAgree, AnnouncedOnce, TypeOK
<1>4. ASSUME NEW w \in Workers, StartPayment(w) PROVE Goal
  BY <1>4 DEF StartPayment, CallsAgree, RowsAgree, AnnouncedOnce, TypeOK, ReservationStatus
<1>5. ASSUME NEW k \in Keys, CapturePayment(k) PROVE Goal
  BY <1>5 DEF CapturePayment, Payable, EventOnce, RowsAgree, AnnouncedOnce, TypeOK
<1>6. ASSUME NEW k \in Keys, FailPayment(k) PROVE Goal
  BY <1>6 DEF FailPayment, Payable, RowsAgree, AnnouncedOnce, TypeOK
<1>7. ASSUME NEW k \in Keys, CancelOrder(k) PROVE Goal
  BY <1>7 DEF CancelOrder, RowsAgree, AnnouncedOnce, TypeOK, ReservationStatus
<1>8. ASSUME NEW t \in Sweepers, NEW k \in Keys, ReleaseHold(t, k) PROVE Goal
  BY <1>8 DEF ReleaseHold, StillActive, RowsAgree, AnnouncedOnce, TypeOK
<1>9. CASE TrialStep
  BY <1>1, <1>9, TrialsOnlyRead
<1>10. ASSUME NEW k \in Keys, (\E S \in SUBSET Seats : ReserveSeats(k, S)) \/ ReserveTested(k)
       PROVE  Goal
  <2>1. NoSession \in AnySession /\ now \in Nat
    BY TimeAssumption DEF AnySession, TypeOK
  <2> QED
    BY <1>2, <1>10, <2>1, WhatIsReserved
<1> QED
  BY <1>1, <1>3, <1>4, <1>5, <1>6, <1>7, <1>8, <1>9, <1>10
     DEF Next, Request, Sweep, Tick, CheckConfirm, RefuseConfirm, WorkerDies,
         StartSweep, SkipHold, SweeperDies, TrialStep

\* Seats of whole-event purchases: no two claims, and the seat row in step.
LEMMA SeatsStep == ASSUME IndInv, [Next]_vars PROVE SoleClaim' /\ SeatRowAgrees'
<1> USE DEF IndInv
<1> DEFINE Goal == SoleClaim' /\ SeatRowAgrees'
<1> SUFFICES ASSUME Next PROVE Goal
  BY DEF vars, rowVars, SoleClaim, SeatRowAgrees, Claims, Clobbered, WholeEvent
<1>1. ASSUME UNCHANGED rowVars PROVE Goal
  BY <1>1 DEF SoleClaim, SeatRowAgrees, Claims, Clobbered, WholeEvent, rowVars
<1>2. ASSUME NEW k \in Keys, NEW S \in SUBSET Seats, NEW session \in AnySession,
             NEW time \in Nat, HoldSeats(k, S, session, time),
             session = NoSession => \A s \in S : ~SeatTaken(s, NoSession)
      PROVE Goal
  <2>1. order[k] = "none" /\ ~(\E s \in Seats : Claims(k, s))
    BY <1>2 DEF HoldSeats, RowsAgree, Claims
  <2>2. \A l \in Keys : l # k => hold'[l] = hold[l] /\ reservation'[l] = reservation[l]
    BY <1>2 DEF HoldSeats, TypeOK
  <2>3. \A s \in Seats : Clobbered(s)' <=> Clobbered(s)
    BY <1>2, <2>1, <2>2 DEF HoldSeats, Clobbered, WholeEvent, TypeOK
  <2>4. \A l \in Keys, s \in Seats : l # k => (Claims(l, s)' <=> Claims(l, s))
    BY <1>2, <2>2 DEF HoldSeats, Claims, WholeEvent
  <2>5. hold'[k].seats = S /\ hold'[k].session = session /\ reservation'[k] = "active"
    BY <1>2 DEF HoldSeats, TypeOK
  <2>6. CASE session = NoSession
    <3>1. \A s \in Seats : Claims(k, s)' <=> s \in S
      BY <2>5, <2>6 DEF Claims, WholeEvent
    <3>2. \A s \in S : event_seats[s] = "available"
      BY <1>2, <2>6 DEF SeatTaken
    <3>3. \A s \in S : ~Clobbered(s) => \A l \in Keys : ~Claims(l, s)
      BY <3>2 DEF SeatRowAgrees
    <3>4. \A s \in Seats : event_seats'[s] = IF s \in S THEN "reserved" ELSE event_seats[s]
      BY <1>2, <2>6 DEF HoldSeats, UpdateSeats
    <3>5. SoleClaim'
      BY <2>3, <2>4, <3>1, <3>3 DEF SoleClaim
    <3>6. SeatRowAgrees'
      BY <1>2, <2>1, <2>3, <2>4, <3>1, <3>3, <3>4 DEF SeatRowAgrees, HoldSeats
    <3> QED
      BY <3>5, <3>6
  <2>7. CASE session # NoSession
    <3>1. \A s \in Seats : ~Claims(k, s)'
      BY <2>5, <2>7 DEF Claims, WholeEvent
    <3>2. event_seats' = event_seats /\ order' = order
      BY <1>2, <2>7 DEF HoldSeats
    <3> QED
      BY <2>1, <2>3, <2>4, <3>1, <3>2 DEF SoleClaim, SeatRowAgrees
  <2> QED
    BY <2>6, <2>7
<1>3. ASSUME NEW w \in Workers, CommitConfirm(w) PROVE Goal
  <2>1. /\ target[w] \in Keys
        /\ reservation[target[w]] = "active" /\ order[target[w]] = "none"
    BY <1>3 DEF CommitConfirm, StillActive, CallsAgree
  <2>2. \A l \in Keys, s \in Seats : Claims(l, s)' <=> Claims(l, s)
    BY <1>3, <2>1 DEF CommitConfirm, Claims, WholeEvent, TypeOK
  <2>3. \A s \in Seats : Clobbered(s)' <=> Clobbered(s)
    BY <1>3, <2>1 DEF CommitConfirm, Clobbered, WholeEvent, TypeOK
  <2>4. \A l \in Keys : order'[l] = "confirmed" <=> order[l] = "confirmed"
    BY <1>3, <2>1 DEF CommitConfirm, TypeOK
  <2> QED
    BY <1>3, <2>2, <2>3, <2>4 DEF CommitConfirm, SoleClaim, SeatRowAgrees
<1>4. ASSUME NEW w \in Workers, StartPayment(w) PROVE Goal
  <2>1. \A l \in Keys, s \in Seats : Claims(l, s)' <=> Claims(l, s)
    BY <1>4 DEF StartPayment, Claims, WholeEvent
  <2>2. \A l \in Keys : payment'[l] = "succeeded" <=> payment[l] = "succeeded"
    BY <1>4 DEF StartPayment, TypeOK, CallsAgree
  <2>3. \A s \in Seats : Clobbered(s)' <=> Clobbered(s)
    BY <1>4, <2>2 DEF StartPayment, Clobbered, WholeEvent
  <2> QED
    BY <1>4, <2>1, <2>3 DEF StartPayment, SoleClaim, SeatRowAgrees
<1>5. ASSUME NEW k \in Keys, CapturePayment(k) PROVE Goal
  <2>1. reservation[k] = "confirmed" /\ order[k] = "reserved"
    BY <1>5 DEF CapturePayment, Payable, RowsAgree, TypeOK, ReservationStatus
  <2>2. \A l \in Keys, s \in Seats : Claims(l, s)' <=> Claims(l, s)
    BY <1>5, <2>1 DEF CapturePayment, Claims, WholeEvent, TypeOK
  <2>3. \A s \in Seats : Clobbered(s)' <=> Clobbered(s)
    BY <1>5, <2>1 DEF CapturePayment, Payable, Clobbered, WholeEvent, TypeOK
  <2>4. \A l \in Keys : order'[l] = IF l = k THEN "confirmed" ELSE order[l]
    BY <1>5 DEF CapturePayment, TypeOK
  <2>5. \A s \in Seats : event_seats'[s] = IF Claims(k, s) THEN "sold" ELSE event_seats[s]
    BY <1>5, <2>1 DEF CapturePayment, UpdateWholeEventSeats, UpdateSeats, Claims, TypeOK
  <2>6. SoleClaim'
    BY <2>2, <2>3 DEF SoleClaim
  <2>7. SeatRowAgrees'
    BY <2>2, <2>3, <2>4, <2>5 DEF SeatRowAgrees, SoleClaim
  <2> QED
    BY <2>6, <2>7
<1>6. ASSUME NEW k \in Keys, FailPayment(k) PROVE Goal
  <2>1. reservation[k] = "confirmed" /\ order[k] = "reserved"
    BY <1>6 DEF FailPayment, Payable, RowsAgree, TypeOK, ReservationStatus
  <2>2. \A l \in Keys, s \in Seats : Claims(l, s)' <=> Claims(l, s) /\ l # k
    BY <1>6, <2>1 DEF FailPayment, Claims, WholeEvent, TypeOK
  <2>3. \A s \in Seats : Clobbered(s)' <=> Clobbered(s)
    BY <1>6, <2>1 DEF FailPayment, Payable, Clobbered, WholeEvent, TypeOK
  <2>4. \A l \in Keys : l # k => order'[l] = order[l]
    BY <1>6 DEF FailPayment, TypeOK
  <2>5. \A s \in Seats :
            event_seats'[s] = IF Claims(k, s) THEN "available" ELSE event_seats[s]
    BY <1>6, <2>1 DEF FailPayment, UpdateWholeEventSeats, UpdateSeats, Freed, Claims, TypeOK
  <2>6. SoleClaim'
    BY <2>2, <2>3 DEF SoleClaim
  <2>7. SeatRowAgrees'
    BY <2>2, <2>3, <2>4, <2>5 DEF SeatRowAgrees, SoleClaim
  <2> QED
    BY <2>6, <2>7
<1>7. ASSUME NEW k \in Keys, CancelOrder(k) PROVE Goal
  <2>1. payment[k] = "succeeded" /\ reservation[k] # "active"
    BY <1>7 DEF CancelOrder, RowsAgree, TypeOK, ReservationStatus
  <2>2. \A l \in Keys, s \in Seats : Claims(l, s)' <=> Claims(l, s) /\ l # k
    BY <1>7, <2>1 DEF CancelOrder, Claims, WholeEvent, TypeOK
  <2>3. \A s \in Seats :
            ~Clobbered(s)' => ~Clobbered(s) /\ (s \in hold[k].seats => WholeEvent(k))
    BY <1>7, <2>1 DEF CancelOrder, Clobbered, WholeEvent, TypeOK
  <2>4. \A l \in Keys : l # k => order'[l] = order[l]
    BY <1>7 DEF CancelOrder, TypeOK
  <2>5. \A s \in Seats : ~Clobbered(s)' =>
            event_seats'[s] = IF Claims(k, s) THEN "available" ELSE event_seats[s]
    BY <1>7, <2>3 DEF CancelOrder, UpdateSeats, Freed, Claims, TypeOK
  <2>6. SoleClaim'
    BY <2>2, <2>3 DEF SoleClaim
  <2>7. SeatRowAgrees'
    BY <2>2, <2>3, <2>4, <2>5 DEF SeatRowAgrees, SoleClaim
  <2> QED
    BY <2>6, <2>7
<1>8. ASSUME NEW t \in Sweepers, NEW k \in Keys, ReleaseHold(t, k) PROVE Goal
  <2>1. reservation[k] = "active" /\ order[k] = "none" /\ order' = order
    BY <1>8 DEF ReleaseHold, StillActive, RowsAgree
  <2>2. \A l \in Keys, s \in Seats : Claims(l, s)' <=> Claims(l, s) /\ l # k
    BY <1>8, <2>1 DEF ReleaseHold, Claims, WholeEvent, TypeOK
  <2>3. \A s \in Seats : Clobbered(s)' <=> Clobbered(s)
    BY <1>8 DEF ReleaseHold, Clobbered, WholeEvent
  <2>4. \A s \in Seats :
            event_seats'[s] = IF Claims(k, s) THEN "available" ELSE event_seats[s]
    BY <1>8, <2>1 DEF ReleaseHold, UpdateWholeEventSeats, UpdateSeats, Freed, Claims, TypeOK
  <2>5. SoleClaim'
    BY <2>2, <2>3 DEF SoleClaim
  <2>6. SeatRowAgrees'
    BY <2>1, <2>2, <2>3, <2>4 DEF SeatRowAgrees, SoleClaim
  <2> QED
    BY <2>5, <2>6
<1>9. CASE TrialStep
  BY <1>1, <1>9, TrialsOnlyRead
<1>10. ASSUME NEW k \in Keys, NEW S \in SUBSET Seats, ReserveSeats(k, S) PROVE Goal
  <2>1. NoSession \in AnySession /\ now \in Nat
    BY TimeAssumption DEF AnySession, TypeOK
  <2>2. \A s \in S : ~SeatTaken(s, NoSession)
    BY <1>10 DEF ReserveSeats
  <2> QED
    BY <1>2, <1>10, <2>1, <2>2, WhatIsReserved
<1>11. ASSUME NEW k \in Keys, ReserveTested(k) PROVE Goal
  BY <1>2, <1>11, WhatIsReserved
<1> QED
  BY <1>1, <1>3, <1>4, <1>5, <1>6, <1>7, <1>8, <1>9, <1>10, <1>11
     DEF Next, Request, Sweep, Tick, CheckConfirm, RefuseConfirm, WorkerDies,
         StartSweep, SkipHold, SweeperDies, TrialStep

\* What requests have tested stays so: other requests wait for their rows,
\* and everything else that happens to a hold ends it.
LEMMA TrialsStep == ASSUME IndInv, [Next]_vars PROVE TrialsHold'
<1> USE DEF IndInv
<1>0. trial \in [Keys -> Trial] /\ now \in Nat
  BY TimeAssumption DEF TypeOK
<1>1. ASSUME UNCHANGED <<trial, hold>>, now' >= now, now' \in Nat,
             \A k \in Keys : reservation'[k] = "active" => reservation[k] = "active"
      PROVE  TrialsHold'
  <2>1. \A s \in Seats, x \in AnySession, t \in Nat : HeldIn(s, x, t)' => HeldIn(s, x, t)
    BY <1>1 DEF HeldIn
  <2>2. \A k \in Keys : trial[k].seats \in SUBSET Seats /\ trial[k].session \in AnySession
                        /\ trial[k].at \in Nat
    BY <1>0 DEF Trial
  <2>3. \A k \in Keys : Testing(k) => trial[k].at <= now'
    BY <1>0, <1>1, <2>2 DEF TrialsHold, Testing
  <2> QED
    BY <1>1, <2>1, <2>2, <2>3 DEF TrialsHold, Testing
<1>2. ASSUME NEW k \in Keys, NEW S \in SUBSET Seats, ReserveSeats(k, S) PROVE TrialsHold'
  <2>1. \A s \in Seats, x \in Sessions, t \in Nat : HeldIn(s, x, t)' => HeldIn(s, x, t)
    BY <1>2, SessionAssumption DEF ReserveSeats, HoldSeats, HeldIn, TypeOK
  <2>2. trial' = trial /\ now' = now
    BY <1>2 DEF ReserveSeats, HoldSeats
  <2> QED
    BY <1>0, <2>1, <2>2 DEF TrialsHold, Testing, Trial
<1>3. ASSUME NEW k \in Keys, NEW S \in SUBSET Seats, NEW session \in Sessions,
             TestOrders(k, S, session)
      PROVE  TrialsHold'
  <2>1. \A l \in Keys : trial'[l] = IF l = k
            THEN [seats |-> S, session |-> session, at |-> now, clear |-> FALSE] ELSE trial[l]
    BY <1>0, <1>3 DEF TestOrders
  <2>2. \A l \in Keys : trial[l].seats \cap S = {}
    BY <1>3 DEF TestOrders, RowsFree
  <2>3. UNCHANGED <<hold, reservation, now>>
    BY <1>3 DEF TestOrders, rowVars
  <2> QED
    BY <1>0, <2>1, <2>2, <2>3 DEF TrialsHold, Testing, HeldIn
<1>4. ASSUME NEW k \in Keys, TestHolds(k) PROVE TrialsHold'
  <2>1. UNCHANGED <<hold, reservation, now>>
    BY <1>4 DEF TestHolds, rowVars
  <2>2. \A l \in Keys : /\ trial'[l].seats = trial[l].seats /\ trial'[l].at = trial[l].at
                        /\ trial'[l].session = trial[l].session
                        /\ l # k => trial'[l].clear = trial[l].clear
    BY <1>0, <1>4 DEF TestHolds, Trial
  <2>3. Testing(k) /\ \A s \in trial[k].seats : ~HeldIn(s, trial[k].session, trial[k].at)
    BY <1>4 DEF TestHolds
  <2> QED
    BY <2>1, <2>2, <2>3 DEF TrialsHold, Testing, HeldIn
<1>5. ASSUME NEW k \in Keys, LeaveTrial(k) PROVE TrialsHold'
  <2>1. \A l \in Keys : trial'[l] = IF l = k THEN NoTrial ELSE trial[l]
    BY <1>0, <1>5 DEF LeaveTrial
  <2>2. UNCHANGED <<hold, reservation, now>>
    BY <1>5 DEF LeaveTrial, rowVars
  <2> QED
    BY <2>1, <2>2 DEF TrialsHold, Testing, HeldIn, NoTrial
<1>6. ASSUME NEW k \in Keys, ReserveTested(k) PROVE TrialsHold'
  <2>1. \A l \in Keys : trial'[l] = IF l = k THEN NoTrial ELSE trial[l]
    BY <1>0, <1>6 DEF ReserveTested
  <2>2. \A l \in Keys : l # k => hold'[l] = hold[l] /\ reservation'[l] = reservation[l]
    BY <1>6 DEF ReserveTested, HoldSeats, TypeOK
  <2>3. hold'[k].seats = trial[k].seats /\ now' = now
    BY <1>6 DEF ReserveTested, HoldSeats, TypeOK
  <2>4. ASSUME NEW l \in Keys, l # k, NEW s \in trial[l].seats, NEW x, NEW t, HeldIn(s, x, t)'
        PROVE  HeldIn(s, x, t)
    BY <2>2, <2>3, <2>4 DEF HeldIn, TrialsHold
  <2> QED
    BY <2>1, <2>3, <2>4 DEF TrialsHold, Testing, NoTrial
<1>7. CASE Tick
  BY <1>0, <1>1, <1>7 DEF Tick, rowVars
<1>8. ASSUME NEW w \in Workers, CommitConfirm(w) PROVE TrialsHold'
  BY <1>0, <1>1, <1>8 DEF CommitConfirm, TypeOK
<1>9. ASSUME NEW k \in Keys, CapturePayment(k) \/ FailPayment(k) \/ CancelOrder(k)
      PROVE  TrialsHold'
  BY <1>0, <1>1, <1>9 DEF CapturePayment, FailPayment, CancelOrder, TypeOK
<1>10. ASSUME NEW t \in Sweepers, NEW k \in Keys, ReleaseHold(t, k) PROVE TrialsHold'
  BY <1>0, <1>1, <1>10 DEF ReleaseHold, TypeOK
<1>11. ASSUME UNCHANGED <<trial, hold, reservation, now>> PROVE TrialsHold'
  BY <1>0, <1>1, <1>11
<1> QED
  BY <1>2, <1>3, <1>4, <1>5, <1>6, <1>7, <1>8, <1>9, <1>10, <1>11
     DEF Next, Request, Sweep, CheckConfirm, RefuseConfirm, StartPayment, WorkerDies,
         StartSweep, SkipHold, SweeperDies, vars, rowVars

\* Live holds of one session stay disjoint: only reserve_seats makes a hold
\* live, and what it has tested is still so when it writes.
LEMMA HoldsStep == ASSUME IndInv, [Next]_vars PROVE SessionHoldsDisjoint'
<1> USE DEF IndInv
<1>1. ASSUME NEW k \in Keys, NEW S \in SUBSET Seats, NEW session \in AnySession, NEW time,
             HoldSeats(k, S, session, time),
             session # NoSession => \A s \in S : ~HeldIn(s, session, now)
      PROVE SessionHoldsDisjoint'
  <2>1. \A l \in Keys : l # k =>
            hold'[l] = hold[l] /\ (Live(l)' <=> Live(l)) /\ (WholeEvent(l)' <=> WholeEvent(l))
    BY <1>1 DEF HoldSeats, Live, WholeEvent, TypeOK
  <2>2. hold'[k].seats = S /\ hold'[k].session = session
    BY <1>1 DEF HoldSeats, TypeOK
  <2>3. ASSUME NEW l \in Keys, Live(l), hold[l].session = session, session # NoSession
        PROVE  hold[l].seats \cap S = {}
    BY <1>1, <2>3 DEF HeldIn, Live
  <2> QED
    BY <2>1, <2>2, <2>3 DEF SessionHoldsDisjoint, WholeEvent
<1>2. ASSUME \A k \in Keys : Live(k)' => Live(k), UNCHANGED hold
      PROVE  SessionHoldsDisjoint'
  BY <1>2 DEF SessionHoldsDisjoint, WholeEvent
<1>3. ASSUME UNCHANGED <<reservation, hold, now>> PROVE SessionHoldsDisjoint'
  BY <1>3 DEF SessionHoldsDisjoint, WholeEvent, Live
<1>4. CASE Tick
  BY <1>2, <1>4 DEF Tick, Live, TypeOK, Hold, rowVars
<1>5. ASSUME NEW w \in Workers, CommitConfirm(w) PROVE SessionHoldsDisjoint'
  BY <1>2, <1>5 DEF CommitConfirm, Live, TypeOK, CallsAgree
<1>6. ASSUME NEW k \in Keys, CapturePayment(k) \/ FailPayment(k) PROVE SessionHoldsDisjoint'
  BY <1>2, <1>6 DEF CapturePayment, FailPayment, Live, TypeOK
<1>7. ASSUME NEW t \in Sweepers, NEW k \in Keys, ReleaseHold(t, k) PROVE SessionHoldsDisjoint'
  BY <1>2, <1>7 DEF ReleaseHold, Live, TypeOK
<1>8. ASSUME NEW k \in Keys, NEW S \in SUBSET Seats, ReserveSeats(k, S)
      PROVE  SessionHoldsDisjoint'
  <2>1. NoSession \in AnySession
    BY DEF AnySession
  <2> QED
    BY <1>1, <1>8, <2>1, WhatIsReserved
<1>9. ASSUME NEW k \in Keys, ReserveTested(k) PROVE SessionHoldsDisjoint'
  <2>1. \A s \in trial[k].seats : ~HeldIn(s, trial[k].session, trial[k].at)
    BY <1>9 DEF ReserveTested, TrialsHold
  <2>2. trial[k].at <= now /\ trial[k].at \in Nat /\ now \in Nat
    BY <1>9, WhatIsReserved, TimeAssumption DEF TrialsHold, Testing, TypeOK
  <2>3. \A l \in Keys : hold[l].until \in Nat
    BY DEF TypeOK, Hold
  <2>4. \A s \in trial[k].seats : ~HeldIn(s, trial[k].session, now)
    BY <2>1, <2>2, <2>3 DEF HeldIn
  <2> QED
    BY <1>1, <1>9, <2>4, WhatIsReserved
<1>10. CASE TrialStep
  BY <1>3, <1>10, TrialsOnlyRead DEF rowVars
<1> QED
  BY <1>3, <1>4, <1>5, <1>6, <1>7, <1>8, <1>9, <1>10
     DEF TrialStep, Next, Request, Sweep, CheckConfirm, RefuseConfirm, StartPayment, WorkerDies,
         CancelOrder, StartSweep, SkipHold, SweeperDies, vars, rowVars

\* IndInv holds in every reachable state.
THEOREM Invariance == Spec => []IndInv
<1>1. IndInv /\ [Next]_vars => IndInv'
  BY TypeStep, CallsStep, TrialsStep, RowsStep, SeatsStep, HoldsStep DEF IndInv
<1> QED
  BY InitIndInv, <1>1, PTL DEF Spec

\* Every variable keeps its type.
THEOREM TypeCorrect == Spec => []TypeOK
BY Invariance, PTL DEF IndInv

\* Reservation, order and payment never contradict each other.
THEOREM RowsAlwaysAgree == Spec => []RowsAgree
BY Invariance, PTL DEF IndInv

\* Captured payments, and only these, have their one order_confirmed event.
THEOREM AlwaysAnnouncedOnce == Spec => []AnnouncedOnce
BY Invariance, PTL DEF IndInv

\* No seat is ever claimed by two purchases of the whole event, unless the
\* cancellation of a session order has freed it over their heads.
THEOREM NoDoubleSale == Spec => []SoleClaim
BY Invariance, PTL DEF IndInv

\* The seat row tells what became of the seat.
THEOREM SeatRowsTell == Spec => []SeatRowAgrees
BY Invariance, PTL DEF IndInv

\* Two live holds of one session have no seat in common.
THEOREM SessionHoldsNeverMeet == Spec => []SessionHoldsDisjoint
BY Invariance, PTL DEF IndInv

\* What is over stays over: expired holds, final payments, cancelled orders.
THEOREM NothingIsRevived == Spec => ForwardOnly
<1> DEFINE Forward ==
        \A k \in Keys :
            /\ reservation[k] \in {"expired", "cancelled"} => reservation'[k] = reservation[k]
            /\ payment[k] \in {"succeeded", "failed"} => payment'[k] = payment[k]
            /\ order[k] = "confirmed" => order'[k] \in {"confirmed", "cancelled"}
            /\ order[k] = "cancelled" => order'[k] = "cancelled"
            /\ hold[k] # NoHold => hold'[k] = hold[k]
<1>1. ASSUME IndInv, Next PROVE Forward
  <2> USE <1>1 DEF IndInv
  <2>1. ASSUME UNCHANGED rowVars PROVE Forward
    BY <2>1 DEF rowVars
  <2>2. ASSUME NEW k \in Keys, NEW S, NEW session, NEW time, HoldSeats(k, S, session, time)
        PROVE Forward
    BY <2>2 DEF HoldSeats, CallsAgree, TypeOK
  <2>3. ASSUME NEW w \in Workers, CommitConfirm(w) PROVE Forward
    BY <2>3 DEF CommitConfirm, StillActive, TypeOK, CallsAgree
  <2>4. ASSUME NEW w \in Workers, StartPayment(w) PROVE Forward
    BY <2>4 DEF StartPayment, TypeOK, CallsAgree
  <2>5. ASSUME NEW k \in Keys, CapturePayment(k) PROVE Forward
    BY <2>5 DEF CapturePayment, Payable, RowsAgree, TypeOK, ReservationStatus
  <2>6. ASSUME NEW k \in Keys, FailPayment(k) PROVE Forward
    BY <2>6 DEF FailPayment, Payable, RowsAgree, TypeOK, ReservationStatus
  <2>7. ASSUME NEW k \in Keys, CancelOrder(k) PROVE Forward
    BY <2>7 DEF CancelOrder, TypeOK
  <2>8. ASSUME NEW t \in Sweepers, NEW k \in Keys, ReleaseHold(t, k) PROVE Forward
    BY <2>8 DEF ReleaseHold, StillActive, TypeOK
  <2>9. CASE TrialStep
    BY <2>1, <2>9, TrialsOnlyRead
  <2> QED
    BY <1>1, <2>1, <2>2, <2>3, <2>4, <2>5, <2>6, <2>7, <2>8, <2>9, WhatIsReserved
       DEF TrialStep, Next, Request, Sweep, Tick, CheckConfirm, RefuseConfirm, WorkerDies,
           StartSweep, SkipHold, SweeperDies
<1>2. IndInv /\ [Next]_vars => [Forward]_vars
  BY <1>1
<1> QED
  BY Invariance, <1>2, PTL DEF Spec, ForwardOnly

\* A row of an order that is lost is not written by any step.
LEMMA LostRowKept ==
  ASSUME IndInv, Next, NEW k \in Keys, Lost(k)
  PROVE  Lost(k)' /\ UNCHANGED <<reservation[k], hold[k], outbox[k]>>
<1> USE DEF IndInv
<1> DEFINE Goal == Lost(k)' /\ UNCHANGED <<reservation[k], hold[k], outbox[k]>>
<1>0. order[k] = "reserved" /\ payment[k] = "none" /\ reservation[k] = "confirmed"
  BY DEF Lost, RowsAgree, TypeOK, ReservationStatus
<1>1. ASSUME UNCHANGED rowVars,
             \A w \in Workers : stage'[w] = "committed" =>
                stage[w] = "committed" /\ target'[w] = target[w]
      PROVE  Goal
  BY <1>1 DEF rowVars, Lost
<1>2. ASSUME NEW l \in Keys, NEW S, NEW session, NEW time, HoldSeats(l, S, session, time)
      PROVE  Goal
  BY <1>0, <1>2 DEF HoldSeats, callVars, Lost, TypeOK
<1>3. ASSUME NEW w \in Workers, NEW l \in Keys, CheckConfirm(w, l) PROVE Goal
  BY <1>1, <1>3 DEF CheckConfirm, TypeOK
<1>4. ASSUME NEW w \in Workers, CommitConfirm(w) PROVE Goal
  <2>1. target[w] # k
    BY <1>0, <1>4 DEF CommitConfirm
  <2> QED
    BY <1>0, <1>4, <2>1 DEF CommitConfirm, Lost, TypeOK
<1>5. ASSUME NEW w \in Workers, RefuseConfirm(w) \/ WorkerDies(w) PROVE Goal
  BY <1>1, <1>5 DEF RefuseConfirm, WorkerDies, Hangup, TypeOK
<1>6. ASSUME NEW w \in Workers, StartPayment(w) PROVE Goal
  <2>1. target[w] # k
    BY <1>6 DEF StartPayment, Lost
  <2> QED
    BY <1>6, <2>1 DEF StartPayment, Hangup, Lost, TypeOK
<1>7. ASSUME NEW l \in Keys, CapturePayment(l) \/ FailPayment(l) \/ CancelOrder(l) PROVE Goal
  <2>1. l # k
    BY <1>0, <1>7 DEF CapturePayment, FailPayment, CancelOrder, Payable
  <2>2. outbox'[k] = outbox[k]
    BY <1>7, <2>1 DEF CapturePayment, FailPayment, CancelOrder, EventOnce, TypeOK
  <2> QED
    BY <1>7, <2>1, <2>2 DEF CapturePayment, FailPayment, CancelOrder, callVars, Lost, TypeOK
<1>8. ASSUME NEW t \in Sweepers, NEW l \in Keys, ReleaseHold(t, l) PROVE Goal
  <2>1. l # k
    BY <1>0, <1>8 DEF ReleaseHold, StillActive
  <2> QED
    BY <1>8, <2>1 DEF ReleaseHold, callVars, Lost, TypeOK
<1>9. ASSUME UNCHANGED <<rowVars, callVars>> PROVE Goal
  BY <1>1, <1>9 DEF callVars
<1>10. CASE TrialStep
  BY <1>9, <1>10, TrialsOnlyRead
<1> QED
  BY <1>2, <1>3, <1>4, <1>5, <1>6, <1>7, <1>8, <1>9, <1>10, WhatIsReserved
     DEF TrialStep, Next, Request, Sweep, Tick, StartSweep, SkipHold, SweeperDies

\* An order whose worker was lost is never paid, expired or resold by any
\* retry, task or other buyer.
THEOREM LostOrdersKept == Spec => LostOrderKept
<1> DEFINE Kept(k) ==
        /\ Lost(k)'
        /\ UNCHANGED <<reservation[k], hold[k], outbox[k]>>
        /\ \A s \in hold[k].seats :
            WholeEvent(k) /\ ~Clobbered(s)' => event_seats'[s] = "reserved"
<1>1. ASSUME IndInv, IndInv', Next, NEW k \in Keys, Lost(k) PROVE Kept(k)
  <2>1. Lost(k)' /\ UNCHANGED <<reservation[k], hold[k], outbox[k]>>
    BY <1>1, LostRowKept
  <2>2. ASSUME NEW s \in hold[k].seats, WholeEvent(k), ~Clobbered(s)'
        PROVE  event_seats'[s] = "reserved"
    <3>1. s \in Seats /\ event_seats'[s] \in SeatStatus
      BY <1>1 DEF IndInv, TypeOK, Hold
    <3>2. Claims(k, s)' /\ order'[k] = "reserved"
      BY <2>1, <2>2 DEF Claims, WholeEvent, Lost
    <3>3. event_seats'[s] # "available"
      BY <1>1, <2>2, <3>1, <3>2 DEF IndInv, SeatRowAgrees
    <3>4. event_seats'[s] # "sold"
      <4>1. \A l \in Keys : Claims(l, s)' => l = k
        BY <1>1, <2>2, <3>1, <3>2 DEF IndInv, SoleClaim
      <4> QED
        BY <1>1, <2>2, <3>1, <3>2, <4>1 DEF IndInv, SeatRowAgrees
    <3> QED
      BY <3>1, <3>3, <3>4 DEF SeatStatus
  <2> QED
    BY <2>1, <2>2
<1>2. IndInv /\ IndInv' /\ [Next]_vars => [\A k \in Keys : Lost(k) => Kept(k)]_vars
  BY <1>1
<1> QED
  BY Invariance, <1>2, PTL DEF Spec, LostOrderKept

----------------------------------------------------------------------------
\* Initially nobody owns anything and every purchase is new.
LEMMA OwnershipInit == Init => Ownership!Init
BY DEF Init, Ownership!Init, OwnedSeats, PurchasePhase, Owns

\* A step that changes neither who owns what nor how far a purchase is.
LEMMA OwnershipStutter ==
  ASSUME UNCHANGED <<reservation, hold, order>>
  PROVE  UNCHANGED Ownership!vars
BY DEF Ownership!vars, OwnedSeats, PurchasePhase, Owns

\* A purchase that gives its seats up: failed payment, cancellation, sweep.
LEMMA OwnershipGiveUp ==
  ASSUME NEW k \in Keys, Owns(k), ~Owns(k)', reservation'[k] # "none", UNCHANGED hold,
         \A l \in Keys \ {k} :
            order'[l] = order[l] /\ reservation'[l] = reservation[l]
  PROVE  Ownership!GiveUp(k)
<1>1. OwnedSeats' = [OwnedSeats EXCEPT ![k] = {}]
  BY DEF OwnedSeats, Owns
<1>2. PurchasePhase' = [PurchasePhase EXCEPT ![k] = "over"]
  BY DEF PurchasePhase, Owns
<1>3. PurchasePhase[k] \in {"holding", "paid"}
  BY DEF PurchasePhase
<1> QED
  BY <1>1, <1>2, <1>3 DEF Ownership!GiveUp

\* Every step of the code is a step of one purchase, or none, in SeatOwnership.
LEMMA OwnershipStep ==
  ASSUME Sessions = {}, IndInv, [Next]_vars
  PROVE  [Ownership!Next]_Ownership!vars
<1> USE DEF IndInv
<1> DEFINE Goal == [Ownership!Next]_Ownership!vars
<1>1. \A k \in Keys, s \in Seats : hold[k].session = NoSession /\ ~Clobbered(s)
  BY DEF TypeOK, Hold, AnySession, Clobbered, WholeEvent
<1>2. ASSUME UNCHANGED <<reservation, hold, order>> PROVE Goal
  BY <1>2, OwnershipStutter
<1>3. ASSUME NEW k \in Keys, NEW S \in SUBSET Seats, ReserveSeats(k, S)
      PROVE Goal
  <2>1. HoldSeats(k, S, NoSession, now) /\ S # {}
    BY <1>3, WhatIsReserved
  <2>2. \A l \in Keys, s \in S : ~Claims(l, s)
    BY <1>1, <1>3 DEF ReserveSeats, SeatTaken, SeatRowAgrees
  <2>3. \A l \in Keys : OwnedSeats[l] \cap S = {}
    BY <1>1, <2>2 DEF OwnedSeats, Owns, Claims, WholeEvent, TypeOK, Hold
  <2>4. order[k] = "none" /\ order' = order
    BY <2>1 DEF HoldSeats, RowsAgree
  <2>5. OwnedSeats' = [OwnedSeats EXCEPT ![k] = S]
    BY <2>1, <2>4 DEF HoldSeats, OwnedSeats, Owns, TypeOK
  <2>6. PurchasePhase' = [PurchasePhase EXCEPT ![k] = "holding"] /\ PurchasePhase[k] = "new"
    BY <2>1, <2>4 DEF HoldSeats, PurchasePhase, Owns, TypeOK
  <2>7. Ownership!Take(k, S)
    BY <2>1, <2>3, <2>5, <2>6 DEF Ownership!Take
  <2> QED
    BY <2>7 DEF Ownership!Next
<1>4. ASSUME NEW w \in Workers, CommitConfirm(w) PROVE Goal
  <2>1. /\ target[w] \in Keys
        /\ reservation[target[w]] = "active" /\ order[target[w]] = "none"
    BY <1>4 DEF CommitConfirm, StillActive, CallsAgree
  <2>2. \A l \in Keys :
            /\ Owns(l)' <=> Owns(l)
            /\ order'[l] = "confirmed" <=> order[l] = "confirmed"
            /\ reservation'[l] = "none" <=> reservation[l] = "none"
    BY <1>4, <2>1 DEF CommitConfirm, Owns, TypeOK
  <2>3. OwnedSeats' = OwnedSeats /\ PurchasePhase' = PurchasePhase
    BY <1>4, <2>2 DEF CommitConfirm, OwnedSeats, PurchasePhase
  <2> QED
    BY <2>3 DEF Ownership!vars
<1>5. ASSUME NEW k \in Keys, CapturePayment(k) PROVE Goal
  <2>1. reservation[k] = "confirmed" /\ order[k] = "reserved"
    BY <1>5 DEF CapturePayment, Payable, RowsAgree, TypeOK, ReservationStatus
  <2>2. OwnedSeats' = OwnedSeats
    BY <1>5, <2>1 DEF CapturePayment, OwnedSeats, Owns, TypeOK
  <2>3. PurchasePhase' = [PurchasePhase EXCEPT ![k] = "paid"] /\ PurchasePhase[k] = "holding"
    BY <1>5, <2>1 DEF CapturePayment, PurchasePhase, Owns, TypeOK
  <2> QED
    BY <2>2, <2>3 DEF Ownership!Next, Ownership!Pay
<1>6. ASSUME NEW k \in Keys,
             CancelOrder(k) \/ FailPayment(k) \/ \E t \in Sweepers : ReleaseHold(t, k)
      PROVE Goal
  <2>1. reservation[k] = "active" => order[k] = "none"
    BY DEF RowsAgree
  <2>2. Owns(k) /\ ~Owns(k)' /\ reservation'[k] # "none" /\ UNCHANGED hold
    BY <1>6, <2>1 DEF CancelOrder, FailPayment, Payable, ReleaseHold, StillActive, Owns,
       RowsAgree, TypeOK, ReservationStatus
  <2>3. \A l \in Keys \ {k} : order'[l] = order[l] /\ reservation'[l] = reservation[l]
    BY <1>6 DEF CancelOrder, FailPayment, ReleaseHold, TypeOK
  <2> QED
    BY <2>2, <2>3, OwnershipGiveUp DEF Ownership!Next
<1>7. CASE TrialStep
  BY <1>2, <1>7, TrialsOnlyRead DEF rowVars
<1>8. ASSUME NEW k \in Keys, ReserveTested(k) PROVE FALSE
  BY <1>8, WhatIsReserved DEF AnySession
<1> QED
  BY <1>2, <1>3, <1>4, <1>5, <1>6, <1>7, <1>8
     DEF TrialStep, Next, Request, Sweep, Tick, CheckConfirm, RefuseConfirm, StartPayment, WorkerDies,
         StartSweep, SkipHold, SweeperDies, vars, rowVars

\* The handlers and the sweep, with their rows, races and crashes, implement
\* SeatOwnership for an event without sessions.
THEOREM Implementation == ASSUME Sessions = {} PROVE Spec => ImplementsOwnership
<1>1. IndInv /\ [Next]_vars => [Ownership!Next]_Ownership!vars
  BY OwnershipStep
<1> QED
  BY OwnershipInit, Invariance, <1>1, PTL DEF Spec, ImplementsOwnership, Ownership!Spec

\* What SeatOwnership is proved to keep, for the rows that implement it.
Promise == INSTANCE SeatOwnershipProofs WITH claim <- OwnedSeats, phase <- PurchasePhase

\* An event without sessions never has one seat in two purchases that are on
\* hold, ordered or paid.
THEOREM RowsKeepPromise ==
  ASSUME Sessions = {}
  PROVE  Spec => [](Ownership!TypeOK /\ Ownership!Exclusive)
<1>1. Ownership!Spec => [](Ownership!TypeOK /\ Ownership!Exclusive)
  BY Promise!OwnershipKept
     DEF Ownership!Spec, Ownership!Init, Ownership!Next, Ownership!Take, Ownership!Pay,
         Ownership!GiveUp, Ownership!vars, Ownership!TypeOK, Ownership!Exclusive,
         Promise!Spec, Promise!Init, Promise!Next, Promise!Take, Promise!Pay,
         Promise!GiveUp, Promise!vars, Promise!TypeOK, Promise!Exclusive
<1> QED
  BY <1>1, Implementation, PTL DEF ImplementsOwnership
=============================================================================
