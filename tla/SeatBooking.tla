---------------------------- MODULE SeatBooking ----------------------------
(***************************************************************************)
(* Reserved seating of one event: hold seats, confirm the hold into an     *)
(* order, pay, cancel, and expire what nobody confirmed.                   *)
(*                                                                         *)
(* Reservation.idempotency_key, Order.idempotency_key and                  *)
(* Payment.idempotency_key are unique columns, and the order and the       *)
(* payment copy the reservation's key, so the key names all three rows.    *)
(* Every `with transaction.atomic()' block that takes its row locks first  *)
(* is one action; code that reads before such a block, or goes on after    *)
(* it, is split there, and so are the tests of reserve_seats for a session *)
(* which read rows that its locks do not cover.  A request that is         *)
(* refused, or answered from rows that already exist, changes no row:      *)
(* those paths are the negations of the guards and appear as stuttering.   *)
(***************************************************************************)
EXTENDS Naturals, FiniteSets

CONSTANTS
    Seats,      \* sellable seats that have an EventSeat row for the event
    Sessions,   \* EventSession rows of the event; may be empty
    NoSession,  \* the null session: the purchase is for the whole event
    Keys,       \* idempotency keys clients may use
    NoKey,
    Workers,    \* web worker processes, each in at most one confirm request
    Sweepers,   \* Celery workers, each in at most one expire_reservations task
    HoldTime,   \* RESERVATION_MINUTES in clock ticks
    MaxTime     \* bound on the clock

ASSUME SessionAssumption == NoSession \notin Sessions
ASSUME KeyAssumption == NoKey \notin Keys
ASSUME TimeAssumption == HoldTime \in Nat /\ MaxTime \in Nat

VARIABLES
    reservation,  \* Reservation.status, "none" before the row exists
    hold,         \* Reservation.session / .reserved_until and its ReservationSeat rows
    order,        \* Order.status; its items are the seats of the hold
    payment,      \* Payment.status
    event_seats,  \* EventSeat.status
    outbox,       \* how many order_confirmed events name the order
    stage,        \* where a web worker stands in confirm_reservation
    target,       \* the reservation that worker is confirming
    trial,        \* seats of a session a reserve request has locked and is testing
    expired,      \* the list a running expire_reservations task still has to visit
    now           \* the clock

rowVars  == <<reservation, hold, order, payment, event_seats, outbox>>
callVars == <<stage, target>>
vars     == <<rowVars, callVars, trial, expired, now>>

ReservationStatus == {"none", "active", "confirmed", "expired", "cancelled"}
OrderStatus       == {"none", "reserved", "confirmed", "cancelled"}
PaymentStatus     == {"none", "pending", "succeeded", "failed"}
SeatStatus        == {"available", "reserved", "sold"}
AnySession        == Sessions \cup {NoSession}
Hold              == [seats : SUBSET Seats, session : AnySession, until : Nat]
NoHold            == [seats |-> {}, session |-> NoSession, until |-> 0]
Trial             == [seats : SUBSET Seats, session : AnySession, at : Nat, clear : BOOLEAN]
NoTrial           == [seats |-> {}, session |-> NoSession, at |-> 0, clear |-> FALSE]

Init ==
    /\ reservation = [k \in Keys |-> "none"]
    /\ hold = [k \in Keys |-> NoHold]
    /\ order = [k \in Keys |-> "none"]
    /\ payment = [k \in Keys |-> "none"]
    /\ event_seats = [s \in Seats |-> "available"]
    /\ outbox = [k \in Keys |-> 0]
    /\ stage = [w \in Workers |-> "idle"]
    /\ target = [w \in Workers |-> NoKey]
    /\ trial = [k \in Keys |-> NoTrial]
    /\ expired = [t \in Sweepers |-> {}]
    /\ now = 0

----------------------------------------------------------------------------
WholeEvent(k) == hold[k].session = NoSession

\* An active reservation that other buyers must respect.
Live(k) == reservation[k] = "active" /\ hold[k].until > now

\* An active reservation past its time, for the confirm call and the sweep.
\* A hold whose time is exactly now is neither Live nor Lapsed.
Lapsed(k) == reservation[k] = "active" /\ hold[k].until < now

\* The two queries of seat_taken_for_session for a session.
OrderedIn(s, session) ==
    \E k \in Keys : hold[k].session = session /\ s \in hold[k].seats /\ order[k] = "confirmed"

HeldIn(s, session, time) ==
    \E k \in Keys :
        /\ hold[k].session = session /\ s \in hold[k].seats
        /\ reservation[k] = "active" /\ hold[k].until > time

\* seat_taken_for_session with nothing running between its queries, and the
\* edit that only asks whether the seat row says sold.
TakenOnlyIfSold(s, session) == session = NoSession /\ event_seats[s] = "sold"

SeatTaken(s, session) ==
    IF session = NoSession
    THEN event_seats[s] # "available"
    ELSE OrderedIn(s, session) \/ HeldIn(s, session, now)

\* select_for_update: no request that is testing seats of a session has the
\* EventSeat row of one of S; the edit reads the rows without a lock.
ReadUnlocked(S) == S \subseteq Seats
RowsFree(S) == \A l \in Keys : trial[l].seats \cap S = {}

\* A request for seats of a session that is between its queries.
Testing(k) == trial[k].seats # {}

\* The second look at Reservation.status, under the row lock, and its loss.
ActiveAsRead(k) == reservation[k] # "none"
StillActive(k) == reservation[k] = "active"

\* finalize_payment answers a final payment at once, and the loss of that.
PayableAgain(k) == payment[k] # "none"
Payable(k) == payment[k] = "pending"

\* The order_confirmed event is written unless the order already has one.
EventOnce(k) == [outbox EXCEPT ![k] = IF @ = 0 THEN 1 ELSE @]

\* EventSeat.objects.filter(event=..., seat=...).update(status=...)
UpdateSeats(S, status) == [s \in Seats |-> IF s \in S THEN status ELSE event_seats[s]]

\* The same under `if not order.session_id', and the edit that drops the test.
UpdateAnySeats(k, status) == UpdateSeats(hold[k].seats, status)
UpdateWholeEventSeats(k, status) ==
    IF WholeEvent(k) THEN UpdateSeats(hold[k].seats, status) ELSE event_seats

\* The transaction that does so waits for the locks on the rows.
SeatRowsFree(k) == WholeEvent(k) => RowsFree(hold[k].seats)

\* What a seat becomes when its hold or order ends; the mutant writes the
\* order's own status into the seat row, which the column would accept.
FreedAsCancelled == "cancelled"
Freed == "available"

----------------------------------------------------------------------------
\* Time passes for everybody.
Tick ==
    /\ now < MaxTime
    /\ now' = now + 1
    /\ UNCHANGED <<rowVars, callVars, trial, expired>>

(***************************************************************************)
(* POST events/<id>/reservations/, once the EventSeat rows are locked.     *)
(* What it writes.                                                         *)
(***************************************************************************)
HoldSeats(k, S, session, time) ==
    /\ reservation[k] = "none"
    /\ reservation' = [reservation EXCEPT ![k] = "active"]
    /\ hold' = [hold EXCEPT ![k] =
                    [seats |-> S, session |-> session, until |-> time + HoldTime]]
    /\ event_seats' = IF session = NoSession
                      THEN UpdateSeats(S, "reserved") ELSE event_seats
    /\ UNCHANGED <<order, payment, outbox, callVars, expired, now>>

\* For the whole event everything that is tested is in the locked rows: one
\* step, as ReserveRequest shows.
ReserveSeats(k, S) ==
    /\ S # {} /\ RowsFree(S)
    /\ \A s \in S : ~SeatTaken(s, NoSession)
    /\ now + HoldTime < MaxTime            \* bound: every hold can still lapse
    /\ HoldSeats(k, S, NoSession, now)
    /\ UNCHANGED trial

(***************************************************************************)
(* For a session the tests read orders and reservations, which the locks   *)
(* on the EventSeat rows do not cover: confirmations, payments and sweeps  *)
(* go on between them.  The code tests seat after seat; here all orders    *)
(* are read first and all holds last, which leaves the most room between.  *)
(***************************************************************************)
TestOrders(k, S, session) ==
    /\ reservation[k] = "none" /\ ~Testing(k)
    /\ S # {} /\ RowsFree(S)
    /\ \A s \in S : ~OrderedIn(s, session)
    /\ now + HoldTime < MaxTime            \* bound, as above
    /\ trial' = [trial EXCEPT ![k] =
                    [seats |-> S, session |-> session, at |-> now, clear |-> FALSE]]
    /\ UNCHANGED <<rowVars, callVars, expired, now>>

TestHolds(k) ==
    /\ Testing(k) /\ ~trial[k].clear
    /\ \A s \in trial[k].seats : ~HeldIn(s, trial[k].session, trial[k].at)
    /\ trial' = [trial EXCEPT ![k].clear = TRUE]
    /\ UNCHANGED <<rowVars, callVars, expired, now>>

\* The transaction commits and lets the rows go.  Gunicorn ends a request
\* after 120 seconds: before the hold it is about to write could lapse.
ReserveTested(k) ==
    /\ trial[k].clear
    /\ now < trial[k].at + HoldTime
    /\ HoldSeats(k, trial[k].seats, trial[k].session, trial[k].at)
    /\ trial' = [trial EXCEPT ![k] = NoTrial]

\* A seat is on hold, the key has been used meanwhile, or the worker died:
\* the transaction is rolled back.
LeaveTrial(k) ==
    /\ Testing(k)
    /\ trial' = [trial EXCEPT ![k] = NoTrial]
    /\ UNCHANGED <<rowVars, callVars, expired, now>>

\* POST events/<id>/reservations/confirm/, up to the transaction: the row is
\* read without a lock and its time is tested here and nowhere later.
CheckConfirm(w, k) ==
    /\ stage[w] = "idle"
    /\ reservation[k] = "active"
    /\ ~Lapsed(k)
    /\ stage' = [stage EXCEPT ![w] = "checked"]
    /\ target' = [target EXCEPT ![w] = k]
    /\ UNCHANGED <<rowVars, trial, expired, now>>

(***************************************************************************)
(* The confirm transaction: lock the reservation, look at its status again *)
(* and create the order with one item per held seat.  The branch that      *)
(* returns an order already stored under the key needs order[k] # "none"   *)
(* with an active reservation, which RowsAgree excludes.                   *)
(***************************************************************************)
CommitConfirm(w) ==
    /\ stage[w] = "checked"
    /\ StillActive(target[w])
    /\ order[target[w]] = "none"
    /\ order' = [order EXCEPT ![target[w]] = "reserved"]
    /\ reservation' = [reservation EXCEPT ![target[w]] = "confirmed"]
    /\ stage' = [stage EXCEPT ![w] = "committed"]
    /\ UNCHANGED <<hold, payment, event_seats, outbox, target, trial, expired, now>>

Hangup(w) ==
    /\ stage' = [stage EXCEPT ![w] = "idle"]
    /\ target' = [target EXCEPT ![w] = NoKey]

\* "Reservation already used or expired"
RefuseConfirm(w) ==
    /\ stage[w] = "checked"
    /\ ~StillActive(target[w])
    /\ Hangup(w)
    /\ UNCHANGED <<rowVars, trial, expired, now>>

\* start_payment, after the confirm transaction has committed: a payment
\* already stored under the key is returned as it is.
StartPayment(w) ==
    /\ stage[w] = "committed"
    /\ payment' = [payment EXCEPT ![target[w]] = IF @ = "none" THEN "pending" ELSE @]
    /\ Hangup(w)
    /\ UNCHANGED <<reservation, hold, order, event_seats, outbox, trial, expired, now>>

\* The process dies, or its database connection does, between the steps.
WorkerDies(w) ==
    /\ stage[w] # "idle"
    /\ Hangup(w)
    /\ UNCHANGED <<rowVars, trial, expired, now>>

(***************************************************************************)
(* finalize_payment, reached from the provider's callback and from         *)
(* orders/<id>/pay/: one transaction over payment, order, reservation,     *)
(* seats and outbox.  The order's status is overwritten, never tested.     *)
(***************************************************************************)
CapturePayment(k) ==
    /\ Payable(k) /\ SeatRowsFree(k)
    /\ order' = [order EXCEPT ![k] = "confirmed"]
    /\ reservation' = [reservation EXCEPT ![k] = "confirmed"]
    /\ event_seats' = UpdateWholeEventSeats(k, "sold")
    /\ payment' = [payment EXCEPT ![k] = "succeeded"]
    /\ outbox' = EventOnce(k)
    /\ UNCHANGED <<hold, callVars, trial, expired, now>>

FailPayment(k) ==
    /\ Payable(k) /\ SeatRowsFree(k)
    /\ order' = [order EXCEPT ![k] = "cancelled"]
    /\ event_seats' = UpdateWholeEventSeats(k, Freed)
    /\ reservation' = [reservation EXCEPT ![k] = "cancelled"]
    /\ payment' = [payment EXCEPT ![k] = "failed"]
    /\ UNCHANGED <<hold, outbox, callVars, trial, expired, now>>

\* PATCH orders/<id>/cancel/ for an order with seats: only a confirmed order,
\* and its EventSeat rows are freed whatever session the order is for.
CancelOrder(k) ==
    /\ order[k] = "confirmed" /\ RowsFree(hold[k].seats)
    /\ event_seats' = UpdateSeats(hold[k].seats, Freed)
    /\ order' = [order EXCEPT ![k] = "cancelled"]
    /\ UNCHANGED <<reservation, hold, payment, outbox, callVars, trial, expired, now>>

----------------------------------------------------------------------------
\* The sweep reads its list without locks, with the edit that goes by unpaid
\* orders, as the management command of the same name does.
ExpiredOrders == {k \in Keys : order[k] = "reserved" /\ hold[k].until < now}
ExpiredHolds == {k \in Keys : Lapsed(k)}

StartSweep(t) ==
    /\ expired[t] = {}
    /\ ExpiredHolds # {}
    /\ expired' = [expired EXCEPT ![t] = ExpiredHolds]
    /\ UNCHANGED <<rowVars, callVars, trial, now>>

\* One reservation of the list, in a transaction of its own.
ReleaseHold(t, k) ==
    /\ k \in expired[t]
    /\ StillActive(k) /\ SeatRowsFree(k)
    /\ reservation' = [reservation EXCEPT ![k] = "expired"]
    /\ event_seats' = UpdateWholeEventSeats(k, Freed)
    /\ expired' = [expired EXCEPT ![t] = @ \ {k}]
    /\ UNCHANGED <<hold, order, payment, outbox, callVars, trial, now>>

\* Confirmed, or released by another task, since the list was read.
SkipHold(t, k) ==
    /\ k \in expired[t]
    /\ ~StillActive(k)
    /\ expired' = [expired EXCEPT ![t] = @ \ {k}]
    /\ UNCHANGED <<rowVars, callVars, trial, now>>

\* A Celery worker is lost, or one transaction fails and ends the task; what
\* was released stays released, the rest waits for the next beat.
SweeperDies(t) ==
    /\ expired[t] # {}
    /\ expired' = [expired EXCEPT ![t] = {}]
    /\ UNCHANGED <<rowVars, callVars, trial, now>>

Request ==
    \/ \E k \in Keys, S \in SUBSET Seats :
            ReserveSeats(k, S) \/ \E session \in Sessions : TestOrders(k, S, session)
    \/ \E k \in Keys : TestHolds(k) \/ ReserveTested(k) \/ LeaveTrial(k)
    \/ \E w \in Workers, k \in Keys : CheckConfirm(w, k)
    \/ \E w \in Workers : \/ CommitConfirm(w) \/ RefuseConfirm(w)
                          \/ StartPayment(w)  \/ WorkerDies(w)
    \/ \E k \in Keys : CapturePayment(k) \/ FailPayment(k) \/ CancelOrder(k)

Sweep ==
    \E t \in Sweepers :
        \/ StartSweep(t) \/ SweeperDies(t)
        \/ \E k \in Keys : ReleaseHold(t, k) \/ SkipHold(t, k)

Next == Tick \/ Request \/ Sweep

Spec == Init /\ [][Next]_vars

(***************************************************************************)
(* Fairness.  The clock runs.  Celery beat starts a task every minute and  *)
(* a task goes on through its list; a worker may be lost any number of     *)
(* times, but a reservation that is listed again and again is reached some *)
(* day.  A web worker that is not lost finishes its request, and one that  *)
(* is lost gives up its locks.  Clients owe nothing: nobody has to confirm *)
(* or to pay.                                                              *)
(***************************************************************************)
Fairness ==
    /\ WF_vars(Tick)
    /\ \A t \in Sweepers :
        /\ WF_vars(StartSweep(t))
        /\ \A k \in Keys : SF_vars(ReleaseHold(t, k) \/ SkipHold(t, k))
    /\ \A w \in Workers :
        WF_vars(CommitConfirm(w) \/ RefuseConfirm(w) \/ StartPayment(w))
    /\ \A k \in Keys : WF_vars(ReserveTested(k) \/ LeaveTrial(k))

FairSpec == Spec /\ Fairness

----------------------------------------------------------------------------
\* Every variable has its type.
TypeOK ==
    /\ reservation \in [Keys -> ReservationStatus]
    /\ hold \in [Keys -> Hold]
    /\ order \in [Keys -> OrderStatus]
    /\ payment \in [Keys -> PaymentStatus]
    /\ event_seats \in [Seats -> SeatStatus]
    /\ outbox \in [Keys -> Nat]
    /\ stage \in [Workers -> {"idle", "checked", "committed"}]
    /\ target \in [Workers -> Keys \cup {NoKey}]
    /\ trial \in [Keys -> Trial]
    /\ expired \in [Sweepers -> SUBSET Keys]
    /\ now \in 0..MaxTime

\* Reservation, order and payment of a key never contradict each other: an
\* order exists exactly for a hold that was confirmed, it is confirmed only
\* with the money captured, and nothing was ordered on a hold that is still
\* active or has expired.  (confirm_reservation, finalize_payment, sweep)
RowsAgree ==
    \A k \in Keys :
        /\ reservation[k] \in {"none", "active", "expired"} =>
                order[k] = "none" /\ payment[k] = "none"
        /\ reservation[k] = "confirmed" =>
                \/ order[k] = "reserved" /\ payment[k] \in {"none", "pending"}
                \/ order[k] \in {"confirmed", "cancelled"} /\ payment[k] = "succeeded"
        /\ reservation[k] = "cancelled" => order[k] = "cancelled" /\ payment[k] = "failed"

\* A captured payment is announced to downstream systems exactly once, and
\* nothing else is.  (finalize_payment, the outbox rows)
AnnouncedOnce ==
    \A k \in Keys : outbox[k] = IF payment[k] = "succeeded" THEN 1 ELSE 0

\* A purchase of the whole event that has seat s: on hold, ordered or paid.
Claims(k, s) ==
    /\ WholeEvent(k)
    /\ s \in hold[k].seats
    /\ reservation[k] = "active" \/ order[k] \in {"reserved", "confirmed"}

\* cancel_order freed the seat row for a paid order of some session: what
\* the row says is then unrelated to the purchases of the whole event.
Clobbered(s) ==
    \E k \in Keys :
        /\ ~WholeEvent(k)
        /\ s \in hold[k].seats
        /\ order[k] = "cancelled" /\ payment[k] = "succeeded"

\* No seat is sold twice: two purchases of the whole event never have one
\* seat, from the hold through payment to cancellation.  (reserve_seats'
\* row locks against the sweep, finalize_payment and cancel_order)
SoleClaim ==
    \A s \in Seats : ~Clobbered(s) =>
        \A k, l \in Keys : Claims(k, s) /\ Claims(l, s) => k = l

\* The EventSeat row says what became of the seat: available when nobody has
\* it, reserved until it is paid for, sold when it is.  (all five writers)
SeatRowAgrees ==
    \A s \in Seats : ~Clobbered(s) =>
        /\ event_seats[s] = "available" => \A k \in Keys : ~Claims(k, s)
        /\ event_seats[s] = "reserved" =>
                \E k \in Keys : Claims(k, s) /\ order[k] # "confirmed"
        /\ event_seats[s] = "sold" =>
                \E k \in Keys : Claims(k, s) /\ order[k] = "confirmed"

\* Two live holds of one session never share a seat, although the requests
\* that make them test before they write.  (seat_taken_for_session under the
\* EventSeat row locks)
SessionHoldsDisjoint ==
    \A k, l \in Keys :
        /\ Live(k) /\ Live(l) /\ k # l
        /\ hold[k].session = hold[l].session /\ ~WholeEvent(k)
        => hold[k].seats \cap hold[l].seats = {}

\* What is over stays over: an expired hold never becomes an order, a
\* payment once captured or failed keeps its outcome through every repeated
\* callback, and an order goes forward only.  (replay-safe finalize_payment)
ForwardOnly ==
    [][\A k \in Keys :
        /\ reservation[k] \in {"expired", "cancelled"} => reservation'[k] = reservation[k]
        /\ payment[k] \in {"succeeded", "failed"} => payment'[k] = payment[k]
        /\ order[k] = "confirmed" => order'[k] \in {"confirmed", "cancelled"}
        /\ order[k] = "cancelled" => order'[k] = "cancelled"
        /\ hold[k] # NoHold => hold'[k] = hold[k]]_vars

\* An order whose worker was lost before it could start the payment.
Lost(k) ==
    /\ order[k] = "reserved" /\ payment[k] = "none"
    /\ \A w \in Workers : stage[w] = "committed" => target[w] # k

\* Such an order is out of everybody's reach: no retry of the confirmation
\* starts its payment, no task expires it, and its seats stay reserved, so
\* that nobody else gets them either.  (the step between confirm_reservation
\* and start_payment; the retry answers "already used")
LostOrderKept ==
    [][\A k \in Keys : Lost(k) =>
        /\ Lost(k)'
        /\ UNCHANGED <<reservation[k], hold[k], outbox[k]>>
        /\ \A s \in hold[k].seats :
            WholeEvent(k) /\ ~Clobbered(s)' => event_seats'[s] = "reserved"]_vars

\* A hold ends: it becomes an order or it is released, whatever workers are
\* lost on the way.  (the expire_reservations task)
HoldsEnd == \A k \in Keys : reservation[k] = "active" ~> reservation[k] # "active"

\* Seats and a time are written with the reservation row and not before, and
\* a worker past the confirm transaction has an order to start a payment for.
CallsAgree ==
    /\ \A k \in Keys : reservation[k] = "none" => hold[k] = NoHold
    /\ \A w \in Workers :
        /\ stage[w] # "idle" => target[w] \in Keys
        /\ stage[w] = "committed" => order[target[w]] # "none"

\* What a request has tested stays as it found it while it has the rows:
\* nobody tests the same seat, and none of its seats is put on hold.
TrialsHold ==
    /\ \A k, l \in Keys : k # l => trial[k].seats \cap trial[l].seats = {}
    /\ \A k \in Keys : Testing(k) => trial[k].session \in Sessions /\ trial[k].at <= now
    /\ \A k \in Keys : trial[k].clear =>
        Testing(k) /\ \A s \in trial[k].seats : ~HeldIn(s, trial[k].session, trial[k].at)

\* The invariant the proofs are built on: none of the parts about seats is
\* preserved by every step without the parts about rows, and conversely.
IndInv ==
    /\ TypeOK
    /\ CallsAgree
    /\ TrialsHold
    /\ RowsAgree
    /\ AnnouncedOnce
    /\ SoleClaim
    /\ SeatRowAgrees
    /\ SessionHoldsDisjoint

----------------------------------------------------------------------------
\* SeatOwnership, seen through the rows.
Owns(k) == reservation[k] = "active" \/ order[k] \in {"reserved", "confirmed"}

OwnedSeats == [k \in Keys |-> IF Owns(k) THEN hold[k].seats ELSE {}]

PurchasePhase ==
    [k \in Keys |->
        IF Owns(k) THEN IF order[k] = "confirmed" THEN "paid" ELSE "holding"
        ELSE IF reservation[k] = "none" THEN "new" ELSE "over"]

Ownership == INSTANCE SeatOwnership WITH claim <- OwnedSeats, phase <- PurchasePhase

\* An event without sessions sells its seats the way SeatOwnership promises.
\* (every handler and the sweep, each a step of one purchase or none)
ImplementsOwnership == Ownership!Spec

(***************************************************************************)
(* What the documentation says and the code does not do.                   *)
(***************************************************************************)

\* "Reserved seating uses Postgres row locks as the correctness layer": a
\* seat is bought at most once per session.
SessionSeatSoldOnce ==
    \A k, l \in Keys :
        /\ k # l /\ ~WholeEvent(k) /\ hold[k].session = hold[l].session
        /\ order[k] = "confirmed" /\ order[l] = "confirmed"
        => hold[k].seats \cap hold[l].seats = {}

\* "optional Celery task to expire unpaid holds": a reserved seat does not
\* stay reserved for ever.
ReservedSeatIsReleased ==
    \A s \in Seats : event_seats[s] = "reserved" ~> event_seats[s] # "reserved"
=============================================================================
