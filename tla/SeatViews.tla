------------------------------ MODULE SeatViews ------------------------------
(***************************************************************************)
(* What buyers are shown of the rows of SeatBooking: the seat map of an    *)
(* event, the seat counts of each session, the event card with its next    *)
(* session.  The views lock nothing.  The seat map is put together from    *)
(* three queries with the handlers of SeatBooking running in between; the  *)
(* counts are taken here at one moment.                                    *)
(***************************************************************************)
EXTENDS SeatBooking

CONSTANTS
    Blocked,   \* seats of the hall of kind blocked
    Rowless,   \* seats drawn after the event was synchronised: no EventSeat row
    StartsAt,  \* EventSession.starts_at
    EventStart \* Event.starts_at, for an event without sessions

ASSUME HallAssumption ==
    /\ IsFiniteSet(Seats) /\ IsFiniteSet(Rowless)
    /\ Seats \cap Blocked = {} /\ Seats \cap Rowless = {} /\ Blocked \cap Rowless = {}
ASSUME StartAssumption ==
    IsFiniteSet(Sessions) /\ StartsAt \in [Sessions -> Nat] /\ EventStart \in Nat

VARIABLES
    view,         \* how far a request for the seat map has got
    view_session, \* the session it asks for
    rows_read,    \* EventSeat rows it has read
    sold_read,    \* and seats with confirmed orders
    read_at,      \* its timezone.now()
    was_free,     \* history: seats that reserve_seats would have accepted,
    was_taken,    \* and refused, at some moment of the request
    contested     \* history: seats two buyers had at some moment of it

viewVars  == <<view, view_session, rows_read, sold_read, read_at, was_free, was_taken,
              contested>>
shownVars == <<vars, viewVars>>

HallSeats == Seats \cup Blocked \cup Rowless
Sellable  == Seats \cup Rowless

----------------------------------------------------------------------------
\* Items of confirmed orders of a session.
SoldIds(session) ==
    {s \in Seats : \E k \in Keys :
        hold[k].session = session /\ s \in hold[k].seats /\ order[k] = "confirmed"}

\* reserved_until__gt=now, and the edit to __gte.
ReservedIdsInclusive(session, time) ==
    {s \in Seats : \E k \in Keys :
        /\ hold[k].session = session /\ s \in hold[k].seats
        /\ reservation[k] = "active" /\ hold[k].until >= time}

ReservedIds(session, time) ==
    {s \in Seats : \E k \in Keys :
        /\ hold[k].session = session /\ s \in hold[k].seats
        /\ reservation[k] = "active" /\ hold[k].until > time}

\* session_seat_stats: sold and reserved seats of a session come from orders
\* and holds, those of the whole event from the EventSeat rows.
SoldSeats(session) ==
    IF session = NoSession THEN {s \in Seats : event_seats[s] = "sold"}
    ELSE SoldIds(session)

ReservedSeats(session) ==
    IF session = NoSession THEN {s \in Seats : event_seats[s] = "reserved"}
    ELSE ReservedIds(session, now)

\* reserved = len(reserved_ids - sold_ids): a seat of a session can be sold
\* and on hold; the first form counts it twice.
CountReservedTwice(session) == Cardinality(ReservedSeats(session))
CountReserved(session) == Cardinality(ReservedSeats(session) \ SoldSeats(session))

CountSold(session) == Cardinality(SoldSeats(session))

Available(session) ==
    LET used == CountSold(session) + CountReserved(session)
    IN  IF used > Cardinality(Sellable) THEN 0 ELSE Cardinality(Sellable) - used

IsFull(session) == Available(session) = 0

\* _event_capacity of an event with seats, for the card and the event page;
\* event_sessions shows Available and IsFull of every session beside it.
EventCapacity == [available |-> Available(NoSession), total |-> Cardinality(Sellable)]

\* nearest_session_payload: the next session, or else the last one; the edit
\* takes the first of the past sessions.
Upcoming == {x \in Sessions : StartsAt[x] >= now}

NearestOrFirst ==
    CHOOSE x \in Sessions :
        IF Upcoming # {}
        THEN x \in Upcoming /\ \A y \in Upcoming : StartsAt[x] <= StartsAt[y]
        ELSE \A y \in Sessions : StartsAt[x] <= StartsAt[y]

NearestSession ==
    CHOOSE x \in Sessions :
        IF Upcoming # {}
        THEN x \in Upcoming /\ \A y \in Upcoming : StartsAt[x] <= StartsAt[y]
        ELSE \A y \in Sessions : StartsAt[x] >= StartsAt[y]

\* serialize_event_card: the badge of the next session beside the totals of
\* the event; an event without sessions shows its own capacity.
EventCard ==
    [capacity |-> EventCapacity,
     sold     |-> EventCapacity.total - EventCapacity.available,
     next     |-> IF Sessions = {} THEN NoSession ELSE NearestSession,
     is_full  |-> IsFull(IF Sessions = {} THEN NoSession ELSE NearestSession),
     is_past  |-> IF Sessions = {} THEN EventStart < now ELSE Upcoming = {}]

----------------------------------------------------------------------------
\* _seat_status_for_session, from what the request has read; without a
\* session the two sets of ids are empty.  The edit drops the holds.
StatusIgnoringHolds(s, session, rows, sold, reserved) ==
    IF s \in Blocked THEN "blocked"
    ELSE IF s \in sold THEN "sold"
    ELSE IF session # NoSession THEN IF s \in Rowless THEN "blocked" ELSE "available"
    ELSE IF s \in Rowless THEN "sold" ELSE rows[s]

SeatStatusForSession(s, session, rows, sold, reserved) ==
    IF s \in Blocked THEN "blocked"
    ELSE IF s \in sold THEN "sold"
    ELSE IF s \in reserved THEN "reserved"
    ELSE IF session # NoSession THEN IF s \in Rowless THEN "blocked" ELSE "available"
    ELSE IF s \in Rowless THEN "sold" ELSE rows[s]

\* The map a request would show that had nothing running beside it.
MapNow(s, session) ==
    SeatStatusForSession(s, session, event_seats,
        IF session = NoSession THEN {} ELSE SoldIds(session),
        IF session = NoSession THEN {} ELSE ReservedIds(session, now))

\* Seats of a session that two purchases have at once: one has been confirmed
\* and waits for its payment while the other holds, confirms or pays.
Contested(session) ==
    {s \in Seats : session # NoSession /\ \E k, l \in Keys :
        /\ k # l /\ hold[k].session = session /\ hold[l].session = session
        /\ Owns(k) /\ Owns(l) /\ s \in hold[k].seats \cap hold[l].seats}

\* Seats a reserve request would get at this moment.
FreeSeats(session) == {s \in Seats : ~SeatTaken(s, session)}

InitViews ==
    /\ Init
    /\ view = "idle"
    /\ view_session = NoSession
    /\ rows_read = [s \in Seats |-> "available"]
    /\ sold_read = {}
    /\ read_at = 0
    /\ was_free = {}
    /\ was_taken = {}
    /\ contested = {}

\* GET events/<id>/seatmap/: the rows of the event are read first.
OpenMap(session) ==
    /\ view = "idle"
    /\ view' = "rows"
    /\ view_session' = session
    /\ rows_read' = IF session = NoSession THEN event_seats ELSE rows_read
    /\ was_free' = FreeSeats(session)
    /\ was_taken' = Seats \ FreeSeats(session)
    /\ contested' = Contested(session)
    /\ UNCHANGED <<vars, sold_read, read_at>>

\* `if session_id': timezone.now(), where reserve_seats has the end of a hold.
MomentAhead == now + HoldTime
Moment == now

\* Then the confirmed orders are read.
ReadSold ==
    /\ view = "rows"
    /\ view_session # NoSession
    /\ view' = "sold"
    /\ read_at' = Moment
    /\ sold_read' = SoldIds(view_session)
    /\ UNCHANGED <<vars, view_session, rows_read, was_free, was_taken, contested>>

\* The holds are read last, with the time read before.
ReservedRead ==
    IF view_session = NoSession THEN {} ELSE ReservedIds(view_session, read_at)

Shown(s) == SeatStatusForSession(s, view_session, rows_read, sold_read, ReservedRead)

AnswerMap ==
    /\ view = IF view_session = NoSession THEN "rows" ELSE "sold"
    /\ view' = "idle"
    /\ view_session' = NoSession
    /\ rows_read' = [s \in Seats |-> "available"]
    /\ sold_read' = {}
    /\ read_at' = 0
    /\ was_free' = {}
    /\ was_taken' = {}
    /\ contested' = {}
    /\ UNCHANGED vars

\* A step of the booking while a map may be under way.
BookingStep ==
    /\ Next
    /\ UNCHANGED <<view, view_session, rows_read, sold_read, read_at>>
    /\ was_free' = IF view = "idle" THEN was_free
                   ELSE was_free \cup FreeSeats(view_session)'
    /\ was_taken' = IF view = "idle" THEN was_taken
                    ELSE was_taken \cup (Seats \ FreeSeats(view_session)')
    /\ contested' = IF view = "idle" THEN contested
                    ELSE contested \cup Contested(view_session)'

NextViews ==
    \/ \E session \in AnySession : OpenMap(session)
    \/ ReadSold
    \/ AnswerMap
    \/ BookingStep

SpecViews == InitViews /\ [][NextViews]_shownVars

----------------------------------------------------------------------------
\* The seat map never invents: a seat shown as available could have been
\* reserved at some moment of the request, and one shown as reserved or sold
\* was refused at some moment of it, although its queries see different
\* moments.  Only a seat two buyers had at once may be shown available while
\* it is taken all the time.  (event_seatmap against reserve_seats)
MapHonest ==
    [][\A s \in Seats : AnswerMap =>
            /\ Shown(s) = "available" => s \in was_free \cup contested
            /\ Shown(s) \in {"reserved", "sold"} => s \in was_taken]_shownVars

\* The seat map offers exactly the seats reserve_seats would accept: never a
\* blocked one or one without a row.  (the two readers of the same rows)
MapOffersWhatSells ==
    \A session \in AnySession :
        {s \in HallSeats : MapNow(s, session) = "available"} = FreeSeats(session)

\* The seats counted as sold and the seats counted as reserved are together
\* exactly the seats a buyer is refused, each counted once, also when a seat
\* of a session is sold and on hold.  (session_seat_stats against
\* reserve_seats)
CountsAgree ==
    \A session \in AnySession :
        CountSold(session) + CountReserved(session)
            = Cardinality(Seats \ FreeSeats(session))

\* As time passes the session on the card moves on and never back, also when
\* the last one is over.  (nearest_session_payload)
NearestForward ==
    [][Sessions # {} =>
            StartsAt[EventCard'.next] >= StartsAt[EventCard.next]]_shownVars

\* The view's variables have their types.
ViewTypeOK ==
    /\ view \in {"idle", "rows", "sold"}
    /\ view_session \in AnySession
    /\ rows_read \in [Seats -> SeatStatus]
    /\ sold_read \subseteq Seats
    /\ read_at \in 0..MaxTime
    /\ was_free \subseteq Seats
    /\ was_taken \subseteq Seats
    /\ contested \subseteq Seats
=============================================================================
