------------------------------ MODULE DemoSeed ------------------------------
(***************************************************************************)
(* The management command seed_teatrshahr: it wipes and draws the demo     *)
(* hall, then writes three events with sessions and a row for every seat,  *)
(* and one event with a stock of tickets.  Nothing wraps it in a           *)
(* transaction: every row is committed by itself, and an exception leaves  *)
(* what was written.  A step is one row, or one run of rows of which none  *)
(* can fail.  Venue, organizer and prices are left out.                    *)
(***************************************************************************)
EXTENDS Naturals, Sequences

VARIABLES
    stage,       \* what the command does next
    todo,        \* seats it still has to create, as <<row, number>>
    seats,       \* Seat rows of the hall
    cells,       \* seats named by Hall.layout_json
    sessions,    \* EventSession rows of each event, by their offset
    event_seats, \* EventSeat rows of each event: seat and status
    stock        \* TicketInventory.available of the open concert, 0 for none

vars == <<stage, todo, seats, cells, sessions, event_seats, stock>>

Concert == "concert"
Theatre == "theatre"
Cinema  == "cinema"
SeatedEvents == {Concert, Theatre, Cinema}

\* The numbers of a row, left to right, and the order of the calls.
LeftNums  == [i \in 1..7 |-> 14 + i]
MidNums   == [i \in 1..12 |-> 4 + i]
RightNums == [i \in 1..6 |-> i]
RowNums(row) == IF row <= 9 THEN LeftNums \o MidNums \o RightNums ELSE RightNums

SeatsOfRow(row) == [i \in 1..Len(RowNums(row)) |-> <<row, RowNums(row)[i]>>]

AllSeats ==
    LET upto[n \in 0..11] == IF n = 0 THEN <<>> ELSE upto[n - 1] \o SeatsOfRow(n)
    IN  upto[11]

\* Day and hour of each session.
Offsets(e) ==
    IF e = Cinema THEN {<<0, 17>>, <<0, 20>>, <<1, 17>>, <<2, 20>>}
    ELSE {<<0, 19>>, <<0, 22>>, <<1, 19>>, <<1, 22>>}

\* The first run, or one after an earlier run or other work in the hall.
Init ==
    /\ stage = "hall"
    /\ todo = <<>>
    /\ seats \in {{}, {<<1, 15>>, <<1, 16>>}}
    /\ cells \in {{}, seats}
    /\ sessions = [e \in SeatedEvents |-> {}]
    /\ event_seats \in [SeatedEvents -> {{}, seats \X {"sold"}}]
    /\ stock = 0

\* Venue and hall are found or made; all seats of the hall are deleted, and
\* by cascade the rows that name them, before any seat is created.
WipeHall ==
    /\ stage = "hall"
    /\ stage' = "seats"
    /\ todo' = AllSeats
    /\ seats' = {}
    /\ event_seats' = [e \in SeatedEvents |-> {}]
    /\ UNCHANGED <<cells, sessions, stock>>

\* add_seat: Seat.objects.create under the unique (hall, row, number).
AddSeat ==
    /\ stage = "seats"
    /\ todo # <<>>
    /\ IF Head(todo) \in seats
       THEN stage' = "failed" /\ UNCHANGED <<todo, seats>>
       ELSE /\ seats' = seats \cup {Head(todo)}
            /\ todo' = Tail(todo)
            /\ UNCHANGED stage
    /\ UNCHANGED <<cells, sessions, event_seats, stock>>

\* The drawing names the seats that were made.
SaveLayout ==
    /\ stage = "seats"
    /\ todo = <<>>
    /\ stage' = Concert
    /\ cells' = seats
    /\ UNCHANGED <<todo, seats, sessions, event_seats, stock>>

\* Each event is found or made, and its sessions replaced.
SeedEvent(e, next) ==
    /\ stage = e
    /\ stage' = next
    /\ sessions' = [sessions EXCEPT ![e] = Offsets(e)]
    /\ UNCHANGED <<todo, seats, cells, event_seats, stock>>

\* update_or_create: a row that is there becomes available again.
SeedRow(e, s) ==
    /\ stage = "rows"
    /\ s \in seats
    /\ <<s, "available">> \notin event_seats[e]
    /\ event_seats' = [event_seats EXCEPT ![e] =
                        {row \in @ : row[1] # s} \cup {<<s, "available">>}]
    /\ UNCHANGED <<stage, todo, seats, cells, sessions, stock>>

SeedStock ==
    /\ stage = "rows"
    /\ \A e \in SeatedEvents : {row[1] : row \in event_seats[e]} = seats
    /\ stage' = "ready"
    /\ stock' = 1200
    /\ UNCHANGED <<todo, seats, cells, sessions, event_seats>>

Next ==
    \/ WipeHall \/ AddSeat \/ SaveLayout
    \/ SeedEvent(Concert, Theatre) \/ SeedEvent(Theatre, Cinema) \/ SeedEvent(Cinema, "rows")
    \/ \E e \in SeatedEvents, s \in seats : SeedRow(e, s)
    \/ SeedStock

Spec == Init /\ [][Next]_vars

----------------------------------------------------------------------------
\* "Sample data: seed_teatrshahr management command for a demo hall and
\* events": the command does not fail on the way.
SeedCompletes == stage # "failed"
=============================================================================
