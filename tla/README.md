# Formal model of the Event Ticketing API

TLA+ specifications of the ticket-selling core of this repository, of what buyers are shown of it
and of the halls behind it, the TLC configurations that check them on small instances, and proofs,
checked by TLAPS, that hold for every number of seats, purchases and workers.

Every definition is translated from the code under `src/`; `PROJECT.json` maps it to the lines it
stands for, and lists the hazards of the code, the runs, the edits of the code each property would
catch (`mutants`), the findings and the theorems.

    tlc -workers 2 -config booking_races.cfg MCSeatBooking
    tlapm SeatBookingProofs.tla

## 1. Inventory of the system

A Django application over PostgreSQL. The database rows are the only shared state; web workers,
Celery workers and management commands act on them at the same time. Redis holds seat locks (and
Celery's queues), Celery beat starts the periodic tasks.

| Component | State | Operations | Hard behaviour | What makes it correct |
|---|---|---|---|---|
| **Reserved seating** (`tickets/services.py`, `tickets/payments/service.py`, `tickets/session_stats.py`, `tickets/views.py`) | `Reservation`, `ReservationSeat`, `Order`, `OrderItem`, `Payment`, `EventSeat.status`, `OutboxEvent` | `reserve_seats`, `confirm_reservation` + `start_payment`, `finalize_payment` (callback and `pay_order`), `cancel_order`, `release_expired_reservations` | overlapping requests and sweeps, holds lapsing while they are confirmed, repeated and late callbacks, workers lost between transactions | no seat has two buyers; the rows of a purchase agree; the seat row tells what became of the seat; holds end |
| **Reservation request** (`tickets/redis_lock.py`, `reserve_seats`) | one Redis key per seat with token and time to live; row locks | `SET NX EX` per seat, Lua release, `select_for_update`, commit | keys expire under their owner, requests die holding keys, rows locked in no fixed order, a hall save that locks them the other way round | test and write are one step; a request removes only its own keys; every request is answered |
| **General admission** (`purchase_ticket`, `cancel_order`, `reserve_ticket`, `confirm_order`) | `TicketInventory`, `Order`, `OutboxEvent` | buy, reserve, confirm, cancel a quantity (`reserve_ticket` and `confirm_order` have no URL) | repeated keys, rollback after the decrement, unlocked read in cancel, events with seats that have an inventory too | stock + orders = total; a key buys once |
| **Expiry command** (command `expire_reservations`) | `Order.reserved_until`, `TicketInventory` | list, then one transaction per order | list read without lock, whole row written back, orders of seats on the same list, with or without a stock | a quantity returns to stock once; nothing that was bought is taken back |
| **Outbox processing** (`tickets/tasks.py`, command `process_outbox`) | `OutboxEvent.processed` | task (marks), command (publishes and marks) | overlapping workers, crash between publish and mark, rows that appear late | only committed events leave, in order, and none is lost |
| **Seat map and statistics** (`venues/views.py`, `session_seat_stats`, `events/listing.py`) | reads the rows above | `event_seatmap`, `event_sessions`, `list_events` | three queries at three moments, three readers with conditions of their own | what is shown free could be reserved; the counts agree with it |
| **Hall layout** (`venues/services.py`, `sync_event_seats`, `venues/admin.py`, `events/admin.py`) | `Hall.layout_json`, `Seat`, `EventSeat` | save a layout, save or synchronise an event, delete a seat | cascades into sold seats, renames under a unique key, stale forms, saves of hall and event at once, events synchronised with a hall they have left | seats follow the drawing; sellable seats have rows; a synchronisation removes no row that is not available |
| **Seat map editor** (`seatmap_editor.js`) | grid of cells, selection | paint, move, resize, label | cells carry `seat_id` | no `seat_id` is doubled (taken as given by HallLayout) |
| **seed_teatrshahr** (management command) | `Hall`, `Seat`, `Event`, `EventSession`, `EventSeat`, `TicketInventory` | writes the demo hall and events | no transaction, deletes first | it completes |
| **Purchase page** (`event_detail.html`) | step, selection, reservation, key, timers | select, reserve, confirm, pay | answers after a change of session | – |
| **Event list, organizers** (`events/`, `venues/models.py`) | `Event`, `EventSession`, `Organizer.slug` | list, choose the next session, unique slug | two saves of one name | slug is unique |
| Ratings, comments, admin display, settings, deployment | – | – | – | not modelled, see section 11 |

### How they interact

    client --HTTP--> views --> services.reserve_seats --Redis keys--> transaction on EventSeat,
                                                                      Reservation
                           --> services.confirm_reservation --> Order, then start_payment --> Payment
    provider callback, pay_order --> finalize_payment --> Payment, Order, Reservation, EventSeat, OutboxEvent
    cancel_order --> Order, EventSeat or TicketInventory
    Celery beat --> expire_reservations --> Reservation, EventSeat
                --> process_outbox --> OutboxEvent
    admin saves a hall --> Seat --> EventSeat of every event in it
    seat map, session list <-- EventSeat, OrderItem, ReservationSeat

A purchase of an event with reserved seating is either *for a session* (the rows that count are
confirmed orders and active reservations of that session; `EventSeat.status` is not written by holds
and payments) or *for the whole event* (`EventSeat.status` decides). `seat_taken_for_session` is
where the two part.

## 2. Structure

| Module | Models | Rests on | Proofs |
|---|---|---|---|
| `SeatOwnership` | the promise of seat sales, without rows, clocks and tasks | – | `SeatOwnershipProofs` |
| `SeatBooking` | handlers and sweep over one event with reserved seating | implements `SeatOwnership` | `SeatBookingProofs` |
| `ReserveRequest` | the inside of one reserve request for the whole event, which SeatBooking takes for one step | implements `SeatOwnership` | `ReserveRequestProofs` |
| `SeatViews` | the requests that show the rows of SeatBooking | extends `SeatBooking`, runs beside its steps | `SeatViewsProofs` |
| `GeneralAdmission` | sale by quantity and the expiry command | orders of seats as SeatBooking leaves them | `GeneralAdmissionProofs` |
| `Outbox` | the events the sales write, and who processes them | – | `OutboxProofs` |
| `HallLayout` | drawing, forms and seats of a hall | – | `HallLayoutProofs` |
| `EventRows` | the `EventSeat` rows of its events, save and synchronisation step by step | seats as HallLayout leaves them, reduced to their kind | `EventRowsProofs` |
| `DemoSeed` | the seed command | – | – |

Each `MC` module instantiates a specification for TLC. What could follow: the purchase page as the
client of SeatBooking, the editor's grid as the source of `HallLayout.Edits`, and a composition of
EventRows with SeatBooking in which a seat leaves the hall while a purchase has it.

## 3. SeatBooking

One event. A purchase is named by its idempotency key, which is unique in `Reservation` and is
copied to `Order` and `Payment`, so one key indexes all three rows.

| Variable | Code |
|---|---|
| `reservation`, `order`, `payment` | the `status` columns; `"none"` before the row exists |
| `hold` | `ReservationSeat` rows, `Reservation.session`, `Reservation.reserved_until`; the order's items are the same seats |
| `event_seats` | `EventSeat.status` |
| `outbox` | number of `order_confirmed` events of the order |
| `stage`, `target` | where a web worker is in the confirm request |
| `trial` | seats of a session a reserve request has locked and is testing, its `now`, and whether it has passed |
| `expired` | the list a running `expire_reservations` task has read and not yet visited |
| `now` | the clock, in ticks of which a hold lasts `HoldTime` |

| Action | Code |
|---|---|
| `ReserveSeats` | the transaction of `services.reserve_seats` for the whole event |
| `TestOrders`, `TestHolds`, `ReserveTested`, `LeaveTrial` | the same for a session: the query of the orders, that of the holds, the commit, and the ways out |
| `HoldSeats` | what either of them writes |
| `CheckConfirm`, `CommitConfirm`, `RefuseConfirm` | `services.confirm_reservation` before and in its transaction |
| `StartPayment` | `start_payment`, after that transaction |
| `WorkerDies` | the process or its connection is lost between these steps |
| `CapturePayment`, `FailPayment` | `finalize_payment` with and without success, from either endpoint |
| `CancelOrder` | `cancel_order` for an order with seats |
| `StartSweep`, `ReleaseHold`, `SkipHold`, `SweeperDies` | `release_expired_reservations`: list, one transaction per entry, loss of the worker |
| `Tick` | time |

A transaction is one action where it takes its row locks before it reads what it decides on. For
`reserve_seats` that is so if the purchase is for the whole event: all it tests is in the
`EventSeat` rows it has locked, and ReserveRequest shows that this makes it one step. For a session,
`seat_taken_for_session` reads orders and reservations, which these locks do not cover: a
confirmation, a payment or a sweep may commit between the queries and before the write. What the
locks do exclude is another request for one of the seats (`RowsFree`) and, since they write the row,
payments, releases and cancellations of the same seats for the whole event (`SeatRowsFree`);
`cancel_order` writes it for a session as well. The code asks both questions seat by seat; the model
reads all orders first and all holds last, which leaves the most room between them. The commit comes
less than a hold's time after the tests: gunicorn ends a request after 120 seconds
(`Dockerfile.prod:21`), a hold lasts minutes. A refused or replayed request changes no row and is a
stuttering step. A client may send any request at any time with any key. The holds of sessions,
which do not use `EventSeat.status`, and those of the whole event live in one model because
`cancel_order` and the sweep treat them differently.

Properties: `RowsAgree`, `AnnouncedOnce`, `SoleClaim`, `SeatRowAgrees`, `SessionHoldsDisjoint`,
`ForwardOnly`, `LostOrderKept`, `HoldsEnd`, `ImplementsOwnership`. `SessionHoldsDisjoint` depends on
the row locks although these are not on the rows it is about: without `select_for_update` two
requests test before either writes. It speaks of live holds, and a hold whose time is exactly now is
not live (`reserved_until__gt`) though it can still be confirmed. `SoleClaim` and `SeatRowAgrees`
exempt seats that `Clobbered` names: those whose row `cancel_order` has freed on behalf of a
session's order although a purchase of the whole event may have paid for the seat: it lacks the test
`if not order.session_id` of `finalize_payment`. With no session in the event the exemption is
empty. `LostOrderKept` follows an order whose worker was lost between the confirm transaction and
`start_payment`: it is out of everybody's reach. A retry is refused, no task expires it,
`finalize_payment` and `cancel_order` find nothing to do, so it and its seats stay reserved for
ever.

**SeatOwnership** is the promise without rows, clocks and tasks: a purchase takes a set of seats
nobody has, keeps exactly these until it is paid or over, and never comes back. The refinement maps
a purchase to the seats of its hold while the reservation is active or the order reserved or
confirmed. It holds for events without sessions; with sessions it is false (finding 1 below).

## 4. ReserveRequest

`reserve_seats` of concurrent requests, step by step, for whole-event holds of one event, beside
other transactions (`Writers`) that lock rows of the same seats.

| Variable | Code |
|---|---|
| `want` | `seat_ids` |
| `pc` | progress of each request and writer |
| `redis` | the token under each seat's key (a request's name is its token) |
| `acquired` | `MultiRedisLock._acquired` |
| `row_lock`, `seat_lock`, `asks` | locks on `EventSeat` and `Seat` rows, granted and waited for in PostgreSQL |
| `event_seats` | committed `EventSeat.status` |

`SetKey`, `KeyTaken`, `DeleteKey`, `Unlocked` are `MultiRedisLock`; `AskRow`, `GetRow`, `SeatsFree`,
`SeatTaken`, `Commit` the transaction. External behaviour is modelled from the calls: `KeyExpires`
is Redis' time to live, which may run out at any moment; `DeadlockVictim` is PostgreSQL failing one
transaction of a cycle; `Dies` is a lost worker or an exception, which rolls back the rows and
leaves the keys behind. Rows are visited in an arbitrary order since the query has no `order_by`.
After the tests a request needs the `Seat` rows too: its `ReservationSeat` rows refer to them.

The writers are a save of the hall (`BeginHall`, `SeatsDrawn`), which locks `Seat` rows `FOR UPDATE`
(`venues/services.py:59`) and then updates prices in `EventSeat` rows (`tickets/services.py:57`),
and the transactions that go straight to the `EventSeat` rows (`BeginRows`): payments, sweeps,
cancellations, saves of the event. Only their locks are modelled here; what they write is
SeatBooking's and EventRows' subject. The hall save takes the two kinds of rows in the opposite
order of a request, so that even a request for one seat may be the victim of a deadlock.
`Deadlocked` are the members of a cycle of waiting transactions, each of which has a row the next
one waits for; one that waits behind such a cycle is not among them.

`TestStillTrue` and `ReservesAtomically` say that the row locks make test and write one step,
`OnlyOwnKeys` that a key that expired and was taken by another is not deleted by its first owner,
`AllAnswered` that every request is answered although transactions deadlock and workers die,
`KeysComeFree` that a lost worker's keys do.

## 5. GeneralAdmission

`Buy`, `RefuseSale` and `Replay` are `purchase_ticket`, one transaction under the inventory row's
lock. `ReadStock` and `WriteStock` are the two halves of `cancel_order`: it locks the order, but
reads the inventory row without a lock and later saves all of it. `CancelDies` is a worker lost in
between. `Reserve` and `ConfirmOrder` are `reserve_ticket` and `confirm_order`, which no URL leads
to; they are kept in the model because the expiry command exists for what they leave behind. The
retry loop on `DatabaseError` repeats a transaction that was rolled back and is not modelled as
steps.

`Events` have a `TicketInventory` row, `SeatEvents` sell seats, and the two may overlap: nothing in
the admin (`tickets/admin.py:11`, `events/admin.py:80`) or in `purchase_ticket` keeps an event with
reserved seating from having an inventory row. `OrderSeats`, `FinalizeSeats` and `CancelSeats` are
what SeatBooking's handlers do to the `Order` row, its payment and its outbox events, and no more.

`ListExpired`, `ExpireOrder` and `CommandAborts` are the command `expire_reservations`. Its list
holds every reserved order past its time, those of seats too. It visits each under the lock of the
inventory row and saves the order as it had read it, whatever the order is by then. If the event of
an order has no inventory row, `TicketInventory.objects.get()` raises and the run ends, with the
orders behind it unvisited. If it has one, an order of seats is expired like any other, and its
quantity is added to a stock it never came from; its payment may still come, and then
`finalize_payment` confirms it again.

`overwritten` records the events whose stock was set from a row read too early, by a cancellation,
by a second visit to one order or by the expiry of an order of seats; `Conserved` is stated for the
others, and `admission_oversell` shows what happens to the rest. `BoughtOnce` follows each key: the
event and quantity of its order never change, `order_confirmed` is written when the order is first
confirmed and never again, and tickets that are cancelled or expired are not sold again.
`AnswersStand` is about the last answer of `purchase_ticket`, whoever has run since: "created" names
an order of that event that was confirmed, whatever it is now, and announced once, "duplicate" an
order of that event, "server error" a key whose order is of another one. Tickets are counted as
pairs of an order and a number up to its quantity (`Tickets`), so that sums are cardinalities.

## 6. Outbox

A row is `open` while the transaction of a request that wrote it runs, then `pending` or rolled
back. Events are numbered in the order of `created_at`, which is taken at the insert, so that a row
may become visible after a younger one. `ReadBatch` is the one query of a run; `TaskMarks` is the
loop of the Celery task, `CommandPublishes` and `CommandMarks` the two steps of the command's loop,
`ProcessorDies` the loss of either. Saves go by primary key and ask nothing, so runs that overlap
mark and publish the same rows again. `publish_event` writes a log line; the line is what downstream
integration would read and counts as the publication.

`overtaken` and `task_marked` are history: the events that were committed after a younger one was
read, and those some task has marked. `OldestFirst` and `MarkedAfterPublishing` say that these two
are the only ways for an event to leave out of order or unpublished. The first is inherent in
ordering by insertion time, the second a divergence from the documentation (section 9); the theorem
`CommandAlonePublishes` shows that without the task nothing is lost.

## 7. SeatViews

`SeatViews` extends SeatBooking with a client that asks for the seat map while the handlers run.
`OpenMap` reads the `EventSeat` rows, `ReadSold` the clock and the confirmed orders of the session,
`AnswerMap` the holds; `BookingStep` is any step of SeatBooking, which the theorem `ViewsOnlyRead`
turns into: every theorem about SeatBooking holds here. `Blocked` are seats of that kind, `Rowless`
seats that were drawn after the event was last synchronised. `Available`, `IsFull`, `EventCapacity`,
`NearestSession`, `EventCard` are the counts and the card of the event list; an event without
sessions is over when its own time (`EventStart`) is.

* `MapHonest`: with the three queries at three moments, a seat shown as available was free at some
  moment of the request and one shown as reserved or sold was refused at some moment of it. The
  order of the queries matters: orders before holds means that a hold that is confirmed and paid for
  in between may be missed by both, and the property holds because between confirm and payment a
  seat of a session is free (section 9). `contested` are the seats two buyers had at once because of
  that.
* `MapOffersWhatSells`: the conditions of the map and of `reserve_seats` single out the same seats.
* `CountsAgree`: what is counted as sold and as reserved is exactly what `reserve_seats` refuses
  among the seats with an `EventSeat` row, each counted once. How many seats there are is another
  matter: see section 9.
* `NearestForward`: the session on the card never goes back.

The counts are taken at one moment; their queries could be torn like those of the map.

## 8. HallLayout, EventRows and DemoSeed

**HallLayout.** A hall is a set of squares, a drawing (`layout`) assigns cells to them, and each key
in `Ids` may have a `Seat` row. `OpenForm` loads the drawing, or the one
`build_layout_v2_from_seats` makes when there is none, into a browser window. `Save` sends any edit
of what was loaded: cells painted, erased, moved, labelled, in any order, with a seat's id on at
most one of them. `SaveHall` is `HallAdmin.save_model` up to the seats: the drawing,
`sync_hall_layout_to_seats` with the keys written back and the removal of the other seats. Django
wraps the admin's view in one transaction, whose first write is the UPDATE of the hall row; a save
that breaks the unique (hall, row, number) rolls back (`Collides` is a guard, so that a rename is
done as a whole or not at all). The browser's way back leads to the form as it was loaded (`kept`),
which makes one window as good as several. `DeleteSeat` is the seat's own admin page.

* `SeatsFollowLayout`: after any number of saves each seat is drawn in one place and is what is
  drawn there.
* `CellsAreSeats`: each saved cell names a seat, except `orphaned` ones. A form loaded before its
  seat was deleted brings the cell back, and `sync_hall_layout_to_seats` skips it: the cell stays
  without a seat.

**EventRows.** The rows of the events held in the hall, with the two transactions that create and
remove them taken apart. A seat is reduced to its `kind`.

| Variable | Code |
|---|---|
| `kind` | `Seat.kind`, or `unborn`, or `deleted` |
| `hall` | `Event.hall` of an event with reserved seating: this hall, another one, or none |
| `event_seat` | committed `EventSeat` rows and their status; `taken` is any but available |
| `saving` | the save of the hall under way: the seats as it has written them, the events its query at `venues/admin.py:245` has listed, the rows it has still to visit and those it has inserted |
| `job` | a synchronisation: its event, the hall it was told, the seats it has read, those to visit, the rows it has inserted |
| `missed` | history: events last synchronised from what was no more so |

| Action | Code |
|---|---|
| `SaveHall`, `SaveRow`, `CommitHall`, `FailHall` | `HallAdmin.save_model`: seats and the query of the events, `get_or_create` row by row, the commit with its cascades, the rollback |
| `SaveEvent`, `SaveUnseated` | `EventAdmin.save_related` of an event with this hall or another one; of one without hall or reserved seating |
| `ListEvent` | the action *synchronise seats*, and the save of another hall: an event that was listed earlier, with the hall it had then |
| `ReadSeats`, `GetOrCreate`, `CommitSync`, `FailSync` | `sync_event_seats`: the query of the seats, one row after the other, the removal of the rest with the commit, a rollback |
| `DeleteSeat`, `SeedRow`, `Book` | the seat's admin page; `seed_event_seats`; any change of `EventSeat.status` SeatBooking makes |

`sync_event_seats` locks neither the hall nor the event. The hall's row lock keeps two saves of the
hall apart and nothing else: an event can join the hall between the save's query and its commit.
What others wait for is an uncommitted row of the same event and seat (`Uncommitted`) and, at the
commit, the seats a save of the hall has locked.

* `SellableHaveRows`: each event in the hall has a row for every seat that is not blocked, unless it
  is in `missed`. It comes there in three ways: a save of the hall is committed after a
  synchronisation of the event has read the seats; the event joins the hall after its save has
  listed the events; a synchronisation with a hall the event has left is committed after it has
  moved here, and deletes its fresh rows as rows of another hall's seats. The next synchronisation
  that knows the seats repairs it. TLC finds each of the three when its clause is left out.
* `RowsStay`: while a seat exists, its row goes only if it is available and the event leaves the
  hall or is missed. So a synchronisation never removes the row of a seat held or bought *for the
  whole event*. It is no promise to buyers *for a session*: their purchases leave the row available
  (`tickets/services.py:135`, `tickets/payments/service.py:82`), and when the event moves to another
  hall the rows go although the seats are sold. Removing a seat from the drawing deletes its rows
  whatever their status: the cascade of `to_remove.delete()` does not ask.

`DemoSeed` follows `seed_teatrshahr` row by row, with the real seat numbers, over a hall that is new
or already in use. Nothing wraps the command in a transaction.

## 9. Runs

Passing:

| Run | Instance | States | Shows |
|---|---|---|---|
| `booking_races` | 3 purchases of 1 seat, whole event or 1 session, 2 workers, 2 sweeps | 1,228,000 | `SoleClaim`, `SeatRowAgrees`, `SessionHoldsDisjoint`, `RowsAgree`, `AnnouncedOnce`, `ForwardOnly`, `LostOrderKept` |
| `booking_ownership` | 3 purchases, 2 seats, no session, fairness | 516,000 | implementation of SeatOwnership; every hold is confirmed or released |
| `seat_views` | 2 purchases of 1 seat in 2 sessions or none, 1 worker, 1 sweep, a blocked seat and one without a row, one map request at a time | 423,000 | the map is honest; map, counts and sale agree; the card moves forward |
| `admission_stock` | an event with 2 tickets that sells seats too, one with seats only, 2 keys, quantities 1 and 2, 2 cancellers, 2 runs of the command | 215,000 | stock is conserved, keys buy once, answers stay true, orders are cancelled once |
| `reserve_locks` | 2 requests and 1 other transaction, 2 seats, fairness | 74,000 | row locks make a request atomic; only own keys are deleted; every request is answered, every key comes free |
| `outbox_delivery` | 3 events, 2 tasks, 1 command, batches of 2, fairness | 200,000 | what leaves is committed and in order, the command loses nothing, every event is marked |
| `hall_layout` | 2 squares, 3 keys, 3 drawings of a cell, 1 window | 5,200 | seats and drawing stay together |
| `event_rows` | 2 seats, 1 event, 2 synchronisations and a save of the hall | 1,198,000 | sellable seats have rows, rows stay, but for `missed` |

Findings, each a run TLC must find violated:

| Run | What the code does | What the repository says |
|---|---|---|
| `session_double_sale` | between confirm and payment a seat of a session is free again; two buyers pay for it | row locks as the correctness layer (`README.md:120`) |
| `unpaid_seat_kept` | seats of a confirmed, unpaid order are never given back | task to expire unpaid holds (`README.md:9`) |
| `admission_oversell` | a cancellation overwrites a concurrent sale in the stock | concurrent-safe inventory (`README.md:7`) |
| `demo_seed` | the 18th seat repeats a number under the unique constraint: the command fails with the hall wiped | sample data for a demo hall and events (`README.md:13`) |

Divergences the models show and no run is spent on:

* The periodic task sets `processed` and does nothing else; only the command of the same name calls
  `publish_event`, and it skips what is processed. With beat running, events reach nobody, while
  `README.md:12` has rows "for downstream integration (processed by a periodic task)".
  `MarkedAfterPublishing` names the task as the only cause, `CommandAlonePublishes` proves it.
* `README.md:141` says that a reserved event "uses `EventSeat` counts". `session_seat_stats` counts
  every seat of the hall that is not blocked, so a seat drawn after the last synchronisation counts
  as available (`Rowless` in `Available`) though `reserve_seats` refuses it and the map shows it as
  blocked or sold.
* A request for one seat can be failed by a deadlock with a save of the hall (section 4); nothing
  catches the error.
* An event that joins a hall while the hall is saved, or that is synchronised for a hall it has
  left, lacks rows for seats on sale (`missed`).
* The rows of seats bought for a session are removed when the event moves to another hall
  (`RowsStay`).
* The expiry command expires orders of seats of an event that has an inventory row, and adds them to
  its stock (section 5).
* `cancel_order` frees the seat row of an order for a session (`Clobbered`, section 3).
* A worker lost between the confirm transaction and `start_payment` leaves an order without payment,
  and a repeated confirm is refused because the reservation is no longer active (`LostOrderKept`).
* The stock is tested before the key: the retry of the buyer of the last tickets is refused
  (`RefuseSale`). A key used for another event makes the duplicate handler fail (`Replay` answers
  "server error").
* The Redis keys are given back before the transaction begins (`Unlocked`); requests may deadlock on
  the rows, which are locked in no fixed order (`Deadlocked`).
* Two runs of the expiry command put one order back into stock twice, and a run expires an order
  that was confirmed after the list was read (`ExpireOrder`). The first oversells the event even
  without a cancellation.

### Bounds

`Keys` bounds the purchases, `MaxTime` the clock, `Quantities` and `Total` the stock. Two purchases
are enough for a conflict over a seat; the third one lets a seat pass from one buyer to another
while the sweep still has the first one's hold in its list. No handler relates two seats of one
request, so one seat shows the races of the rows; two seats are in `booking_ownership`, where holds
overlap without being equal, and in `reserve_locks`, where their row locks come in both orders; the
proofs are for any number. `HoldTime = 1` and `MaxTime = 4` let a hold be made, be exactly at its
limit and be past it, and a second one be made after that and run out in its turn (the runs of
findings need no more than 3); `ReserveSeats` requires `now + HoldTime < MaxTime`, so that every
hold made can lapse, without which `HoldsEnd` would depend on the bound. Two workers on one
reservation give every order of the two tests of its status, two sweeps one list that is stale twice
over. In `seat_views` one session starts before the clock's end and one after the first, so that the
card shows the first, the second and the last of those past. Two purchases suffice there: a map sees
a seat change hands at most through two buyers, and the proof has no such bound. Stock 2 with
quantities 1 and 2 has the cases exactly enough, too little and rest; two keys are a sale and its
rival on the one stock, with cancellation, expiry and repeats of either, for tickets or for seats of
the same event; the oversale of the finding needs a third, and its run has it. The proofs have no
such bound. Three events with batches of 2 leave one behind the batch; `MaxCopies = 2` lets an event
be published twice. In `hall_layout` two squares and three keys have every case of moving, swapping
and replacing a seat, one of the drawings has a kind that is no choice, two share a label. In
`event_rows` two seats let a save add one and remove or block the other; rows of different events
meet nowhere, so one event is enough, and two synchronisations of it beside the save of the hall
have every pair of writers. In `reserve_locks` two requests and a writer have the cycles of two
requests, of a request with the hall save, and of three. `Ids` bounds the keys ever handed out, so a
key is never used again, as with a database sequence. Safety runs use symmetry of interchangeable
sets, liveness runs do not. Deadlock checking is off: all purchases may be over and the clock at its
bound, all events processed, all keys handed out.

### Fairness

In SeatBooking the clock runs; beat starts the expiry task every minute (`core/settings.py`,
`CELERY_BEAT_SCHEDULE`) and a running task goes on through its list. A worker may be lost any number
of times, so the release of a given reservation is strongly fair: listed again and again, it is
visited one day. A web worker that is not lost finishes its request, and one that is lost in the
middle of its tests gives up its locks (`ReserveTested` or `LeaveTrial`). Nothing is assumed of
clients: nobody has to confirm, pay or retry. In ReserveRequest a request or writer that can go on
does (also a lost one is answered, by its connection), PostgreSQL fails a member of each deadlock
and Redis expires keys. In Outbox beat starts the task again and again and its next row is marked
one day although workers are lost; nothing is assumed of the command, which nobody schedules, nor of
the transactions that write. The other modules have safety properties only.

## 10. Proofs

The eight `Proofs` modules are checked by `tlapm` to the last leaf. Assumptions: the named `ASSUME`s
on constants (null values lie outside their sets, times, bounds and stock are natural numbers, sets
of seats that are counted are finite).

**SeatBooking.** `IndInv` is `TypeOK`, `CallsAgree`, `TrialsHold`, `RowsAgree`, `AnnouncedOnce`,
`SoleClaim`, `SeatRowAgrees` and `SessionHoldsDisjoint`. The parts need each other: that releasing a
hold frees only its own seats needs `SoleClaim`; that a new hold takes no claimed seat needs
`SeatRowAgrees`; that the capture of a payment acts on a purchase that still has its seats needs
`RowsAgree` (a pending payment goes with a confirmed reservation and a reserved order), and that
`StartPayment` creates no payment without order needs `CallsAgree`. `TrialsHold` carries
`SessionHoldsDisjoint` over the tests of a request: what it has found free stays free of holds as
long as it has the rows, because no other request can test one of its seats, and no other step makes
a hold. `WhatIsReserved` says what either kind of request finds before it writes. One lemma per part
(`TypeStep`, `CallsStep`, `TrialsStep`, `RowsStep`, `SeatsStep`, `HoldsStep`) goes through the
actions. `NoDoubleSale`, `SeatRowsTell`, `RowsAlwaysAgree`, `AlwaysAnnouncedOnce`,
`SessionHoldsNeverMeet` follow, `NothingIsRevived` is the action property, and `Implementation` maps
each step to one of SeatOwnership, for `Sessions = {}`. `LostOrdersKept` has a lemma for the rows of
such an order (`LostRowKept`: each action that could touch them asks for an active reservation, a
pending payment or a confirmed order); that its seats stay reserved is `SeatRowAgrees` in the next
state.

**SeatOwnership.** `OwnershipKept`: a purchase has seats exactly while it is under way, and no two
have one. Its implementations inherit this through an instance of the proof module under the
refinement mapping (`Promise`): `RowsKeepPromise` for SeatBooking, from `Implementation`, and
`NoSeatReservedTwice` for ReserveRequest.

**ReserveRequest.** The invariant adds to `TestStillTrue` that a writing request has all its rows
and that only a transaction that locks rows waits for one. A step that neither commits nor takes a
row from somebody (`Quiet`) preserves it; the test and the commit are the two others.
`Implementation` shows that only `Commit` changes who owns what. Redis does not appear in the
argument: the keys are not needed for correctness. What they are is a second invariant,
`KeysOfRequests`: a request acquires keys it wants, and one is missing while it is locking.
`TypeCorrect` and `ForeignKeysStay` (`OnlyOwnKeys`) rest on it; that the next key exists at all is
well-foundedness of the natural numbers (`LeastSeat`).

**GeneralAdmission.** The invariant is `TypeOK`, `LockedOrdersConfirmed`, that payments belong to
orders of seats and these to events that sell seats (`SeatOrders`), that orders of tickets belong to
events with a stock (`TicketOrders`), that an order is announced from the moment it is confirmed,
and once (`Announced`), and that what the command has listed are orders. An order being cancelled
stays confirmed because every other writer waits for its row or asks for another status, hence
`BoughtOnce`. For the stock, `StockKept` says of the events not overwritten that the tickets held
are finitely many and make up the total with those available. Each action moves one order:
`MoreTickets` and `FewerTickets` say what a new or a vanished live order does to the count,
`SameTickets` that any other change does nothing, `TakeStock` and `GiveBack` join them with the
stock. A cancellation keeps the sum only if the row it has read is still current; if not, the event
is in `overwritten` from that step on, which is why the invariant needs no further clause about what
was read. `StockConserved` and `SoldWithinStock` follow. `SafeWithoutCancels` is the other side of
the finding `admission_oversell`: with no `cancel_order`, one run of the command at a time and no
event that sells both seats and tickets, nothing is ever overwritten, because an order of an event's
stock is still reserved or confirmed when the one list that names it comes to it (`ListedOut`), so
no event is oversold. All three hypotheses are needed: a cancellation, a second run and an expired
order of seats each oversell by themselves. `AnswersKept` rests on `RowSteps`, what a step may do to
one order.

**Outbox.** `MarkedAfterPublishing` and `OldestFirst` speak of rows; a run half way through its
batch makes them inductive: what it has read was committed, a command that has published stands at a
row it has published, and its batch leaves out no older pending row but an overtaken one. That the
oldest rows of a batch are closed under being older is `OldestClosed`, an argument on cardinalities.

**SeatViews.** `MapOffersWhatSells` and `CountsAgree` hold in every state of the right type, the
second because what is counted and what is refused are one set. `MapHonest` needs what a request has
read related to what it has lived through: its history covers the present (`HistoryCovers`), rows
and orders it has read were so, holds still listed are refused (`HeldSince`), and an order paid for
since the orders were read was free, or contested, before it was paid (`SoldSince`).
`BookingChanges` is what the steps of SeatBooking can do to that. Typing needs `HoldTime > 0`.
`CardMovesForward` needs that the sessions asked for exist: the earliest one to come by
well-foundedness (`LeastNumber`), the latest one of all because the session with the fewest after it
has none (`LatestSession`). Then the card shows a session to come as long as there is one, and time
only takes sessions away from these.

**HallLayout.** The invariant adds that drawings and forms name keys that were handed out
(`NamesBorn`; a fresh key can then collide with no stale form) and that what a form names and is
gone is in `orphaned` (`FormsCovered`). `SaveStep` is the long case; its lemmas say what a saved
drawing names and which seats follow from it.

**EventRows.** A synchronisation, or the save of the hall, that still works from the seats as they
are has come to, or will come to, each sellable seat without a row (`JobsCurrent`, `SaveCurrent`).
Inserting a row needs that no other transaction has inserted it; removing rows needs that one which
knows the seats removes none of them. `CommitHallStep` and `CommitSyncStep` are the cases in which
the seats or the rows change under the others; `RowsAreKept` falls out of the same case analysis
(`Stays`).

Every invariant and action property of the passing runs is a theorem. Only model-checked are
`HoldsEnd`, `AllAnswered`, `KeysComeFree` and `EventsProcessed` (liveness under fairness is beyond
the prover), and the runs that end in a violation, which are counterexamples. DemoSeed has no
theorem: its one property is false.

## 11. What is not modelled

* Prices and totals: no branch of the sale depends on them.
* `complete_order_payment`: no caller. Ratings and comments: each request inserts one row nothing
  else reads for a decision.
* The purchase page: it can only send requests SeatBooking allows in any order. The mouse and brush
  code of the editor: the server takes any drawing, and HallLayout any edit.
* Organizer and venue lists, serialisation, templates, admin display, settings, migrations and
  deployment. Editing orders or stock by hand in the admin.
* The slug of an organizer: a loop over a unique column nothing else depends on.
* Purchases whose key was used both for seats and for general admission, and purchases whose seat
  leaves the hall: EventRows shows which rows go, SeatBooking has a fixed set of seats.
* Tests of `reserve_seats` for a session among the locks of ReserveRequest: that module is about the
  whole event.
* A half-done rename of seats: the admin's transaction refuses the save as a whole.
* PostgreSQL's isolation beyond READ COMMITTED with row locks, the default the settings leave in
  place.
