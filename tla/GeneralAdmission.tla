-------------------------- MODULE GeneralAdmission --------------------------
(***************************************************************************)
(* Tickets sold by quantity out of a TicketInventory row.  purchase_ticket *)
(* is one transaction under the lock of the inventory row.  cancel_order   *)
(* locks the order row only: it reads the inventory row without a lock and *)
(* later writes all of it back, so it is split between the two.  Deadlock  *)
(* retries repeat the transaction and are not steps of their own.          *)
(*                                                                         *)
(* reserve_ticket and confirm_order sell the same stock in two steps, and  *)
(* the management command expire_reservations takes back what was only     *)
(* reserved.  It reads its list of orders without a lock, visits each in a *)
(* transaction that locks the inventory row but not the order, and saves   *)
(* the order as it read it, whatever has become of it since.  Orders for   *)
(* seats are on the same list.  Nothing keeps an event with reserved seats *)
(* from having an inventory row too: then tickets of both kinds are sold.  *)
(***************************************************************************)
EXTENDS Naturals, FiniteSets

CONSTANTS
    Events,      \* events that have an inventory row
    SeatEvents,  \* events that sell seats; some may also have the row
    Total,       \* TicketInventory.total of each
    Keys,        \* idempotency keys clients may use
    NoKey,
    Quantities,  \* quantities clients ask for
    Cancellers,  \* web workers, each in at most one cancel request
    Commands,    \* processes running the expire_reservations command
    HoldTime,    \* the five minutes of reserve_ticket, in clock ticks
    MaxTime      \* bound on the clock

ASSUME TotalAssumption == Total \in [Events -> Nat]
ASSUME QuantityAssumption == Quantities \subseteq Nat \ {0}
ASSUME NoKeyAssumption == NoKey \notin Keys
ASSUME TimeAssumption == HoldTime \in Nat /\ MaxTime \in Nat

VARIABLES
    available,    \* TicketInventory.available
    order,        \* the Order row under each key
    payment,      \* the Payment of an order for seats
    outbox,       \* how many order_confirmed events name the order
    cancelling,   \* the order row each canceller has locked
    seen,         \* and what it has read of its inventory row
    overwritten,  \* history: events whose stock was set from a row read too early,
                  \* or given tickets that were not out
    reply,        \* the last answer purchase_ticket gave
    listed,       \* the orders a running command still has to visit
    now           \* the clock

vars == <<available, order, payment, outbox, cancelling, seen, overwritten, reply, listed,
          now>>

NoOrder == [status |-> "none"]
Status  == {"reserved", "confirmed", "cancelled", "expired"}
Order   == [status : Status, kind : {"tickets", "seats"}, event : Events \cup SeatEvents,
            quantity : Quantities, until : 0..MaxTime]
Reply   == [key : Keys, event : Events,
            answer : {"created", "duplicate", "not enough", "server error"}]
NoReply == [answer |-> "none"]

Init ==
    /\ available = Total
    /\ order = [k \in Keys |-> NoOrder]
    /\ payment = [k \in Keys |-> "none"]
    /\ outbox = [k \in Keys |-> 0]
    /\ cancelling = [c \in Cancellers |-> NoKey]
    /\ seen = [c \in Cancellers |-> 0]
    /\ overwritten = {}
    /\ reply = NoReply
    /\ listed = [x \in Commands |-> {}]
    /\ now = 0

----------------------------------------------------------------------------
\* The stock test, and the one a hurried edit writes.
EnoughForOne(e, q) == available[e] > 0
Enough(e, q) == available[e] >= q

Answer(k, e, text) == reply' = [key |-> k, event |-> e, answer |-> text]

\* Whether the unique key column accepts a new order, and a table without it.
KeyUnchecked(k) == TRUE
KeyIsNew(k) == order[k] = NoOrder

\* What a rolled back purchase leaves of the stock: all of it, or, when the
\* decrement is committed by itself, what the decrement left.
DecrementKept(e, q) == [available EXCEPT ![e] = @ - q]
RolledBack(e, q) == available

\* POST events/<id>/tickets/ that sells; reserved_until stays null (0 here:
\* only the time of a reserved order is ever looked at).
Buy(k, e, q) ==
    /\ Enough(e, q)
    /\ KeyIsNew(k)
    /\ available' = [available EXCEPT ![e] = @ - q]
    /\ order' = [order EXCEPT ![k] =
                    [status |-> "confirmed", kind |-> "tickets", event |-> e,
                     quantity |-> q, until |-> 0]]
    /\ outbox' = [outbox EXCEPT ![k] = @ + 1]
    /\ Answer(k, e, "created")
    /\ UNCHANGED <<payment, cancelling, seen, overwritten, listed, now>>

\* The stock is looked at before the key is.
RefuseSale(k, e, q) ==
    /\ ~Enough(e, q)
    /\ Answer(k, e, "not enough")
    /\ UNCHANGED <<available, order, payment, outbox, cancelling, seen, overwritten, listed, now>>

\* The insert violates the unique key: the transaction is rolled back and the
\* order is looked up by event and key, which fails for an order of another
\* event with an exception nobody catches.
Replay(k, e, q) ==
    /\ Enough(e, q)
    /\ ~KeyIsNew(k)
    /\ available' = RolledBack(e, q)
    /\ Answer(k, e, IF order[k].event = e THEN "duplicate" ELSE "server error")
    /\ UNCHANGED <<order, payment, outbox, cancelling, seen, overwritten, listed, now>>

\* Order.objects.select_for_update() waits for a canceller that has the row;
\* without the lock it does not.
OrderUnlocked(k) == TRUE
OrderFree(k) == \A c \in Cancellers : cancelling[c] # k

\* PATCH orders/<id>/cancel/, up to the read of the inventory row.
ReadStock(c, k) ==
    /\ cancelling[c] = NoKey
    /\ OrderFree(k)
    /\ order[k].status = "confirmed"
    /\ order[k].kind = "tickets"
    /\ cancelling' = [cancelling EXCEPT ![c] = k]
    /\ seen' = [seen EXCEPT ![c] = available[order[k].event]]
    /\ UNCHANGED <<available, order, payment, outbox, overwritten, reply, listed, now>>

\* The rest of it: inventory.save(), order.save(), commit.  A value other
\* than the one read is written over.
WriteStock(c) ==
    LET k == cancelling[c]
        e == order[k].event
    IN  /\ k # NoKey
        /\ available' = [available EXCEPT ![e] = seen[c] + order[k].quantity]
        /\ order' = [order EXCEPT ![k].status = "cancelled"]
        /\ overwritten' = IF available[e] = seen[c] THEN overwritten ELSE overwritten \cup {e}
        /\ cancelling' = [cancelling EXCEPT ![c] = NoKey]
        /\ seen' = [seen EXCEPT ![c] = 0]
        /\ UNCHANGED <<payment, outbox, reply, listed, now>>

\* The worker is lost; the database rolls back and frees the order row.
CancelDies(c) ==
    /\ cancelling[c] # NoKey
    /\ cancelling' = [cancelling EXCEPT ![c] = NoKey]
    /\ seen' = [seen EXCEPT ![c] = 0]
    /\ UNCHANGED <<available, order, payment, outbox, overwritten, reply, listed, now>>

----------------------------------------------------------------------------
Tick ==
    /\ now < MaxTime
    /\ now' = now + 1
    /\ UNCHANGED <<available, order, payment, outbox, cancelling, seen, overwritten, reply, listed>>

\* reserve_ticket, under the lock of the inventory row and a fresh key.
Reserve(k, e, q) ==
    /\ Enough(e, q)
    /\ KeyIsNew(k)
    /\ now + HoldTime < MaxTime            \* bound: every reservation can lapse
    /\ available' = [available EXCEPT ![e] = @ - q]
    /\ order' = [order EXCEPT ![k] =
                    [status |-> "reserved", kind |-> "tickets", event |-> e,
                     quantity |-> q, until |-> now + HoldTime]]
    /\ UNCHANGED <<payment, outbox, cancelling, seen, overwritten, reply, listed, now>>

\* confirm_order, under the lock of the order row; the status test and its
\* loss.
ConfirmableAgain(k) == order[k].status \in {"reserved", "confirmed"}
Confirmable(k) == order[k].status = "reserved"

ConfirmOrder(k) ==
    /\ OrderFree(k)
    /\ Confirmable(k)
    /\ order[k].until >= now
    /\ order' = [order EXCEPT ![k].status = "confirmed"]
    /\ outbox' = [outbox EXCEPT ![k] = @ + 1]
    /\ UNCHANGED <<available, payment, cancelling, seen, overwritten, reply, listed, now>>

\* An order for seats as confirm_reservation leaves it, with the payment that
\* start_payment adds unless the worker is lost first.
OrderSeats(k, e, q) ==
    /\ KeyIsNew(k)
    /\ now + HoldTime < MaxTime
    /\ order' = [order EXCEPT ![k] =
                    [status |-> "reserved", kind |-> "seats", event |-> e,
                     quantity |-> q, until |-> now + HoldTime]]
    /\ \E p \in {"none", "pending"} : payment' = [payment EXCEPT ![k] = p]
    /\ UNCHANGED <<available, outbox, cancelling, seen, overwritten, reply, listed, now>>

\* finalize_payment tests the payment and not the order, which the command may
\* have expired; it announces an order that has not been announced.
FinalizeSeats(k, status) ==
    /\ payment[k] = "pending"
    /\ OrderFree(k)
    /\ order' = [order EXCEPT ![k].status = status]
    /\ payment' = [payment EXCEPT ![k] = "final"]
    /\ outbox' = [outbox EXCEPT ![k] = IF status = "confirmed" /\ @ = 0 THEN 1 ELSE @]
    /\ UNCHANGED <<available, cancelling, seen, overwritten, reply, listed, now>>

\* cancel_order of an order that has items: no stock is touched.
CancelSeats(k) ==
    /\ OrderFree(k)
    /\ order[k].status = "confirmed" /\ order[k].kind = "seats"
    /\ order' = [order EXCEPT ![k].status = "cancelled"]
    /\ UNCHANGED <<available, payment, outbox, cancelling, seen, overwritten, reply, listed, now>>

\* The command's query, for every event at once.
ListExpired(x) ==
    /\ listed[x] = {}
    /\ listed' = [listed EXCEPT ![x] =
                    {k \in Keys : order[k].status = "reserved" /\ order[k].until < now}]
    /\ UNCHANGED <<available, order, payment, outbox, cancelling, seen, overwritten, reply, now>>

\* One order of the list: its quantity goes into stock and the order is saved
\* as expired.  Nothing asks whether it is still reserved or is for seats.
ExpireOrder(x, k) ==
    LET e == order[k].event
    IN  /\ k \in listed[x]
        /\ OrderFree(k)
        /\ e \in Events
        /\ available' = [available EXCEPT ![e] = @ + order[k].quantity]
        /\ order' = [order EXCEPT ![k].status = "expired"]
        /\ overwritten' = IF order[k].status \in {"reserved", "confirmed"}
                             /\ order[k].kind = "tickets"
                          THEN overwritten ELSE overwritten \cup {e}
        /\ listed' = [listed EXCEPT ![x] = @ \ {k}]
        /\ UNCHANGED <<payment, outbox, cancelling, seen, reply, now>>

(***************************************************************************)
(* The run ends before its list does: the event of an order has no         *)
(* inventory row and .get() raises, the process is lost, or the database   *)
(* breaks the deadlock with a cancel request that has the order row and    *)
(* waits for the inventory row (the other way out of it is CancelDies).    *)
(***************************************************************************)
CommandAborts(x) ==
    /\ listed[x] # {}
    /\ listed' = [listed EXCEPT ![x] = {}]
    /\ UNCHANGED <<available, order, payment, outbox, cancelling, seen, overwritten, reply, now>>

Sale ==
    \E k \in Keys, q \in Quantities :
        \/ \E e \in Events :
                \/ Buy(k, e, q) \/ RefuseSale(k, e, q) \/ Replay(k, e, q)
                \/ Reserve(k, e, q)
        \/ \E e \in SeatEvents : OrderSeats(k, e, q)

Settle ==
    \E k \in Keys :
        \/ ConfirmOrder(k)
        \/ \E status \in {"confirmed", "cancelled"} : FinalizeSeats(k, status)
        \/ CancelSeats(k)

Cancel ==
    \E c \in Cancellers :
        \/ WriteStock(c) \/ CancelDies(c)
        \/ \E k \in Keys : ReadStock(c, k)

Expiry ==
    \E x \in Commands :
        \/ ListExpired(x) \/ CommandAborts(x)
        \/ \E k \in Keys : ExpireOrder(x, k)

Next == Tick \/ Sale \/ Settle \/ Cancel \/ Expiry

Spec == Init /\ [][Next]_vars

----------------------------------------------------------------------------
\* Every variable has its type; in particular the stock is never negative.
TypeOK ==
    /\ available \in [Events -> Nat]
    /\ order \in [Keys -> Order \cup {NoOrder}]
    /\ payment \in [Keys -> {"none", "pending", "final"}]
    /\ outbox \in [Keys -> Nat]
    /\ cancelling \in [Cancellers -> Keys \cup {NoKey}]
    /\ seen \in [Cancellers -> Nat]
    /\ overwritten \subseteq Events
    /\ reply \in Reply \cup {NoReply}
    /\ listed \in [Commands -> SUBSET Keys]
    /\ now \in 0..MaxTime

\* The tickets of an order, one by one, and all those that orders of the given
\* statuses have taken out of stock.  Orders for seats take none.
Tickets(k) == {k} \X (1..order[k].quantity)

TakenSet(e, statuses) ==
    UNION {Tickets(k) : k \in {l \in Keys : /\ order[l].status \in statuses
                                           /\ order[l].kind = "tickets"
                                           /\ order[l].event = e}}

Taken(e, statuses) == Cardinality(TakenSet(e, statuses))

\* Stock, reserved and confirmed orders add up to the tickets there are, as
\* long as no cancellation has overwritten a change of the stock and the command
\* has put back no order that was not out: by another run, or for seats.  (purchase_ticket's
\* lock and rollback, reserve_ticket, cancel_order, the expiry command)
Conserved ==
    \A e \in Events \ overwritten :
        available[e] + Taken(e, {"reserved", "confirmed"}) = Total[e]

\* A key buys once: its order is never moved or resized, it is announced when
\* it is first confirmed and never again, and tickets that are cancelled or
\* expired are not sold again, whatever is retried and whatever the command or
\* a payment finds.  A late payment does revive an order for seats.
BoughtOnce ==
    [][\A k \in Keys : order[k] # NoOrder =>
            /\ order'[k] = [order[k] EXCEPT !.status = order'[k].status]
            /\ order[k].kind = "tickets" /\ order[k].status \in {"cancelled", "expired"} =>
                    order'[k].status \in {order[k].status, "expired"}
            /\ outbox'[k] = IF order'[k].status = "confirmed" THEN 1 ELSE outbox[k]]_vars

\* What a buyer was last told stays true, whatever is cancelled, expired or
\* bought after it: a purchase that was answered "created" has its order, for
\* that event, past its reservation and announced once; a repeated one was
\* answered with the order of the same event, and the duplicate handler fails
\* only when the key belongs to an order of another event.  (purchase_ticket)
AnswersStand ==
    reply # NoReply =>
        LET row == order[reply.key]
        IN  /\ reply.answer \in {"created", "duplicate"} =>
                    row # NoOrder /\ row.event = reply.event
            /\ reply.answer = "created" =>
                    row.status # "reserved" /\ outbox[reply.key] = 1
            /\ reply.answer = "server error" =>
                    row # NoOrder /\ row.event # reply.event

\* An order being cancelled is held by one canceller and stays confirmed until
\* that one writes: nothing is put back into stock twice, and what is put back
\* came out of it.  (cancel_order)
LockedOrdersConfirmed ==
    \A c \in Cancellers : cancelling[c] # NoKey =>
        /\ order[cancelling[c]].status = "confirmed"
        /\ order[cancelling[c]].kind = "tickets"
        /\ \A d \in Cancellers : cancelling[d] = cancelling[c] => c = d

(***************************************************************************)
(* What the documentation says and the code does not do.                   *)
(***************************************************************************)

\* "purchase by quantity with idempotency and concurrent-safe inventory": no
\* more tickets are sold than there are.
NoOversell == \A e \in Events : Taken(e, {"confirmed"}) <= Total[e]
=============================================================================
