----------------------- MODULE GeneralAdmissionProofs -----------------------
(***************************************************************************)
(* Proofs about GeneralAdmission for any events, stocks, keys and workers. *)
(***************************************************************************)
EXTENDS GeneralAdmission, FiniteSetTheorems, TLAPS

\* Payments are for orders of seats, of events that sell seats.
SeatOrders ==
    \A k \in Keys :
        /\ payment[k] # "none" => order[k] \in Order /\ order[k].kind = "seats"
        /\ order[k] \in Order /\ order[k].kind = "seats" => order[k].event \in SeatEvents

\* Tickets are sold of events that have a stock.
TicketOrders ==
    \A k \in Keys :
        order[k] \in Order /\ order[k].kind = "tickets" => order[k].event \in Events

\* An order is announced from the moment it is confirmed, and once.
Announced ==
    \A k \in Keys :
        /\ outbox[k] \in {0, 1}
        /\ order[k].status = "confirmed" => outbox[k] = 1
        /\ order[k].status \in {"none", "reserved"} => outbox[k] = 0

Inv == TypeOK /\ LockedOrdersConfirmed /\ SeatOrders /\ TicketOrders /\ Announced

\* What the command has listed are orders; rows never vanish.
ListedExist == \A x \in Commands : \A k \in listed[x] : order[k] \in Order

\* What BoughtOnce says of one key.
Once(k) ==
    order[k] # NoOrder =>
        /\ order'[k] = [order[k] EXCEPT !.status = order'[k].status]
        /\ order[k].kind = "tickets" /\ order[k].status \in {"cancelled", "expired"} =>
                order'[k].status \in {order[k].status, "expired"}
        /\ outbox'[k] = IF order'[k].status = "confirmed" THEN 1 ELSE outbox[k]

LEMMA InitInv == Init => Inv
BY TotalAssumption, TimeAssumption
   DEF Init, Inv, TypeOK, LockedOrdersConfirmed, SeatOrders, TicketOrders, Announced,
       NoOrder, Order, Status

\* The status of a row that is there.
LEMMA OrderRow ==
  ASSUME TypeOK, NEW k \in Keys
  PROVE  /\ order[k] = NoOrder \/ order[k] \in Order
         /\ order[k].status \in Status => order[k] \in Order
         /\ order[k] \in Order => order[k].status \in Status
         /\ outbox[k] \in Nat
BY DEF TypeOK, NoOrder, Order, Status

\* A step that leaves the row of a key and its events alone.
LEMMA KeptRow ==
  ASSUME Inv, NEW k \in Keys, order'[k] = order[k], outbox'[k] = outbox[k]
  PROVE  Once(k)
<1>1. order[k] # NoOrder => order[k] \in Order
  BY OrderRow DEF Inv
<1>2. order[k] \in Order => order[k] = [order[k] EXCEPT !.status = order[k].status]
  BY DEF Order
<1>3. order[k].status = "confirmed" => outbox[k] = 1
  BY DEF Inv, Announced
<1> QED
  BY <1>1, <1>2, <1>3 DEF Once

\* A step that leaves orders, payments and locked rows alone.
LEMMA KeptRows ==
  ASSUME Inv, UNCHANGED <<order, payment, outbox, cancelling>>
  PROVE  /\ LockedOrdersConfirmed' /\ SeatOrders' /\ TicketOrders' /\ Announced'
         /\ \A l \in Keys : Once(l)
<1>1. \A l \in Keys : Once(l)
  BY KeptRow
<1> QED
  BY <1>1 DEF Inv, LockedOrdersConfirmed, SeatOrders, TicketOrders, Announced

\* A step that writes a status into the row of k, announces k if it has to, and
\* does nothing else to orders.
LEMMA StatusStep ==
  ASSUME Inv, NEW k \in Keys, NEW status \in Status \ {"reserved"},
         order[k] \in Order,
         order' = [order EXCEPT ![k].status = status],
         outbox'[k] = IF status = "confirmed" THEN 1 ELSE outbox[k],
         \A l \in Keys : l # k => outbox'[l] = outbox[l] /\ payment'[l] = payment[l],
         payment'[k] = payment[k] \/ payment[k] # "none",
         order[k].kind = "tickets" /\ order[k].status \in {"cancelled", "expired"} =>
            status \in {order[k].status, "expired"},
         UNCHANGED <<cancelling>> /\ OrderFree(k)
  PROVE  /\ order' \in [Keys -> Order \cup {NoOrder}]
         /\ order'[k] = [order[k] EXCEPT !.status = order'[k].status]
         /\ order'[k].status = status
         /\ \A l \in Keys : l # k => order'[l] = order[l]
         /\ LockedOrdersConfirmed' /\ SeatOrders' /\ TicketOrders' /\ Announced'
         /\ \A l \in Keys : Once(l)
<1>1. [order[k] EXCEPT !.status = status] \in Order
  BY DEF Order
<1>2. order' = [order EXCEPT ![k] = [order[k] EXCEPT !.status = status]]
  OBVIOUS
<1>3. /\ order'[k] = [order[k] EXCEPT !.status = status] /\ order'[k].status = status
      /\ order'[k].kind = order[k].kind /\ order'[k].event = order[k].event
      /\ order'[k] \in Order
  BY <1>1, <1>2 DEF Inv, TypeOK, Order
<1>4. \A l \in Keys : l # k => order'[l] = order[l]
  BY <1>2 DEF Inv, TypeOK
<1>5. LockedOrdersConfirmed'
  BY <1>4 DEF Inv, TypeOK, LockedOrdersConfirmed, OrderFree
<1>6. SeatOrders' /\ TicketOrders'
  BY <1>3, <1>4 DEF Inv, SeatOrders, TicketOrders
<1>7. Announced'
  BY <1>3, <1>4 DEF Inv, Announced, Status
<1>8. Once(k)
  BY <1>3 DEF Once
<1>9. \A l \in Keys : Once(l)
  BY <1>4, <1>8, KeptRow
<1> QED
  BY <1>1, <1>2, <1>3, <1>4, <1>5, <1>6, <1>7, <1>9 DEF Inv, TypeOK

\* A step that creates the row of k.
LEMMA NewRowStep ==
  ASSUME Inv, NEW k \in Keys, NEW row \in Order, KeyIsNew(k),
         row.status \in {"reserved", "confirmed"},
         order' = [order EXCEPT ![k] = row],
         outbox'[k] = IF row.status = "confirmed" THEN outbox[k] + 1 ELSE outbox[k],
         \A l \in Keys : l # k => outbox'[l] = outbox[l] /\ payment'[l] = payment[l],
         row.kind = "tickets" => payment'[k] = payment[k],
         row.event \in IF row.kind = "seats" THEN SeatEvents ELSE Events,
         UNCHANGED <<cancelling>>
  PROVE  /\ order' \in [Keys -> Order \cup {NoOrder}]
         /\ LockedOrdersConfirmed' /\ SeatOrders' /\ TicketOrders' /\ Announced'
         /\ \A l \in Keys : Once(l)
<1>1. order' \in [Keys -> Order \cup {NoOrder}] /\ order'[k] = row
  BY DEF Inv, TypeOK
<1>2. order[k].status = "none" /\ order[k] \notin Order
  BY DEF KeyIsNew, NoOrder, Order, Status
<1>3. \A l \in Keys : l # k => order'[l] = order[l]
  BY DEF Inv, TypeOK
<1>4. LockedOrdersConfirmed'
  BY <1>2, <1>3 DEF Inv, TypeOK, LockedOrdersConfirmed
<1>5. SeatOrders' /\ TicketOrders'
  BY <1>1, <1>2, <1>3 DEF Inv, SeatOrders, TicketOrders, Order
<1>6. Announced'
  BY <1>1, <1>2, <1>3 DEF Inv, Announced
<1>7. \A l \in Keys : Once(l)
  BY <1>2, <1>3, KeptRow DEF KeyIsNew, Once
<1> QED
  BY <1>1, <1>4, <1>5, <1>6, <1>7

LEMMA SaleStep ==
  ASSUME Inv, Sale
  PROVE  Inv' /\ \A l \in Keys : Once(l)
<1>1. PICK k \in Keys, q \in Quantities :
        \/ \E e \in Events :
                \/ Buy(k, e, q) \/ RefuseSale(k, e, q) \/ Replay(k, e, q)
                \/ Reserve(k, e, q)
        \/ \E e \in SeatEvents : OrderSeats(k, e, q)
  BY DEF Sale
<1>0. TypeOK /\ q \in Nat
  BY QuantityAssumption DEF Inv
<1>2. ASSUME NEW e \in Events, Buy(k, e, q) PROVE Inv' /\ \A l \in Keys : Once(l)
  <2> DEFINE row == [status |-> "confirmed", kind |-> "tickets", event |-> e,
                     quantity |-> q, until |-> 0]
  <2>1. /\ row \in Order /\ row.status = "confirmed" /\ row.kind = "tickets"
        /\ row.event \in Events
    BY TimeAssumption DEF Order, Status
  <2>2. /\ order' = [order EXCEPT ![k] = row] /\ KeyIsNew(k)
        /\ outbox'[k] = outbox[k] + 1 /\ outbox' \in [Keys -> Nat]
        /\ \A l \in Keys : l # k => outbox'[l] = outbox[l]
        /\ UNCHANGED <<payment, cancelling, seen, overwritten, listed, now>>
    BY <1>0, <1>2 DEF Buy, TypeOK
  <2>3. available' \in [Events -> Nat]
    BY <1>0, <1>2 DEF Buy, Enough, TypeOK
  <2>4. reply' \in Reply
    BY <1>2 DEF Buy, Answer, Reply
  <2> HIDE DEF row
  <2>5. /\ order' \in [Keys -> Order \cup {NoOrder}]
        /\ LockedOrdersConfirmed' /\ SeatOrders' /\ TicketOrders' /\ Announced'
        /\ \A l \in Keys : Once(l)
    BY <2>1, <2>2, NewRowStep
  <2> QED
    BY <1>0, <2>2, <2>3, <2>4, <2>5 DEF Inv, TypeOK
<1>3. ASSUME NEW e \in Events, RefuseSale(k, e, q) \/ Replay(k, e, q)
      PROVE  Inv' /\ \A l \in Keys : Once(l)
  <2>1. reply' \in Reply
    <3>1. PICK text \in {"duplicate", "not enough", "server error"} : Answer(k, e, text)
      BY <1>3, Zenon DEF RefuseSale, Replay
    <3> QED
      BY <3>1 DEF Answer, Reply
  <2>2. available' \in [Events -> Nat]
    BY <1>0, <1>3 DEF RefuseSale, Replay, RolledBack, TypeOK
  <2>3. UNCHANGED <<order, payment, outbox, cancelling, seen, overwritten, listed, now>>
    BY <1>3 DEF RefuseSale, Replay
  <2> QED
    BY <1>0, <2>1, <2>2, <2>3, KeptRows DEF Inv, TypeOK
<1>4. ASSUME NEW e \in Events \cup SeatEvents, NEW kind \in {"tickets", "seats"},
             \/ kind = "tickets" /\ e \in Events /\ Reserve(k, e, q)
             \/ kind = "seats" /\ e \in SeatEvents /\ OrderSeats(k, e, q)
      PROVE  Inv' /\ \A l \in Keys : Once(l)
  <2> DEFINE row == [status |-> "reserved", kind |-> kind, event |-> e, quantity |-> q,
                     until |-> now + HoldTime]
  <2>1. /\ row \in Order /\ row.status = "reserved" /\ row.kind = kind
        /\ row.event \in IF row.kind = "seats" THEN SeatEvents ELSE Events
    BY <1>0, <1>4, TimeAssumption DEF Order, Status, Reserve, OrderSeats, TypeOK
  <2>2. available' \in [Events -> Nat]
    BY <1>0, <1>4 DEF Reserve, OrderSeats, Enough, TypeOK
  <2>3. /\ order' = [order EXCEPT ![k] = row] /\ KeyIsNew(k)
        /\ UNCHANGED <<outbox, cancelling, seen, overwritten, reply, listed, now>>
    BY <1>4 DEF Reserve, OrderSeats
  <2>4. /\ payment' \in [Keys -> {"none", "pending", "final"}]
        /\ \A l \in Keys : l # k => payment'[l] = payment[l]
        /\ kind = "tickets" => payment'[k] = payment[k]
    BY <1>0, <1>4 DEF Reserve, OrderSeats, TypeOK
  <2> HIDE DEF row
  <2>5. /\ order' \in [Keys -> Order \cup {NoOrder}]
        /\ LockedOrdersConfirmed' /\ SeatOrders' /\ TicketOrders' /\ Announced'
        /\ \A l \in Keys : Once(l)
    BY <2>1, <2>3, <2>4, NewRowStep
  <2> QED
    BY <1>0, <2>2, <2>3, <2>4, <2>5 DEF Inv, TypeOK
<1> QED
  BY <1>1, <1>2, <1>3, <1>4

LEMMA SettleStep ==
  ASSUME Inv, Settle
  PROVE  Inv' /\ \A l \in Keys : Once(l)
<1>0. TypeOK
  BY DEF Inv
<1>1. ASSUME NEW k \in Keys, ConfirmOrder(k) PROVE Inv' /\ \A l \in Keys : Once(l)
  <2>1. order[k].status = "reserved" /\ order[k] \in Order /\ outbox[k] = 0
    BY <1>0, <1>1, OrderRow DEF ConfirmOrder, Confirmable, Status, Inv, Announced
  <2>2. /\ order' = [order EXCEPT ![k].status = "confirmed"] /\ OrderFree(k)
        /\ outbox'[k] = 1 /\ outbox' \in [Keys -> Nat]
        /\ \A l \in Keys : l # k => outbox'[l] = outbox[l]
        /\ UNCHANGED <<available, payment, cancelling, seen, overwritten, reply, listed, now>>
    BY <1>0, <1>1, <2>1 DEF ConfirmOrder, TypeOK
  <2>3. /\ order' \in [Keys -> Order \cup {NoOrder}]
        /\ LockedOrdersConfirmed' /\ SeatOrders' /\ TicketOrders' /\ Announced'
        /\ \A l \in Keys : Once(l)
    BY <2>1, <2>2, StatusStep DEF Status
  <2> QED
    BY <1>0, <2>2, <2>3 DEF Inv, TypeOK
<1>2. ASSUME NEW k \in Keys, NEW status \in {"confirmed", "cancelled"},
             FinalizeSeats(k, status)
      PROVE  Inv' /\ \A l \in Keys : Once(l)
  <2>1. order[k] \in Order /\ order[k].kind = "seats" /\ payment[k] # "none"
    BY <1>2 DEF FinalizeSeats, Inv, SeatOrders
  <2>2. outbox[k] \in {0, 1}
    BY DEF Inv, Announced
  <2>3. /\ order' = [order EXCEPT ![k].status = status] /\ OrderFree(k)
        /\ outbox'[k] = IF status = "confirmed" THEN 1 ELSE outbox[k]
        /\ outbox' \in [Keys -> Nat]
        /\ payment' \in [Keys -> {"none", "pending", "final"}]
        /\ \A l \in Keys : l # k => outbox'[l] = outbox[l] /\ payment'[l] = payment[l]
        /\ UNCHANGED <<available, cancelling, seen, overwritten, reply, listed, now>>
    BY <1>0, <1>2, <2>2 DEF FinalizeSeats, TypeOK
  <2>4. /\ order' \in [Keys -> Order \cup {NoOrder}]
        /\ LockedOrdersConfirmed' /\ SeatOrders' /\ TicketOrders' /\ Announced'
        /\ \A l \in Keys : Once(l)
    BY <2>1, <2>3, StatusStep DEF Status
  <2> QED
    BY <1>0, <2>3, <2>4 DEF Inv, TypeOK
<1>3. ASSUME NEW k \in Keys, CancelSeats(k) PROVE Inv' /\ \A l \in Keys : Once(l)
  <2>1. order[k] \in Order /\ order[k].kind = "seats"
    BY <1>0, <1>3, OrderRow DEF CancelSeats, Status
  <2>2. /\ order' = [order EXCEPT ![k].status = "cancelled"] /\ OrderFree(k)
        /\ UNCHANGED <<available, payment, outbox, cancelling, seen, overwritten, reply,
                       listed, now>>
    BY <1>3 DEF CancelSeats
  <2>3. /\ order' \in [Keys -> Order \cup {NoOrder}]
        /\ LockedOrdersConfirmed' /\ SeatOrders' /\ TicketOrders' /\ Announced'
        /\ \A l \in Keys : Once(l)
    BY <2>1, <2>2, StatusStep DEF Status
  <2> QED
    BY <1>0, <2>2, <2>3 DEF Inv, TypeOK
<1> QED
  BY <1>1, <1>2, <1>3 DEF Settle

\* The canceller that writes is the only one that has the order.
LEMMA CancelStep ==
  ASSUME Inv, Cancel
  PROVE  Inv' /\ \A l \in Keys : Once(l)
<1>0. TypeOK
  BY DEF Inv
<1>1. ASSUME NEW c \in Cancellers, WriteStock(c) PROVE Inv' /\ \A l \in Keys : Once(l)
  <2>1. PICK k : k = cancelling[c]
    OBVIOUS
  <2>2. PICK e : e = order[k].event
    OBVIOUS
  <2>3. /\ k # NoKey
        /\ available' = [available EXCEPT ![e] = seen[c] + order[k].quantity]
        /\ order' = [order EXCEPT ![k].status = "cancelled"]
        /\ overwritten' = IF available[e] = seen[c] THEN overwritten ELSE overwritten \cup {e}
        /\ cancelling' = [cancelling EXCEPT ![c] = NoKey]
        /\ seen' = [seen EXCEPT ![c] = 0]
        /\ UNCHANGED <<payment, outbox, reply, listed, now>>
    BY <1>1, <2>1, <2>2 DEF WriteStock
  <2>4. /\ k \in Keys /\ order[k].status = "confirmed" /\ order[k] \in Order
        /\ order[k].kind = "tickets" /\ outbox[k] = 1
    BY <1>0, <2>1, <2>3, OrderRow DEF Inv, TypeOK, LockedOrdersConfirmed, Announced, Status
  <2>5. [order[k] EXCEPT !.status = "cancelled"] \in Order
    BY <2>4 DEF Order, Status
  <2>6. order' = [order EXCEPT ![k] = [order[k] EXCEPT !.status = "cancelled"]]
    BY <2>3
  <2>7. /\ order' \in [Keys -> Order \cup {NoOrder}]
        /\ order'[k] = [order[k] EXCEPT !.status = "cancelled"]
        /\ \A l \in Keys : l # k => order'[l] = order[l]
    BY <1>0, <2>4, <2>5, <2>6 DEF TypeOK
  <2>8. /\ order'[k].status = "cancelled" /\ order'[k].event = e
        /\ order'[k].kind = "tickets"
    BY <2>2, <2>4, <2>7 DEF Order
  <2>9. available' \in [Events -> Nat] /\ overwritten' \subseteq Events
    <3>1. seen[c] \in Nat /\ order[k].quantity \in Nat
      BY <1>0, <2>4, QuantityAssumption DEF TypeOK, Order
    <3>2. e \in Events
      BY <2>2, <2>4 DEF Inv, TicketOrders
    <3> QED
      BY <1>0, <2>3, <3>1, <3>2 DEF TypeOK
  <2>10. LockedOrdersConfirmed'
    BY <1>0, <2>1, <2>3, <2>4, <2>7 DEF Inv, TypeOK, LockedOrdersConfirmed
  <2>11. SeatOrders' /\ TicketOrders' /\ Announced'
    BY <2>2, <2>3, <2>4, <2>7, <2>8 DEF Inv, SeatOrders, TicketOrders, Announced
  <2>12. Once(k)
    BY <2>3, <2>4, <2>7, <2>8 DEF Once
  <2>13. TypeOK'
    BY <1>0, <2>3, <2>7, <2>9 DEF TypeOK
  <2> QED
    BY <2>3, <2>7, <2>10, <2>11, <2>12, <2>13, KeptRow DEF Inv
<1>2. ASSUME NEW c \in Cancellers, CancelDies(c) \/ \E k \in Keys : ReadStock(c, k)
      PROVE  Inv' /\ \A l \in Keys : Once(l)
  <2>1. UNCHANGED <<available, order, payment, outbox, overwritten, reply, listed, now>>
    BY <1>2 DEF CancelDies, ReadStock
  <2>2. TypeOK'
    <3>1. CASE CancelDies(c)
      BY <1>0, <3>1 DEF CancelDies, TypeOK
    <3>2. ASSUME NEW k \in Keys, ReadStock(c, k) PROVE TypeOK'
      <4>1. order[k] \in Order
        BY <1>0, <3>2, OrderRow DEF ReadStock, Status
      <4>2. order[k].event \in Events
        BY <3>2, <4>1 DEF ReadStock, Inv, TicketOrders
      <4> QED
        BY <1>0, <3>2, <4>2 DEF ReadStock, TypeOK
    <3> QED
      BY <1>2, <3>1, <3>2
  <2>3. LockedOrdersConfirmed'
    BY <1>0, <1>2 DEF CancelDies, ReadStock, OrderFree, Inv, TypeOK, LockedOrdersConfirmed
  <2>4. SeatOrders' /\ TicketOrders' /\ Announced'
    BY <2>1 DEF Inv, SeatOrders, TicketOrders, Announced
  <2> QED
    BY <2>1, <2>2, <2>3, <2>4, KeptRow DEF Inv
<1> QED
  BY <1>1, <1>2 DEF Cancel

\* The command writes an order it read earlier, whatever its status is now.
LEMMA ExpiryStep ==
  ASSUME Inv, ListedExist, Expiry
  PROVE  Inv' /\ \A l \in Keys : Once(l)
<1>0. TypeOK
  BY DEF Inv
<1>1. ASSUME NEW x \in Commands, ListExpired(x) \/ CommandAborts(x)
      PROVE  Inv' /\ \A l \in Keys : Once(l)
  <2>1. UNCHANGED <<available, order, payment, outbox, cancelling, seen, overwritten, reply,
                    now>>
    BY <1>1 DEF ListExpired, CommandAborts
  <2>2. listed' \in [Commands -> SUBSET Keys]
    BY <1>0, <1>1 DEF ListExpired, CommandAborts, TypeOK
  <2> QED
    BY <1>0, <2>1, <2>2, KeptRows DEF Inv, TypeOK
<1>2. ASSUME NEW x \in Commands, NEW k \in Keys, ExpireOrder(x, k),
             order[k] \in Order
      PROVE  Inv' /\ \A l \in Keys : Once(l)
  <2>1. PICK e : e = order[k].event
    OBVIOUS
  <2>2. /\ e \in Events /\ OrderFree(k)
        /\ available' = [available EXCEPT ![e] = @ + order[k].quantity]
        /\ order' = [order EXCEPT ![k].status = "expired"]
        /\ overwritten' \in {overwritten, overwritten \cup {e}}
        /\ listed' = [listed EXCEPT ![x] = @ \ {k}]
        /\ UNCHANGED <<payment, outbox, cancelling, seen, reply, now>>
    BY <1>2, <2>1 DEF ExpireOrder
  <2>3. /\ order' \in [Keys -> Order \cup {NoOrder}]
        /\ LockedOrdersConfirmed' /\ SeatOrders' /\ TicketOrders' /\ Announced'
        /\ \A l \in Keys : Once(l)
    BY <1>2, <2>2, StatusStep DEF Status
  <2>4. available' \in [Events -> Nat]
    <3>1. order[k].quantity \in Nat
      BY <1>2, QuantityAssumption DEF Order
    <3> QED
      BY <1>0, <2>2, <3>1 DEF TypeOK
  <2>5. TypeOK'
    BY <1>0, <2>2, <2>3, <2>4 DEF TypeOK
  <2> QED
    BY <2>3, <2>5 DEF Inv
<1>3. ASSUME NEW x \in Commands, NEW k \in Keys, ExpireOrder(x, k)
      PROVE  order[k] \in Order
  BY <1>3 DEF ExpireOrder, ListedExist
<1> QED
  BY <1>1, <1>2, <1>3 DEF Expiry

\* Every list but a new one only shrinks, and a new one names orders.
LEMMA ListStep ==
  ASSUME TypeOK, [Next]_vars, NEW x \in Commands, NEW k \in listed'[x]
  PROVE  k \in listed[x] \/ (k \in Keys /\ order'[k] \in Order)
<1>1. CASE \E y \in Commands : ListExpired(y)
  <2>1. PICK y \in Commands : ListExpired(y)
    BY <1>1
  <2>2. ASSUME NEW l \in Keys, order[l].status = "reserved" PROVE order'[l] \in Order
    BY <2>1, <2>2, OrderRow DEF ListExpired, Status
  <2> QED
    BY <2>1, <2>2 DEF ListExpired, TypeOK
<1>2. CASE \E y \in Commands : CommandAborts(y) \/ \E l \in Keys : ExpireOrder(y, l)
  BY <1>2 DEF CommandAborts, ExpireOrder, TypeOK
<1>3. CASE UNCHANGED listed
  BY <1>3
<1>4. Sale => UNCHANGED listed
  BY DEF Sale, Buy, RefuseSale, Replay, Reserve, OrderSeats
<1>5. Settle => UNCHANGED listed
  BY DEF Settle, ConfirmOrder, FinalizeSeats, CancelSeats
<1>6. Cancel => UNCHANGED listed
  BY DEF Cancel, WriteStock, CancelDies, ReadStock
<1> QED
  BY <1>1, <1>2, <1>3, <1>4, <1>5, <1>6 DEF Next, Expiry, Tick, vars

LEMMA NextInv ==
  ASSUME Inv, ListedExist, [Next]_vars
  PROVE  Inv' /\ ListedExist' /\ \A l \in Keys : Once(l)
<1>0. TypeOK
  BY DEF Inv
<1>1. ASSUME Tick \/ UNCHANGED vars PROVE Inv' /\ \A l \in Keys : Once(l)
  <2>1. UNCHANGED <<available, order, payment, outbox, cancelling, seen, overwritten, reply,
                    listed>>
    BY <1>1 DEF Tick, vars
  <2>2. now' \in 0..MaxTime
    BY <1>0, <1>1, TimeAssumption DEF Tick, vars, TypeOK
  <2> QED
    BY <2>1, <2>2, KeptRows DEF Inv, TypeOK
<1>2. Inv' /\ \A l \in Keys : Once(l)
  BY <1>1, SaleStep, SettleStep, CancelStep, ExpiryStep DEF Next
<1>3. ASSUME NEW k \in Keys, order[k] \in Order PROVE order'[k] \in Order
  <2>1. order[k] # NoOrder /\ order'[k] \in Order \cup {NoOrder}
    <3>1. order[k].status \in Status /\ NoOrder.status = "none"
      BY <1>0, <1>3, OrderRow DEF NoOrder
    <3>2. order[k] # NoOrder
      BY <3>1 DEF Status
    <3> QED
      BY <1>2, <3>2 DEF Inv, TypeOK
  <2>2. order'[k] = [order[k] EXCEPT !.status = order'[k].status]
    BY <1>2, <2>1 DEF Once
  <2>3. DOMAIN order'[k] = {"status", "kind", "event", "quantity", "until"}
    BY <1>3, <2>2 DEF Order
  <2>4. DOMAIN NoOrder = {"status"}
    BY DEF NoOrder
  <2> QED
    BY <2>1, <2>3, <2>4
<1>4. ListedExist'
  BY <1>3, ListStep DEF Inv, TypeOK, ListedExist
<1> QED
  BY <1>2, <1>4

THEOREM Invariance == Spec => [](Inv /\ ListedExist)
<1>1. Init => Inv /\ ListedExist
  BY InitInv DEF Init, ListedExist
<1>2. Inv /\ ListedExist /\ [Next]_vars => (Inv /\ ListedExist)'
  BY NextInv
<1> QED
  BY <1>1, <1>2, PTL DEF Spec

\* Type correctness; the stock of an event is never negative, whatever the
\* handlers, the command and the clock do.
THEOREM TypeCorrect == Spec => []TypeOK
<1>1. Inv => TypeOK
  BY DEF Inv
<1> QED
  BY <1>1, Invariance, PTL

\* An order is cancelled once, by the request that holds its row.
THEOREM CancelledOnce == Spec => []LockedOrdersConfirmed
<1>1. Inv => LockedOrdersConfirmed
  BY DEF Inv
<1> QED
  BY <1>1, Invariance, PTL

\* However often a purchase, a confirmation or the command is repeated, a key
\* has one order, announced as confirmed once.
THEOREM RetriesBuyOnce == Spec => BoughtOnce
<1>1. Inv /\ ListedExist /\ [Next]_vars =>
        [\A k \in Keys : order[k] # NoOrder =>
            /\ order'[k] = [order[k] EXCEPT !.status = order'[k].status]
            /\ order[k].kind = "tickets" /\ order[k].status \in {"cancelled", "expired"} =>
                    order'[k].status \in {order[k].status, "expired"}
            /\ outbox'[k] = IF order'[k].status = "confirmed" THEN 1 ELSE outbox[k]]_vars
  BY NextInv DEF Once
<1> QED
  BY <1>1, Invariance, PTL DEF Spec, BoughtOnce

----------------------------------------------------------------------------
(***************************************************************************)
(* The stock.  The tickets that orders hold are counted one by one, so     *)
(* that what a step takes or gives back is a set with a cardinality; rows  *)
(* stands for the order table before or after a step.                      *)
(***************************************************************************)
Live == {"reserved", "confirmed"}

LiveKeys(rows, e) ==
    {l \in Keys : rows[l].status \in Live /\ rows[l].kind = "tickets" /\ rows[l].event = e}

HeldIn(rows, e) == UNION {{k} \X (1..rows[k].quantity) : k \in LiveKeys(rows, e)}

\* An event whose stock nobody has overwritten has lost no ticket.  Finiteness
\* is part of it: there may be more keys than anybody will ever use.
StockKept ==
    \A e \in Events \ overwritten :
        /\ IsFiniteSet(HeldIn(order, e))
        /\ available[e] + Cardinality(HeldIn(order, e)) = Total[e]

LEMMA HeldTickets ==
  ASSUME NEW rows, NEW e, NEW x
  PROVE  x \in HeldIn(rows, e) <=>
            \E l \in LiveKeys(rows, e) : x \in {l} \X (1..rows[l].quantity)
BY DEF HeldIn

\* Orders that hold the same quantities hold the same tickets.
LEMMA SameTickets ==
  ASSUME NEW rows, NEW after, NEW e,
         LiveKeys(after, e) = LiveKeys(rows, e),
         \A l \in LiveKeys(rows, e) : after[l].quantity = rows[l].quantity
  PROVE  HeldIn(after, e) = HeldIn(rows, e)
BY DEF HeldIn

\* An order that comes to hold tickets of an event holds as many more as its
\* quantity.
LEMMA MoreTickets ==
  ASSUME NEW rows, NEW after, NEW e, NEW k \in Keys,
         k \notin LiveKeys(rows, e),
         LiveKeys(after, e) = LiveKeys(rows, e) \cup {k},
         \A l \in LiveKeys(rows, e) : after[l].quantity = rows[l].quantity,
         after[k].quantity \in Nat,
         IsFiniteSet(HeldIn(rows, e))
  PROVE  /\ IsFiniteSet(HeldIn(after, e))
         /\ Cardinality(HeldIn(after, e)) = Cardinality(HeldIn(rows, e)) + after[k].quantity
<1> DEFINE q == after[k].quantity
           New == {k} \X (1..q)
<1>1. HeldIn(after, e) = HeldIn(rows, e) \cup New
  <2>1. ASSUME NEW x \in HeldIn(after, e) PROVE x \in HeldIn(rows, e) \cup New
    <3>1. PICK l \in LiveKeys(after, e) : x \in {l} \X (1..after[l].quantity)
      BY HeldTickets
    <3> QED
      BY <3>1, HeldTickets
  <2>2. ASSUME NEW x \in HeldIn(rows, e) PROVE x \in HeldIn(after, e)
    <3>1. PICK l \in LiveKeys(rows, e) : x \in {l} \X (1..rows[l].quantity)
      BY HeldTickets
    <3> QED
      BY <3>1, HeldTickets
  <2>3. New \subseteq HeldIn(after, e)
    BY HeldTickets
  <2> QED
    BY <2>1, <2>2, <2>3
<1>2. HeldIn(rows, e) \cap New = {}
  <2>1. ASSUME NEW x \in HeldIn(rows, e), x \in New PROVE FALSE
    <3>1. PICK l \in LiveKeys(rows, e) : x \in {l} \X (1..rows[l].quantity)
      BY HeldTickets
    <3>2. x[1] = l /\ x[1] = k
      BY <2>1, <3>1
    <3> QED
      BY <3>2
  <2> QED
    BY <2>1
<1>3. IsFiniteSet(New) /\ Cardinality(New) = q
  <2>1. IsFiniteSet({k}) /\ Cardinality({k}) = 1
    BY FS_Singleton
  <2>2. IsFiniteSet(1..q) /\ Cardinality(1..q) = q
    <3>1. 1 \in Int /\ q \in Int /\ (1 > q <=> q = 0) /\ q - 1 + 1 = q
      OBVIOUS
    <3> HIDE DEF q
    <3> QED
      BY <3>1, FS_Interval
  <2>3. IsFiniteSet(New) /\ Cardinality(New) = Cardinality({k}) * Cardinality(1..q)
    BY <2>1, <2>2, FS_Product
  <2> QED
    BY <2>1, <2>2, <2>3
<1> HIDE DEF New
<1>4. /\ IsFiniteSet(HeldIn(rows, e) \cup New)
      /\ Cardinality(HeldIn(rows, e) \cup New)
            = Cardinality(HeldIn(rows, e)) + Cardinality(New)
                - Cardinality(HeldIn(rows, e) \cap New)
  BY <1>3, FS_Union
<1>5. Cardinality(HeldIn(rows, e) \cap New) = 0 /\ Cardinality(HeldIn(rows, e)) \in Nat
  BY <1>2, FS_EmptySet, FS_CardinalityType
<1> QED
  BY <1>1, <1>3, <1>4, <1>5

\* And one that gives its tickets up holds that many fewer.
LEMMA FewerTickets ==
  ASSUME NEW rows, NEW after, NEW e, NEW k \in Keys,
         k \notin LiveKeys(after, e),
         LiveKeys(rows, e) = LiveKeys(after, e) \cup {k},
         \A l \in LiveKeys(after, e) : rows[l].quantity = after[l].quantity,
         rows[k].quantity \in Nat,
         IsFiniteSet(HeldIn(rows, e))
  PROVE  /\ IsFiniteSet(HeldIn(after, e))
         /\ Cardinality(HeldIn(after, e)) + rows[k].quantity = Cardinality(HeldIn(rows, e))
<1>1. HeldIn(after, e) \subseteq HeldIn(rows, e)
  <2> SUFFICES ASSUME NEW x \in HeldIn(after, e) PROVE x \in HeldIn(rows, e)
    OBVIOUS
  <2>1. PICK l \in LiveKeys(after, e) : x \in {l} \X (1..after[l].quantity)
    BY HeldTickets
  <2> QED
    BY <2>1, HeldTickets
<1>2. IsFiniteSet(HeldIn(after, e))
  BY <1>1, FS_Subset
<1>3. Cardinality(HeldIn(rows, e)) = Cardinality(HeldIn(after, e)) + rows[k].quantity
  BY <1>2, MoreTickets
<1> QED
  BY <1>2, <1>3

\* A sale or a reservation takes its quantity out of stock.
LEMMA TakeStock ==
  ASSUME Inv, StockKept, NEW k \in Keys, NEW e \in Events, NEW row \in Order,
         KeyIsNew(k), row.event = e, row.status \in Live, row.kind = "tickets",
         available'[e] = available[e] - row.quantity,
         \A f \in Events : f # e => available'[f] = available[f],
         order'[k] = row, \A l \in Keys : l # k => order'[l] = order[l],
         UNCHANGED overwritten
  PROVE  StockKept'
<1>1. order'[k] = row /\ \A l \in Keys : l # k => order'[l] = order[l]
  OBVIOUS
<1>2. order[k].status \notin Live
  BY DEF KeyIsNew, NoOrder, Live
<1>3. row.quantity \in Nat
  BY QuantityAssumption DEF Order
<1>4. available[e] \in Nat
  BY DEF Inv, TypeOK
<1> SUFFICES ASSUME NEW f \in Events \ overwritten
             PROVE  /\ IsFiniteSet(HeldIn(order', f))
                    /\ available'[f] + Cardinality(HeldIn(order', f)) = Total[f]
  BY DEF StockKept, HeldIn, LiveKeys
<1>5. /\ IsFiniteSet(HeldIn(order, f)) /\ Cardinality(HeldIn(order, f)) \in Nat
      /\ available[f] + Cardinality(HeldIn(order, f)) = Total[f]
  BY FS_CardinalityType DEF StockKept
<1>6. CASE f = e
  <2>1. /\ k \notin LiveKeys(order, e)
        /\ LiveKeys(order', e) = LiveKeys(order, e) \cup {k}
        /\ \A l \in LiveKeys(order, e) : order'[l].quantity = order[l].quantity
    BY <1>1, <1>2 DEF LiveKeys
  <2>2. order'[k].quantity \in Nat /\ IsFiniteSet(HeldIn(order, e))
    BY <1>1, <1>3, <1>5, <1>6
  <2>3. /\ IsFiniteSet(HeldIn(order', e))
        /\ Cardinality(HeldIn(order', e)) = Cardinality(HeldIn(order, e)) + order'[k].quantity
    BY <2>1, <2>2, MoreTickets
  <2> QED
    BY <1>1, <1>3, <1>4, <1>5, <1>6, <2>3
<1>7. CASE f # e
  <2>1. /\ LiveKeys(order', f) = LiveKeys(order, f)
        /\ \A l \in LiveKeys(order, f) : order'[l].quantity = order[l].quantity
    BY <1>1, <1>2, <1>7 DEF LiveKeys
  <2>2. HeldIn(order', f) = HeldIn(order, f)
    BY <2>1, SameTickets
  <2> QED
    BY <1>5, <1>7, <2>2
<1> QED
  BY <1>6, <1>7

\* A cancellation or an expiry puts the quantity back, or the event is one
\* whose stock it has overwritten.
LEMMA GiveBack ==
  ASSUME Inv, StockKept, NEW k \in Keys, NEW e \in Events, NEW status,
         order[k] \in Order, order[k].event = e, status \notin Live,
         order'[k].status = status, order'[k].event = e, order'[k].kind = order[k].kind,
         \A l \in Keys : l # k => order'[l] = order[l],
         \A f \in Events : f # e => available'[f] = available[f],
         overwritten \subseteq overwritten',
         e \notin overwritten' =>
            /\ order[k].status \in Live /\ order[k].kind = "tickets"
            /\ available'[e] = available[e] + order[k].quantity
  PROVE  StockKept'
<1>1. order'[k].status = status /\ \A l \in Keys : l # k => order'[l] = order[l]
  OBVIOUS
<1>2. order[k].quantity \in Nat /\ available[e] \in Nat
  BY QuantityAssumption DEF Order, Inv, TypeOK
<1> SUFFICES ASSUME NEW f \in Events \ overwritten'
             PROVE  /\ IsFiniteSet(HeldIn(order', f))
                    /\ available'[f] + Cardinality(HeldIn(order', f)) = Total[f]
  BY DEF StockKept, HeldIn, LiveKeys
<1>3. /\ IsFiniteSet(HeldIn(order, f)) /\ Cardinality(HeldIn(order, f)) \in Nat
      /\ available[f] + Cardinality(HeldIn(order, f)) = Total[f]
  BY FS_CardinalityType DEF StockKept
<1>4. CASE f = e
  <2>1. /\ k \notin LiveKeys(order', e)
        /\ LiveKeys(order, e) = LiveKeys(order', e) \cup {k}
        /\ \A l \in LiveKeys(order', e) : order[l].quantity = order'[l].quantity
    BY <1>1, <1>4 DEF LiveKeys
  <2>2. IsFiniteSet(HeldIn(order, e)) /\ order[k].quantity \in Nat
    BY <1>2, <1>3, <1>4
  <2>3. /\ IsFiniteSet(HeldIn(order', e))
        /\ Cardinality(HeldIn(order', e)) + order[k].quantity = Cardinality(HeldIn(order, e))
    BY <2>1, <2>2, FewerTickets
  <2>4. Cardinality(HeldIn(order', e)) \in Nat
    BY <2>3, FS_CardinalityType
  <2> QED
    BY <1>2, <1>3, <1>4, <2>3, <2>4
<1>5. CASE f # e
  <2>1. /\ LiveKeys(order', f) = LiveKeys(order, f)
        /\ \A l \in LiveKeys(order, f) : order'[l].quantity = order[l].quantity
    BY <1>1, <1>5 DEF LiveKeys
  <2>2. HeldIn(order', f) = HeldIn(order, f)
    BY <2>1, SameTickets
  <2> QED
    BY <1>3, <1>5, <2>2
<1> QED
  BY <1>4, <1>5

\* A step that moves no stock: what it does to an order leaves its tickets
\* where they are, or is done to an order of seats.
LEMMA NoStockMoves ==
  ASSUME StockKept, UNCHANGED <<available, overwritten>>,
         \A l \in Keys :
            \/ /\ order[l].status \in Live /\ order'[l].status \in Live
               /\ order'[l].event = order[l].event /\ order'[l].kind = order[l].kind
               /\ order'[l].quantity = order[l].quantity
            \/ order'[l] = order[l]
            \/ /\ order[l].status \in Live => order[l].kind = "seats"
               /\ order'[l].status \in Live => order'[l].kind = "seats"
  PROVE  StockKept'
<1> SUFFICES ASSUME NEW f \in Events \ overwritten
             PROVE  HeldIn(order', f) = HeldIn(order, f)
  BY DEF StockKept, HeldIn, LiveKeys
<1>1. /\ LiveKeys(order', f) = LiveKeys(order, f)
      /\ \A l \in LiveKeys(order, f) : order'[l].quantity = order[l].quantity
  BY DEF LiveKeys
<1> QED
  BY <1>1, SameTickets

LEMMA StockStep ==
  ASSUME Inv, ListedExist, StockKept, [Next]_vars
  PROVE  StockKept'
<1>0. TypeOK
  BY DEF Inv
<1>1. ASSUME NEW k \in Keys, NEW q \in Quantities, NEW e \in Events,
             Buy(k, e, q) \/ Reserve(k, e, q)
      PROVE  StockKept'
  <2>1. PICK row \in Order :
          /\ row.event = e /\ row.quantity = q /\ row.status \in Live
          /\ row.kind = "tickets"
          /\ order' = [order EXCEPT ![k] = row]
    <3>1. CASE Buy(k, e, q)
      <4> DEFINE row == [status |-> "confirmed", kind |-> "tickets", event |-> e,
                         quantity |-> q, until |-> 0]
      <4>1. /\ row \in Order /\ row.event = e /\ row.quantity = q /\ row.status \in Live
            /\ row.kind = "tickets"
        BY TimeAssumption DEF Order, Status, Live
      <4>2. order' = [order EXCEPT ![k] = row]
        BY <3>1 DEF Buy
      <4> HIDE DEF row
      <4> QED
        BY <4>1, <4>2
    <3>2. CASE Reserve(k, e, q)
      <4> DEFINE row == [status |-> "reserved", kind |-> "tickets", event |-> e,
                         quantity |-> q, until |-> now + HoldTime]
      <4>1. /\ row \in Order /\ row.event = e /\ row.quantity = q /\ row.status \in Live
            /\ row.kind = "tickets"
        BY <1>0, <3>2, TimeAssumption DEF Reserve, TypeOK, Order, Status, Live
      <4>2. order' = [order EXCEPT ![k] = row]
        BY <3>2 DEF Reserve
      <4> HIDE DEF row
      <4> QED
        BY <4>1, <4>2
    <3> QED
      BY <1>1, <3>1, <3>2
  <2>2. /\ KeyIsNew(k) /\ UNCHANGED overwritten
        /\ available' = [available EXCEPT ![e] = @ - q]
    BY <1>1 DEF Buy, Reserve
  <2>3. /\ available'[e] = available[e] - row.quantity
        /\ \A f \in Events : f # e => available'[f] = available[f]
        /\ order'[k] = row /\ \A l \in Keys : l # k => order'[l] = order[l]
    BY <1>0, <2>1, <2>2 DEF TypeOK
  <2> QED
    BY <2>1, <2>2, <2>3, TakeStock
<1>2. ASSUME NEW k \in Keys, NEW q \in Quantities, NEW e \in Events,
             RefuseSale(k, e, q) \/ Replay(k, e, q)
      PROVE  StockKept'
  BY <1>2, NoStockMoves DEF RefuseSale, Replay, RolledBack
<1>3. ASSUME NEW k \in Keys, NEW q \in Quantities, NEW e \in SeatEvents, OrderSeats(k, e, q)
      PROVE  StockKept'
  <2>1. UNCHANGED <<available, overwritten>> /\ order[k].status = "none"
    BY <1>3 DEF OrderSeats, KeyIsNew, NoOrder
  <2>2. order'[k].kind = "seats" /\ \A l \in Keys : l # k => order'[l] = order[l]
    BY <1>0, <1>3 DEF OrderSeats, TypeOK
  <2> QED
    BY <2>1, <2>2, NoStockMoves DEF Live
<1>4. ASSUME NEW k \in Keys, ConfirmOrder(k) PROVE StockKept'
  <2>1. order[k] \in Order /\ order[k].status = "reserved"
    BY <1>0, <1>4, OrderRow DEF ConfirmOrder, Confirmable, Status
  <2>2. /\ order'[k].status = "confirmed" /\ order'[k].event = order[k].event
        /\ order'[k].kind = order[k].kind /\ order'[k].quantity = order[k].quantity
        /\ \A l \in Keys : l # k => order'[l] = order[l]
        /\ UNCHANGED <<available, overwritten>>
    BY <1>0, <1>4, <2>1 DEF ConfirmOrder, TypeOK, Order
  <2> QED
    BY <2>1, <2>2, NoStockMoves DEF Live
<1>5. ASSUME NEW k \in Keys, CancelSeats(k) \/ \E status \in Status : FinalizeSeats(k, status)
      PROVE  StockKept'
  <2>1. order[k] \in Order /\ order[k].kind = "seats"
    BY <1>0, <1>5, OrderRow DEF CancelSeats, FinalizeSeats, Inv, SeatOrders, Status
  <2>2. PICK status : order' = [order EXCEPT ![k].status = status]
    BY <1>5 DEF CancelSeats, FinalizeSeats
  <2>3. /\ order'[k].kind = "seats"
        /\ \A l \in Keys : l # k => order'[l] = order[l]
    BY <1>0, <2>1, <2>2 DEF TypeOK, Order
  <2>4. UNCHANGED <<available, overwritten>>
    BY <1>5 DEF CancelSeats, FinalizeSeats
  <2> QED
    BY <2>1, <2>3, <2>4, NoStockMoves
<1>6. ASSUME NEW c \in Cancellers, WriteStock(c) PROVE StockKept'
  <2>1. PICK k : k = cancelling[c]
    OBVIOUS
  <2>2. PICK e : e = order[k].event
    OBVIOUS
  <2>3. /\ k # NoKey
        /\ available' = [available EXCEPT ![e] = seen[c] + order[k].quantity]
        /\ order' = [order EXCEPT ![k].status = "cancelled"]
        /\ overwritten' = IF available[e] = seen[c] THEN overwritten ELSE overwritten \cup {e}
    BY <1>6, <2>1, <2>2 DEF WriteStock
  <2>4. /\ k \in Keys /\ order[k].status = "confirmed" /\ order[k].kind = "tickets"
        /\ order[k] \in Order
    BY <1>0, <2>1, <2>2, <2>3, OrderRow DEF Inv, TypeOK, LockedOrdersConfirmed, Status
  <2>5. e \in Events
    BY <2>2, <2>4 DEF Inv, TicketOrders
  <2>6. /\ order'[k].status = "cancelled" /\ order'[k].event = e
        /\ order'[k].kind = order[k].kind
        /\ \A l \in Keys : l # k => order'[l] = order[l]
    BY <1>0, <2>2, <2>3, <2>4 DEF TypeOK, Order
  <2>7. /\ \A f \in Events : f # e => available'[f] = available[f]
        /\ overwritten \subseteq overwritten'
        /\ e \notin overwritten' => available'[e] = available[e] + order[k].quantity
    BY <1>0, <2>3, <2>5 DEF TypeOK
  <2> QED
    BY <2>2, <2>4, <2>6, <2>7, <2>5, GiveBack DEF Live
<1>7. ASSUME NEW x \in Commands, NEW k \in Keys, ExpireOrder(x, k) PROVE StockKept'
  <2>1. PICK e : e = order[k].event
    OBVIOUS
  <2>2. /\ e \in Events /\ order[k] \in Order
        /\ available' = [available EXCEPT ![e] = @ + order[k].quantity]
        /\ order' = [order EXCEPT ![k].status = "expired"]
        /\ overwritten' = IF order[k].status \in {"reserved", "confirmed"}
                             /\ order[k].kind = "tickets"
                          THEN overwritten ELSE overwritten \cup {e}
    BY <1>7, <2>1 DEF ExpireOrder, ListedExist
  <2>3. /\ order'[k].status = "expired" /\ order'[k].event = e
        /\ order'[k].kind = order[k].kind
        /\ \A l \in Keys : l # k => order'[l] = order[l]
    BY <1>0, <2>1, <2>2 DEF TypeOK, Order
  <2>4. /\ \A f \in Events : f # e => available'[f] = available[f]
        /\ overwritten \subseteq overwritten'
        /\ available'[e] = available[e] + order[k].quantity
        /\ e \notin overwritten' => order[k].status \in Live /\ order[k].kind = "tickets"
    BY <1>0, <2>2 DEF TypeOK, Live
  <2> QED
    BY <2>1, <2>2, <2>3, <2>4, GiveBack DEF Live
<1>8. ASSUME UNCHANGED <<available, order, overwritten>> PROVE StockKept'
  BY <1>8, NoStockMoves
<1>9. ASSUME NEW c \in Cancellers, CancelDies(c) \/ \E k \in Keys : ReadStock(c, k)
      PROVE  StockKept'
  BY <1>8, <1>9 DEF CancelDies, ReadStock
<1>10. ASSUME NEW x \in Commands, ListExpired(x) \/ CommandAborts(x) PROVE StockKept'
  BY <1>8, <1>10 DEF ListExpired, CommandAborts
<1>11. Sale => StockKept'
  BY <1>1, <1>2, <1>3 DEF Sale
<1>12. Settle => StockKept'
  BY <1>4, <1>5 DEF Settle, Status
<1>13. Cancel => StockKept'
  BY <1>6, <1>9 DEF Cancel
<1>14. Expiry => StockKept'
  BY <1>7, <1>10 DEF Expiry
<1>15. Tick \/ UNCHANGED vars => StockKept'
  BY <1>8 DEF Tick, vars
<1> QED
  BY <1>11, <1>12, <1>13, <1>14, <1>15 DEF Next

LEMMA InitStock == Init => StockKept
<1> SUFFICES ASSUME Init, NEW e \in Events
             PROVE  /\ IsFiniteSet(HeldIn(order, e))
                    /\ available[e] + Cardinality(HeldIn(order, e)) = Total[e]
  BY DEF StockKept
<1>1. LiveKeys(order, e) = {}
  BY DEF Init, LiveKeys, Live, NoOrder
<1>2. HeldIn(order, e) = {}
  BY <1>1 DEF HeldIn
<1>3. available[e] = Total[e] /\ Total[e] \in Nat
  BY TotalAssumption DEF Init
<1> QED
  BY <1>2, <1>3, FS_EmptySet

LEMMA StockInvariance == Spec => []StockKept
<1>1. Inv /\ ListedExist /\ StockKept /\ [Next]_vars => StockKept'
  BY StockStep
<1> QED
  BY <1>1, InitStock, Invariance, PTL DEF Spec

\* What the invariant counts is what the run's property counts.
LEMMA LiveTickets ==
  ASSUME NEW e
  PROVE  HeldIn(order, e) = TakenSet(e, {"reserved", "confirmed"})
BY DEF HeldIn, LiveKeys, Live, TakenSet, Tickets

\* Whatever is bought, reserved, retried, cancelled and expired in whatever
\* order, the stock and the orders of an event add up to its tickets until a
\* cancellation has written a stock it read too early, or the command has put
\* back tickets that were not out.
THEOREM StockConserved == Spec => []Conserved
<1>1. StockKept => Conserved
  BY LiveTickets DEF StockKept, Conserved, Taken
<1> QED
  BY <1>1, StockInvariance, PTL

\* Confirmed orders are among those that hold tickets.
LEMMA NoneOversold ==
  ASSUME Inv, StockKept, NEW e \in Events \ overwritten
  PROVE  Taken(e, {"confirmed"}) <= Total[e]
<1>1. TakenSet(e, {"confirmed"}) \subseteq HeldIn(order, e)
  BY DEF TakenSet, Tickets, HeldIn, LiveKeys, Live
<1>2. IsFiniteSet(HeldIn(order, e)) /\ Cardinality(HeldIn(order, e)) \in Nat
      /\ available[e] + Cardinality(HeldIn(order, e)) = Total[e] /\ available[e] \in Nat
  BY FS_CardinalityType DEF StockKept, Inv, TypeOK
<1>3. /\ IsFiniteSet(TakenSet(e, {"confirmed"}))
      /\ Cardinality(TakenSet(e, {"confirmed"})) <= Cardinality(HeldIn(order, e))
  BY <1>1, <1>2, FS_Subset
<1>4. Cardinality(TakenSet(e, {"confirmed"})) \in Nat
  BY <1>3, FS_CardinalityType
<1> QED
  BY <1>2, <1>3, <1>4 DEF Taken

\* While nobody has overwritten the stock of an event, no more of its tickets
\* are sold than there are.
THEOREM SoldWithinStock ==
  Spec => [](\A e \in Events \ overwritten : Taken(e, {"confirmed"}) <= Total[e])
<1>1. Inv /\ StockKept => \A e \in Events \ overwritten : Taken(e, {"confirmed"}) <= Total[e]
  BY NoneOversold
<1> QED
  BY <1>1, Invariance, StockInvariance, PTL

----------------------------------------------------------------------------
(***************************************************************************)
(* Where nobody cancels, one command runs at a time and no event sells     *)
(* both seats and tickets, nothing is ever overwritten: an order the       *)
(* command has listed is still out when it gets there, since only the      *)
(* command itself could have taken it back.                                *)
(***************************************************************************)
ListedOut ==
    /\ overwritten = {}
    /\ \A x \in Commands : \A k \in listed[x] :
            order[k].event \in Events => order[k].status \in Live

LEMMA ListedOutStep ==
  ASSUME Inv, ListedExist, ListedOut, Cancellers = {},
         \A x, y \in Commands : x = y, Events \cap SeatEvents = {}, [Next]_vars
  PROVE  ListedOut'
<1>0. TypeOK
  BY DEF Inv
<1>1. ASSUME UNCHANGED <<overwritten, listed>>,
             \A l \in Keys : order[l].status \in Status =>
                \/ order'[l] = order[l]
                \/ order'[l].event \in Events => order'[l].status \in Live
      PROVE  ListedOut'
  <2>1. \A x \in Commands : \A l \in listed[x] : l \in Keys /\ order[l].status \in Status
    BY <1>0 DEF ListedExist, TypeOK, Order
  <2> QED
    BY <1>1, <2>1 DEF ListedOut
<1>2. Sale => ListedOut'
  <2> SUFFICES ASSUME Sale PROVE ListedOut'
    OBVIOUS
  <2>1. UNCHANGED <<overwritten, listed>>
    BY DEF Sale, Buy, RefuseSale, Replay, Reserve, OrderSeats
  <2>2. ASSUME NEW l \in Keys, order[l].status \in Status PROVE order'[l] = order[l]
    <3>1. order[l] # NoOrder
      BY <2>2 DEF NoOrder, Status
    <3>2. ASSUME NEW k \in Keys, NEW q \in Quantities, NEW e \in Events,
                 Buy(k, e, q) \/ Reserve(k, e, q)
          PROVE  order'[l] = order[l]
      BY <1>0, <3>1, <3>2 DEF Buy, Reserve, KeyIsNew, TypeOK
    <3>3. ASSUME NEW k \in Keys, NEW q \in Quantities, NEW e \in Events,
                 RefuseSale(k, e, q) \/ Replay(k, e, q)
          PROVE  order'[l] = order[l]
      BY <3>3 DEF RefuseSale, Replay
    <3>4. ASSUME NEW k \in Keys, NEW q \in Quantities, NEW e \in SeatEvents, OrderSeats(k, e, q)
          PROVE  order'[l] = order[l]
      BY <1>0, <3>1, <3>4 DEF OrderSeats, KeyIsNew, TypeOK
    <3> QED
      BY <3>2, <3>3, <3>4 DEF Sale
  <2> QED
    BY <1>1, <2>1, <2>2
<1>3. ASSUME NEW k \in Keys, ConfirmOrder(k) PROVE ListedOut'
  <2>1. UNCHANGED <<overwritten, listed>>
    BY <1>3 DEF ConfirmOrder
  <2>2. order[k] \in Order
    BY <1>0, <1>3, OrderRow DEF ConfirmOrder, Confirmable, Status
  <2>3. order'[k].status = "confirmed" /\ \A l \in Keys : l # k => order'[l] = order[l]
    BY <1>0, <1>3, <2>2 DEF ConfirmOrder, TypeOK, Order
  <2> QED
    BY <1>1, <2>1, <2>3 DEF Live
<1>4. ASSUME NEW k \in Keys, CancelSeats(k) \/ \E status \in Status : FinalizeSeats(k, status)
      PROVE  ListedOut'
  <2>1. UNCHANGED <<overwritten, listed>>
    BY <1>4 DEF CancelSeats, FinalizeSeats
  <2>2. order[k] \in Order /\ order[k].event \in SeatEvents
    BY <1>0, <1>4, OrderRow DEF CancelSeats, FinalizeSeats, Inv, SeatOrders, Status
  <2>3. PICK status : order' = [order EXCEPT ![k].status = status]
    BY <1>4 DEF CancelSeats, FinalizeSeats
  <2>4. order'[k].event \in SeatEvents /\ \A l \in Keys : l # k => order'[l] = order[l]
    BY <1>0, <2>2, <2>3 DEF TypeOK, Order
  <2> QED
    BY <1>1, <2>1, <2>4
<1>5. ASSUME NEW x \in Commands, ListExpired(x) PROVE ListedOut'
  BY <1>0, <1>5 DEF ListExpired, ListedOut, Live, TypeOK
<1>6. ASSUME NEW x \in Commands, CommandAborts(x) PROVE ListedOut'
  BY <1>0, <1>6 DEF CommandAborts, ListedOut, TypeOK
<1>7. ASSUME NEW x \in Commands, NEW k \in Keys, ExpireOrder(x, k) PROVE ListedOut'
  <2>1. order[k].status \in Live /\ order[k].kind = "tickets"
    BY <1>7 DEF ExpireOrder, ListedOut, ListedExist, Inv, SeatOrders, Order
  <2>2. overwritten' = {}
    BY <1>7, <2>1 DEF ExpireOrder, ListedOut, Live
  <2>3. \A y \in Commands : listed'[y] = listed[y] \ {k}
    BY <1>0, <1>7 DEF ExpireOrder, TypeOK
  <2>4. \A l \in Keys : l # k => order'[l] = order[l]
    BY <1>0, <1>7 DEF ExpireOrder, TypeOK
  <2> QED
    BY <1>0, <2>2, <2>3, <2>4 DEF ListedOut, TypeOK
<1>8. ~Cancel
  BY DEF Cancel
<1>9. Tick \/ UNCHANGED vars => ListedOut'
  BY DEF Tick, vars, ListedOut
<1> QED
  BY <1>2, <1>3, <1>4, <1>5, <1>6, <1>7, <1>8, <1>9 DEF Next, Settle, Expiry, Status

\* The inventory is safe but for cancel_order, for two runs of the command at
\* once and for events that sell seats as well as tickets: without them no
\* event is ever oversold, however purchases, reservations, confirmations,
\* retries and the command interleave.
THEOREM SafeWithoutCancels ==
  ASSUME Cancellers = {}, \A x, y \in Commands : x = y, Events \cap SeatEvents = {}
  PROVE  Spec => []NoOversell
<1>1. Init => ListedOut
  BY DEF Init, ListedOut
<1>2. Inv /\ ListedExist /\ ListedOut /\ [Next]_vars => ListedOut'
  BY ListedOutStep
<1>3. Inv /\ StockKept /\ ListedOut => NoOversell
  BY NoneOversold DEF ListedOut, NoOversell
<1> QED
  BY <1>1, <1>2, <1>3, Invariance, StockInvariance, PTL DEF Spec

----------------------------------------------------------------------------
(***************************************************************************)
(* The answers.                                                            *)
(***************************************************************************)

\* What a step does to one row: nothing, or the row is new, or it keeps its
\* event and quantity and never goes back to being reserved.
RowStep(k) ==
    \/ order'[k] = order[k]
    \/ order[k] = NoOrder /\ order'[k] \in Order
    \/ /\ order[k] \in Order /\ order'[k] \in Order
       /\ order'[k].event = order[k].event /\ order'[k].status # "reserved"

LEMMA RowSteps ==
  ASSUME Inv, ListedExist, [Next]_vars, NEW k \in Keys
  PROVE  RowStep(k)
<1>0. TypeOK /\ TypeOK' /\ Once(k)
  BY NextInv DEF Inv
<1>1. ASSUME NEW l \in Keys, NEW status \in Status \ {"reserved"},
             order[l] \in Order, order' = [order EXCEPT ![l].status = status]
      PROVE  RowStep(k)
  <2>1. CASE k = l
    <3>1. order'[k].status = status /\ order'[k].event = order[k].event
      BY <1>0, <1>1, <2>1 DEF TypeOK, Order
    <3>2. order'[k] \in Order
      <4>1. order'[k].status \in Status
        BY <1>1, <3>1
      <4> QED
        BY <1>0, <4>1, OrderRow DEF TypeOK, NoOrder, Status
    <3> QED
      BY <1>1, <2>1, <3>1, <3>2 DEF RowStep
  <2>2. CASE k # l
    BY <1>0, <1>1, <2>2 DEF RowStep, TypeOK
  <2> QED
    BY <2>1, <2>2
<1>2. Sale => RowStep(k)
  <2>1. ASSUME NEW l \in Keys, NEW q \in Quantities, NEW e \in Events,
               Buy(l, e, q) \/ Reserve(l, e, q)
        PROVE  RowStep(k)
    <3>1. CASE k = l
      <4>1. order[k] = NoOrder /\ order'[k].status \in Status
        BY <1>0, <2>1, <3>1 DEF Buy, Reserve, KeyIsNew, TypeOK, Status
      <4>2. order'[k] \in Order
        BY <1>0, <4>1 DEF TypeOK, NoOrder, Status
      <4> QED
        BY <4>1, <4>2 DEF RowStep
    <3>2. CASE k # l
      BY <1>0, <2>1, <3>2 DEF Buy, Reserve, RowStep, TypeOK
    <3> QED
      BY <3>1, <3>2
  <2>2. ASSUME NEW l \in Keys, NEW q \in Quantities, NEW e \in SeatEvents,
               OrderSeats(l, e, q)
        PROVE  RowStep(k)
    <3>1. CASE k = l
      <4>1. order[k] = NoOrder /\ order'[k].status = "reserved"
        BY <1>0, <2>2, <3>1 DEF OrderSeats, KeyIsNew, TypeOK
      <4>2. order'[k] \in Order
        BY <1>0, <4>1 DEF TypeOK, NoOrder, Status
      <4> QED
        BY <4>1, <4>2 DEF RowStep
    <3>2. CASE k # l
      BY <1>0, <2>2, <3>2 DEF OrderSeats, RowStep, TypeOK
    <3> QED
      BY <3>1, <3>2
  <2>3. ASSUME NEW l \in Keys, NEW q \in Quantities, NEW e \in Events,
               RefuseSale(l, e, q) \/ Replay(l, e, q)
        PROVE  RowStep(k)
    BY <2>3 DEF RefuseSale, Replay, RowStep
  <2> QED
    BY <2>1, <2>2, <2>3 DEF Sale
<1>3. Settle => RowStep(k)
  <2>1. ASSUME NEW l \in Keys, ConfirmOrder(l) PROVE RowStep(k)
    BY <1>0, <1>1, <2>1, OrderRow DEF ConfirmOrder, Confirmable, Status, TypeOK
  <2>2. ASSUME NEW l \in Keys, NEW status \in {"confirmed", "cancelled"},
               FinalizeSeats(l, status)
        PROVE  RowStep(k)
    BY <1>0, <1>1, <2>2 DEF FinalizeSeats, Status, TypeOK, Inv, SeatOrders
  <2>3. ASSUME NEW l \in Keys, CancelSeats(l) PROVE RowStep(k)
    BY <1>0, <1>1, <2>3, OrderRow DEF CancelSeats, Status
  <2> QED
    BY <2>1, <2>2, <2>3 DEF Settle
<1>4. Cancel => RowStep(k)
  <2>1. ASSUME NEW c \in Cancellers, WriteStock(c) PROVE RowStep(k)
    <3>1. PICK l : l = cancelling[c]
      OBVIOUS
    <3>2. /\ l \in Keys /\ order[l] \in Order
          /\ order' = [order EXCEPT ![l].status = "cancelled"]
      BY <1>0, <2>1, <3>1, OrderRow
         DEF WriteStock, Inv, TypeOK, LockedOrdersConfirmed, Status
    <3> QED
      BY <1>1, <3>2 DEF Status
  <2>2. ASSUME NEW c \in Cancellers, CancelDies(c) \/ \E l \in Keys : ReadStock(c, l)
        PROVE  RowStep(k)
    BY <2>2 DEF CancelDies, ReadStock, RowStep
  <2> QED
    BY <2>1, <2>2 DEF Cancel
<1>5. Expiry => RowStep(k)
  <2>1. ASSUME NEW x \in Commands, NEW l \in Keys, ExpireOrder(x, l) PROVE RowStep(k)
    <3>1. /\ order[l] \in Order
          /\ order' = [order EXCEPT ![l].status = "expired"]
      BY <2>1 DEF ExpireOrder, ListedExist
    <3> QED
      BY <1>1, <3>1 DEF Status
  <2>2. ASSUME NEW x \in Commands, ListExpired(x) \/ CommandAborts(x) PROVE RowStep(k)
    BY <2>2 DEF ListExpired, CommandAborts, RowStep
  <2> QED
    BY <2>1, <2>2 DEF Expiry
<1>6. Tick \/ UNCHANGED vars => RowStep(k)
  BY DEF Tick, vars, RowStep
<1> QED
  BY <1>2, <1>3, <1>4, <1>5, <1>6 DEF Next

\* An answer is given by a sale that stands behind it, or is an earlier one.
LEMMA AnswersStep ==
  ASSUME Inv, ListedExist, AnswersStand, [Next]_vars
  PROVE  AnswersStand'
<1>0. /\ TypeOK /\ TypeOK' /\ Announced
      /\ \A l \in Keys : RowStep(l) /\ Once(l)
  BY NextInv, RowSteps DEF Inv
<1>1. NoOrder \notin Order /\ \A row \in Order : row.status \in Status
  BY DEF NoOrder, Order
<1>2. CASE UNCHANGED reply
  <2>1. CASE reply = NoReply
    BY <1>2, <2>1 DEF AnswersStand
  <2>2. CASE reply # NoReply
    <3>1. PICK k \in Keys : k = reply.key
      BY <1>0, <2>2 DEF TypeOK, Reply
    <3>2. RowStep(k) /\ Once(k)
      BY <1>0
    <3>3. order[k] # NoOrder =>
            order'[k] # NoOrder /\ order'[k].event = order[k].event
      BY <1>1, <3>2 DEF RowStep
    <3>4. order[k] # NoOrder /\ order[k].status # "reserved" =>
            order'[k].status # "reserved" /\ outbox'[k] \in {1, outbox[k]}
      BY <1>1, <3>2 DEF RowStep, Once
    <3> QED
      BY <1>2, <2>2, <3>1, <3>3, <3>4 DEF AnswersStand
  <2> QED
    BY <2>1, <2>2
<1>3. ASSUME NEW k \in Keys, NEW q \in Quantities, NEW e \in Events,
             Buy(k, e, q) \/ RefuseSale(k, e, q) \/ Replay(k, e, q)
      PROVE  AnswersStand'
  <2>1. CASE Buy(k, e, q)
    <3>1. /\ order[k] = NoOrder /\ order'[k].event = e /\ order'[k].status = "confirmed"
          /\ outbox'[k] = 1
          /\ reply'.key = k /\ reply'.event = e /\ reply'.answer = "created"
      BY <1>0, <2>1 DEF Buy, KeyIsNew, Answer, Announced, NoOrder, TypeOK
    <3>2. order'[k] # NoOrder
      BY <3>1 DEF NoOrder
    <3> QED
      BY <3>1, <3>2 DEF AnswersStand
  <2>2. CASE RefuseSale(k, e, q)
    <3>1. reply'.answer = "not enough"
      BY <2>2 DEF RefuseSale, Answer
    <3> QED
      BY <3>1 DEF AnswersStand
  <2>3. CASE Replay(k, e, q)
    <3>1. /\ order'[k] # NoOrder
          /\ reply'.key = k /\ reply'.event = e
          /\ reply'.answer = IF order'[k].event = e THEN "duplicate" ELSE "server error"
      BY <2>3 DEF Replay, KeyIsNew, Answer
    <3> QED
      BY <3>1 DEF AnswersStand
  <2> QED
    BY <1>3, <2>1, <2>2, <2>3
<1>4. Sale => AnswersStand'
  BY <1>2, <1>3 DEF Sale, Reserve, OrderSeats
<1>5. ~Sale => UNCHANGED reply
  BY DEF Next, Tick, vars, Settle, ConfirmOrder, FinalizeSeats, CancelSeats, Cancel, WriteStock,
         CancelDies, ReadStock, Expiry, ListExpired, CommandAborts, ExpireOrder
<1> QED
  BY <1>2, <1>4, <1>5

\* A buyer's last answer stays true, whatever others do after it.
THEOREM AnswersKept == Spec => []AnswersStand
<1>1. Init => AnswersStand
  BY DEF Init, AnswersStand
<1>2. Inv /\ ListedExist /\ AnswersStand /\ [Next]_vars => AnswersStand'
  BY AnswersStep
<1> QED
  BY <1>1, <1>2, Invariance, PTL DEF Spec
=============================================================================
