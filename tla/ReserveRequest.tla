--------------------------- MODULE ReserveRequest ---------------------------
(***************************************************************************)
(* One reservation request from the inside: the Redis seat locks, then the *)
(* database transaction with its EventSeat row locks.  SeatBooking takes   *)
(* the transaction for one step; here it is taken apart, for whole-event   *)
(* holds of one event, to see what the two kinds of locks are good for.    *)
(* Beside the requests run the other transactions that lock rows of these  *)
(* seats: the save of the hall locks Seat rows and then EventSeat rows,    *)
(* payments, cancellations, sweeps and saves of the event EventSeat rows   *)
(* only.  What they do to the statuses is the subject of SeatBooking; here *)
(* they wait and are waited for.  Any of them may stall or die between any *)
(* two steps.                                                              *)
(***************************************************************************)
EXTENDS Naturals, FiniteSets, FiniteSetsExt

CONSTANTS
    Seats,     \* seat ids; the Redis keys are taken in their order
    NoSeat,
    Requests,  \* concurrent requests; the name doubles as MultiRedisLock.token
    Writers,   \* the other transactions
    Nobody

ASSUME SeatAssumption == Seats \subseteq Nat /\ NoSeat \notin Seats
ASSUME RequestAssumption == Nobody \notin Requests \cup Writers
ASSUME WriterAssumption == Requests \cap Writers = {}

VARIABLES
    want,         \* seat_ids of each request
    pc,           \* how far each request and writer is
    redis,        \* the token stored under each seat's key
    acquired,     \* MultiRedisLock._acquired
    row_lock,     \* which transaction has locked the EventSeat row
    seat_lock,    \* which transaction has locked the Seat row
    asks,         \* the row each is waiting for or about to get
    event_seats   \* committed EventSeat.status

redisVars == <<redis, acquired>>
rowVars   == <<row_lock, seat_lock, asks>>
vars      == <<want, pc, redisVars, rowVars, event_seats>>

Tasks    == Requests \cup Writers
Answered == {"reserved", "refused", "failed"}
Steps    == {"locking", "unlocking", "backing off", "rows", "writing"} \cup Answered
WriterSteps == {"idle", "seats", "statuses", "saved", "failed"}

Init ==
    /\ want \in [Requests -> (SUBSET Seats) \ {{}}]
    /\ pc = [t \in Tasks |-> IF t \in Requests THEN "locking" ELSE "idle"]
    /\ redis = [s \in Seats |-> Nobody]
    /\ acquired = [r \in Requests |-> {}]
    /\ row_lock = [s \in Seats |-> Nobody]
    /\ seat_lock = [s \in Seats |-> Nobody]
    /\ asks = [t \in Tasks |-> NoSeat]
    /\ event_seats = [s \in Seats |-> "available"]

Goto(t, step) == pc' = [pc EXCEPT ![t] = step]

----------------------------------------------------------------------------
(***************************************************************************)
(* MultiRedisLock                                                          *)
(***************************************************************************)
NextKey(r) == Min(want[r] \ acquired[r])

\* SET key token NX EX ttl, one key at a time, in the order of the ids.
SetKey(r) ==
    /\ pc[r] = "locking"
    /\ redis[NextKey(r)] = Nobody
    /\ redis' = [redis EXCEPT ![NextKey(r)] = r]
    /\ acquired' = [acquired EXCEPT ![r] = @ \cup {NextKey(r)}]
    /\ Goto(r, IF acquired'[r] = want[r] THEN "unlocking" ELSE "locking")
    /\ UNCHANGED <<want, rowVars, event_seats>>

\* A key is taken: what was acquired is given back, the answer is "busy".
KeyTaken(r) ==
    /\ pc[r] = "locking"
    /\ redis[NextKey(r)] # Nobody
    /\ Goto(r, "backing off")
    /\ UNCHANGED <<want, redisVars, rowVars, event_seats>>

\* The Lua script deletes a key that holds the request's own token; a plain
\* DEL would delete whatever is there.
PlainDelete(r, s) == [redis EXCEPT ![s] = Nobody]
DeleteIfOwn(r, s) == IF redis[s] = r THEN [redis EXCEPT ![s] = Nobody] ELSE redis

DeleteKey(r, s) ==
    /\ pc[r] \in {"unlocking", "backing off"}
    /\ acquired[r] # {} /\ s = Min(acquired[r])
    /\ redis' = DeleteIfOwn(r, s)
    /\ acquired' = [acquired EXCEPT ![r] = @ \ {s}]
    /\ UNCHANGED <<want, pc, rowVars, event_seats>>

\* The `with' block ends before the transaction begins.
Unlocked(r) ==
    /\ acquired[r] = {}
    /\ \/ pc[r] = "unlocking" /\ Goto(r, "rows")
       \/ pc[r] = "backing off" /\ Goto(r, "refused")
    /\ UNCHANGED <<want, redisVars, rowVars, event_seats>>

\* The time to live of a key runs out, whatever its request is doing; a key
\* set without EX stays.
NoTimeToLive(s) == FALSE
HasTimeToLive(s) == redis[s] # Nobody

KeyExpires(s) ==
    /\ HasTimeToLive(s)
    /\ redis' = [redis EXCEPT ![s] = Nobody]
    /\ UNCHANGED <<want, pc, acquired, rowVars, event_seats>>

----------------------------------------------------------------------------
(***************************************************************************)
(* transaction.atomic()                                                    *)
(***************************************************************************)

\* A request first locks EventSeat rows by select_for_update; the foreign keys
\* of its ReservationSeat rows then lock the Seat rows.  A save of the hall
\* takes Seat rows first.
WantsSeat(t) == pc[t] \in {"writing", "seats"}
WantsRow(t)  == pc[t] \in {"rows", "statuses"}
Needs(t)     == IF t \in Requests THEN want[t] ELSE Seats
LockFor(t)   == IF WantsSeat(t) THEN seat_lock ELSE row_lock

\* There is no order_by, and drawings have an order of their own: rows come
\* in any order; each is waited for and those had are kept.
AskRow(t, s) ==
    /\ WantsSeat(t) \/ WantsRow(t)
    /\ asks[t] = NoSeat
    /\ s \in Needs(t) /\ LockFor(t)[s] # t
    /\ asks' = [asks EXCEPT ![t] = s]
    /\ UNCHANGED <<want, pc, redisVars, row_lock, seat_lock, event_seats>>

GetRow(t) ==
    /\ asks[t] # NoSeat
    /\ LockFor(t)[asks[t]] = Nobody
    /\ IF WantsSeat(t)
       THEN seat_lock' = [seat_lock EXCEPT ![asks[t]] = t] /\ UNCHANGED row_lock
       ELSE row_lock' = [row_lock EXCEPT ![asks[t]] = t] /\ UNCHANGED seat_lock
    /\ asks' = [asks EXCEPT ![t] = NoSeat]
    /\ UNCHANGED <<want, pc, redisVars, event_seats>>

\* Every row of the request is locked; without select_for_update none is.
RowsRead(r) == pc[r] = "rows" /\ asks[r] = NoSeat
RowsLocked(r) == pc[r] = "rows" /\ asks[r] = NoSeat /\ \A s \in want[r] : row_lock[s] = r

\* A transaction that ends gives its rows back, by commit or by rollback; one
\* left open by an early return would keep them.
KeepRows(t) == UNCHANGED rowVars
FreeRows(t) ==
    /\ row_lock' = [s \in Seats |-> IF row_lock[s] = t THEN Nobody ELSE row_lock[s]]
    /\ seat_lock' = [s \in Seats |-> IF seat_lock[s] = t THEN Nobody ELSE seat_lock[s]]
    /\ asks' = [asks EXCEPT ![t] = NoSeat]

AllAvailable(r) == \A s \in want[r] : event_seats[s] = "available"

\* seat_taken_for_session on every seat
SeatsFree(r) ==
    /\ RowsLocked(r)
    /\ AllAvailable(r)
    /\ Goto(r, "writing")
    /\ UNCHANGED <<want, redisVars, rowVars, event_seats>>

SeatTaken(r) ==
    /\ RowsLocked(r)
    /\ ~AllAvailable(r)
    /\ Goto(r, "refused")
    /\ FreeRows(r)
    /\ UNCHANGED <<want, redisVars, event_seats>>

\* EventSeat.STATUS_RESERVED, and the status of a reservation in its place.
HeldAsActive == "active"
Held == "reserved"

\* The reservation, its seats and the new statuses are committed.
Commit(r) ==
    /\ pc[r] = "writing"
    /\ \A s \in want[r] : seat_lock[s] = r
    /\ event_seats' = [s \in Seats |-> IF s \in want[r] THEN Held ELSE event_seats[s]]
    /\ Goto(r, "reserved")
    /\ FreeRows(r)
    /\ UNCHANGED <<want, redisVars>>

----------------------------------------------------------------------------
(***************************************************************************)
(* The other transactions                                                  *)
(***************************************************************************)

\* HallAdmin.save_model locks the seats it finds drawn, one save of a hall at
\* a time; the others go straight to the rows of the event.
BeginHall(w) ==
    /\ pc[w] = "idle"
    /\ \A v \in Writers : pc[v] # "seats" /\ \A s \in Seats : seat_lock[s] # v
    /\ Goto(w, "seats")
    /\ UNCHANGED <<want, redisVars, rowVars, event_seats>>

BeginRows(w) ==
    /\ pc[w] = "idle"
    /\ Goto(w, "statuses")
    /\ UNCHANGED <<want, redisVars, rowVars, event_seats>>

\* All seats are locked; sync_event_seats goes on with the prices.
SeatsDrawn(w) ==
    /\ pc[w] = "seats"
    /\ \A s \in Seats : seat_lock[s] = w
    /\ Goto(w, "statuses")
    /\ UNCHANGED <<want, redisVars, rowVars, event_seats>>

\* It commits, whichever rows it had to write.
WriterDone(w) ==
    /\ pc[w] = "statuses" /\ asks[w] = NoSeat
    /\ Goto(w, "saved")
    /\ FreeRows(w)
    /\ UNCHANGED <<want, redisVars, event_seats>>

----------------------------------------------------------------------------
\* Transactions that the database may fail for their locks: those that wait
\* for each other's rows in a cycle, each having what another waits for.
Deadlocked ==
    UNION {D \in SUBSET Tasks :
            /\ \A t \in D : asks[t] # NoSeat /\ LockFor(t)[asks[t]] \in D
            /\ \A t \in D : \E u \in D : LockFor(u)[asks[u]] = t}

\* The database ends a deadlock by failing one of them; nothing catches the
\* OperationalError.
DeadlockVictim(t) ==
    /\ t \in Deadlocked
    /\ Goto(t, "failed")
    /\ FreeRows(t)
    /\ UNCHANGED <<want, redisVars, event_seats>>

\* The worker is lost or Redis fails: rows are rolled back, keys stay.
Dies(t) ==
    /\ pc[t] \notin Answered \cup {"idle", "saved"}
    /\ Goto(t, "failed")
    /\ acquired' = [r \in Requests |-> IF r = t THEN {} ELSE acquired[r]]
    /\ FreeRows(t)
    /\ UNCHANGED <<want, redis, event_seats>>

Advance(r) ==
    \/ SetKey(r) \/ KeyTaken(r) \/ Unlocked(r)
    \/ \E s \in Seats : DeleteKey(r, s) \/ AskRow(r, s)
    \/ GetRow(r) \/ SeatsFree(r) \/ SeatTaken(r) \/ Commit(r)

AdvanceWriter(w) ==
    \/ \E s \in Seats : AskRow(w, s)
    \/ GetRow(w) \/ SeatsDrawn(w) \/ WriterDone(w)

Next ==
    \/ \E r \in Requests : Advance(r)
    \/ \E w \in Writers : BeginHall(w) \/ BeginRows(w) \/ AdvanceWriter(w)
    \/ \E t \in Tasks : DeadlockVictim(t) \/ Dies(t)
    \/ \E s \in Seats : KeyExpires(s)

Spec == Init /\ [][Next]_vars

(***************************************************************************)
(* Fairness: a transaction that can go on does, the database resolves      *)
(* every deadlock and Redis expires keys.                                  *)
(***************************************************************************)
Fairness ==
    /\ \A r \in Requests : WF_vars(Advance(r))
    /\ \A w \in Writers : WF_vars(AdvanceWriter(w))
    /\ \A t \in Tasks : WF_vars(DeadlockVictim(t))
    /\ \A s \in Seats : WF_vars(KeyExpires(s))

FairSpec == Spec /\ Fairness

----------------------------------------------------------------------------
\* Every variable has its type.
TypeOK ==
    /\ want \in [Requests -> (SUBSET Seats) \ {{}}]
    /\ pc \in [Tasks -> Steps \cup WriterSteps]
    /\ redis \in [Seats -> Requests \cup {Nobody}]
    /\ acquired \in [Requests -> SUBSET Seats]
    /\ row_lock \in [Seats -> Tasks \cup {Nobody}]
    /\ seat_lock \in [Seats -> Tasks \cup {Nobody}]
    /\ asks \in [Tasks -> Seats \cup {NoSeat}]
    /\ event_seats \in [Seats -> {"available", "reserved"}]

\* The row locks alone make the test and the write of a request one step:
\* however keys expire and requests die, seats are taken as in SeatOwnership.
\* (select_for_update in reserve_seats)
GivenSeats   == [r \in Requests |-> IF pc[r] = "reserved" THEN want[r] ELSE {}]
RequestPhase == [r \in Requests |-> IF pc[r] = "reserved" THEN "holding" ELSE "new"]

Ownership == INSTANCE SeatOwnership WITH
    Keys <- Requests, claim <- GivenSeats, phase <- RequestPhase

ReservesAtomically == Ownership!Spec

\* A row is reserved exactly if a request that was answered so wanted it, and
\* between its test and its commit a request finds its rows unchanged.
TestStillTrue ==
    /\ \A s \in Seats : event_seats[s] = "reserved" <=>
            \E r \in Requests : pc[r] = "reserved" /\ s \in want[r]
    /\ \A r \in Requests : pc[r] = "writing" => AllAvailable(r)

\* "release deletes the key only if the token matches": no request removes
\* the key of another.  (MultiRedisLock.release)
OnlyOwnKeys ==
    [][\A r \in Requests, s \in Seats :
            acquired'[r] # acquired[r] /\ redis[s] \notin {r, Nobody}
                => redis'[s] = redis[s]]_vars

\* Every request is answered and every other transaction ends: keys are never
\* waited for, and a deadlock on rows of either table fails one of its members.
AllAnswered ==
    /\ \A r \in Requests : <>(pc[r] \in Answered)
    /\ \A w \in Writers : pc[w] \in {"seats", "statuses"} ~> pc[w] \in {"saved", "failed"}

\* "if the process crashes mid-flight the lock expires automatically"
KeysComeFree == \A s \in Seats : redis[s] # Nobody ~> redis[s] = Nobody
=============================================================================
