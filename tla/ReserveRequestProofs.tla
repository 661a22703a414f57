------------------------ MODULE ReserveRequestProofs ------------------------
(***************************************************************************)
(* Why SeatBooking may take reserve_seats for one step: whatever happens   *)
(* to the Redis keys, the row locks make the test and the write of every   *)
(* request a single step of SeatOwnership.                                 *)
(***************************************************************************)
EXTENDS ReserveRequest, WellFoundedInduction, TLAPS

\* As much typing as the argument needs.
Typing ==
    /\ want \in [Requests -> (SUBSET Seats) \ {{}}]
    /\ pc \in [Tasks -> Steps \cup WriterSteps]
    /\ row_lock \in [Seats -> Tasks \cup {Nobody}]
    /\ seat_lock \in [Seats -> Tasks \cup {Nobody}]
    /\ asks \in [Tasks -> Seats \cup {NoSeat}]
    /\ event_seats \in [Seats -> {"available", "reserved"}]

\* Between test and commit a request has all its rows.
WriterHasRows ==
    \A r \in Requests : pc[r] = "writing" => \A s \in want[r] : row_lock[s] = r

\* Only a transaction that is locking rows waits for one.
AskersLock == \A t \in Tasks : asks[t] # NoSeat => WantsSeat(t) \/ WantsRow(t)

\* Requests and writers are in steps of their own.
OwnSteps ==
    /\ \A r \in Requests : pc[r] \in Steps
    /\ \A w \in Writers : pc[w] \in WriterSteps

Inv == Typing /\ WriterHasRows /\ AskersLock /\ OwnSteps /\ TestStillTrue

LEMMA InitInv == Init => Inv
BY WriterAssumption
   DEF Init, Inv, Typing, Steps, WriterSteps, Tasks, WriterHasRows, AskersLock, OwnSteps,
       TestStillTrue, AllAvailable, Answered

\* A step in which no request commits or begins to write, and none that is
\* writing loses a row.
Quiet ==
    /\ UNCHANGED <<want, event_seats>>
    /\ \A r \in Requests :
        /\ pc'[r] = "reserved" <=> pc[r] = "reserved"
        /\ pc'[r] = "writing" =>
            /\ pc[r] = "writing"
            /\ \A s \in Seats : row_lock[s] = r => row_lock'[s] = r

Typed == Typing /\ AskersLock /\ OwnSteps

LEMMA QuietStep ==
  ASSUME Inv, Typed', Quiet
  PROVE  Inv'
<1>1. WriterHasRows'
  BY DEF Inv, Quiet, WriterHasRows, Typing
<1>2. TestStillTrue'
  BY DEF Inv, Quiet, TestStillTrue, AllAvailable
<1> QED
  BY <1>1, <1>2 DEF Inv, Typed

\* Steps of requests and of other transactions alike.
LEMMA TaskStep ==
  ASSUME Inv, NEW t \in Tasks,
         (\E s \in Seats : AskRow(t, s)) \/ GetRow(t) \/ DeadlockVictim(t) \/ Dies(t)
  PROVE  Typed' /\ Quiet
<1> USE WriterAssumption
    DEF Inv, Typed, Tasks, Goto, Steps, WriterSteps, Answered, WantsSeat, WantsRow
<1>1. ASSUME NEW s \in Seats, AskRow(t, s) PROVE Typed' /\ Quiet
  BY <1>1 DEF AskRow, Quiet, Typing, AskersLock, OwnSteps, redisVars
<1>2. CASE GetRow(t)
  <2>1. UNCHANGED <<want, pc, event_seats>> /\ asks[t] \in Seats
    BY <1>2 DEF GetRow, Typing
  <2>2. \A s \in Seats : row_lock'[s] = row_lock[s] \/ row_lock[s] = Nobody
    BY <1>2 DEF GetRow, LockFor, Typing
  <2>3. /\ row_lock' \in [Seats -> Tasks \cup {Nobody}]
        /\ seat_lock' \in [Seats -> Tasks \cup {Nobody}]
    BY <1>2, <2>1 DEF GetRow, Typing
  <2>4. asks' = [asks EXCEPT ![t] = NoSeat]
    BY <1>2 DEF GetRow
  <2>5. Typed'
    BY <2>1, <2>3, <2>4 DEF Typing, AskersLock, OwnSteps
  <2>6. Quiet
    BY <2>1, <2>2, RequestAssumption DEF Quiet
  <2> QED
    BY <2>5, <2>6
<1>3. CASE DeadlockVictim(t) \/ Dies(t)
  <2>1. pc[t] \notin Answered
    BY <1>3 DEF DeadlockVictim, Deadlocked, Dies, AskersLock, LockFor
  <2>2. /\ pc' = [pc EXCEPT ![t] = "failed"]
        /\ UNCHANGED <<want, event_seats>>
        /\ FreeRows(t)
    BY <1>3 DEF DeadlockVictim, Dies, redisVars
  <2>3. Typing' /\ AskersLock'
    BY <2>2 DEF FreeRows, Typing, AskersLock
  <2>4. OwnSteps'
    BY <2>2, WriterAssumption DEF OwnSteps, Typing, Tasks
  <2>5. Quiet
    BY <2>1, <2>2 DEF Quiet, FreeRows, Typing, Tasks
  <2> QED
    BY <2>3, <2>4, <2>5
<1> QED
  BY <1>1, <1>2, <1>3

\* One step of one request preserves the invariant.
LEMMA RequestStep ==
  ASSUME Inv, NEW r \in Requests, Advance(r)
  PROVE  Inv'
<1> r \in Tasks
  BY DEF Tasks
<1> USE WriterAssumption DEF Inv, Typed, Tasks, Goto, Steps, Answered, WantsSeat, WantsRow
<1>1. CASE SetKey(r) \/ KeyTaken(r) \/ Unlocked(r) \/ \E s \in Seats : DeleteKey(r, s)
  <2>1. /\ UNCHANGED <<want, event_seats, row_lock, seat_lock, asks>>
        /\ \E step \in {"locking", "unlocking", "backing off", "rows", "refused"} :
                pc' = [pc EXCEPT ![r] = step]
        /\ pc[r] \in {"locking", "unlocking", "backing off"}
    BY <1>1 DEF SetKey, KeyTaken, Unlocked, DeleteKey, rowVars, redisVars, Typing
  <2>2. Typed'
    BY <2>1, WriterAssumption DEF Typing, AskersLock, OwnSteps
  <2>3. Quiet
    BY <2>1 DEF Quiet, Typing
  <2> QED
    BY <2>2, <2>3, QuietStep
<1>2. CASE (\E s \in Seats : AskRow(r, s)) \/ GetRow(r)
  BY <1>2, TaskStep, QuietStep
<1>3. CASE SeatsFree(r)
  <2>1. /\ pc[r] = "rows" /\ asks[r] = NoSeat /\ pc' = [pc EXCEPT ![r] = "writing"]
        /\ AllAvailable(r) /\ \A s \in want[r] : row_lock[s] = r
        /\ UNCHANGED <<want, rowVars, event_seats>>
    BY <1>3 DEF SeatsFree, RowsLocked
  <2>2. Typing' /\ WriterHasRows' /\ AskersLock' /\ OwnSteps'
    BY <2>1, WriterAssumption DEF Typing, WriterHasRows, AskersLock, OwnSteps, rowVars
  <2>3. TestStillTrue'
    BY <2>1 DEF Typing, TestStillTrue, AllAvailable
  <2> QED
    BY <2>2, <2>3
<1>4. CASE SeatTaken(r)
  <2>1. /\ pc[r] = "rows" /\ pc' = [pc EXCEPT ![r] = "refused"]
        /\ UNCHANGED <<want, event_seats>> /\ FreeRows(r)
    BY <1>4 DEF SeatTaken, RowsLocked
  <2>2. Typed'
    BY <2>1, WriterAssumption DEF FreeRows, Typing, AskersLock, OwnSteps
  <2>3. Quiet
    BY <2>1 DEF Quiet, FreeRows, Typing
  <2> QED
    BY <2>2, <2>3, QuietStep
<1>5. CASE Commit(r)
  <2>1. /\ pc[r] = "writing" /\ want' = want
        /\ pc' = [pc EXCEPT ![r] = "reserved"]
        /\ event_seats' = [s \in Seats |-> IF s \in want[r] THEN "reserved" ELSE event_seats[s]]
        /\ FreeRows(r)
    BY <1>5 DEF Commit, Held, redisVars
  <2>2. Typing' /\ AskersLock' /\ OwnSteps'
    BY <2>1, WriterAssumption DEF FreeRows, Typing, AskersLock, OwnSteps
  <2>3. \A s \in want[r] : row_lock[s] = r
    BY <2>1 DEF WriterHasRows
  <2>4. \A q \in Requests : q # r /\ pc[q] = "writing" => want[q] \cap want[r] = {}
    BY <2>3 DEF WriterHasRows, Typing
  <2>5. WriterHasRows'
    BY <2>1 DEF FreeRows, WriterHasRows, Typing
  <2>6. TestStillTrue'
    BY <2>1, <2>4 DEF TestStillTrue, AllAvailable, Typing
  <2> QED
    BY <2>2, <2>5, <2>6
<1> QED
  BY <1>1, <1>2, <1>3, <1>4, <1>5 DEF Advance

WriterAdvances(w) == BeginHall(w) \/ BeginRows(w) \/ AdvanceWriter(w)

\* So does one step of another transaction, which is quiet.
LEMMA WriterStep ==
  ASSUME Inv, NEW w \in Writers, WriterAdvances(w)
  PROVE  Typed' /\ Quiet
<1> w \in Tasks
  BY DEF Tasks
<1> USE WriterAssumption
    DEF Inv, Typed, Tasks, Goto, Steps, WriterSteps, Answered, WantsSeat, WantsRow
<1>1. CASE (\E s \in Seats : AskRow(w, s)) \/ GetRow(w)
  BY <1>1, TaskStep
<1>2. CASE BeginHall(w) \/ BeginRows(w) \/ SeatsDrawn(w)
  <2>1. /\ UNCHANGED <<want, event_seats, row_lock, seat_lock, asks>>
        /\ \E step \in {"seats", "statuses"} : pc' = [pc EXCEPT ![w] = step]
    BY <1>2 DEF BeginHall, BeginRows, SeatsDrawn, rowVars, redisVars
  <2>2. asks[w] = NoSeat \/ pc[w] = "seats"
    BY <1>2 DEF BeginHall, BeginRows, SeatsDrawn, AskersLock
  <2>3. Typing' /\ AskersLock'
    BY <2>1, <2>2 DEF Typing, AskersLock
  <2>4. OwnSteps' /\ Quiet
    BY <2>1 DEF Typing, OwnSteps, Quiet
  <2> QED
    BY <2>3, <2>4
<1>3. CASE WriterDone(w)
  <2>1. /\ UNCHANGED <<want, event_seats>> /\ FreeRows(w)
        /\ pc' = [pc EXCEPT ![w] = "saved"]
    BY <1>3 DEF WriterDone
  <2>2. Typed'
    BY <2>1 DEF FreeRows, Typing, AskersLock, OwnSteps
  <2>3. Quiet
    BY <2>1 DEF Quiet, FreeRows, Typing
  <2> QED
    BY <2>2, <2>3
<1> QED
  BY <1>1, <1>2, <1>3 DEF WriterAdvances, AdvanceWriter

LEMMA NextInv == ASSUME Inv, [Next]_vars PROVE Inv'
<1>1. CASE UNCHANGED <<want, pc, rowVars, event_seats>>
  BY <1>1 DEF Inv, Typing, WriterHasRows, AskersLock, OwnSteps, WantsSeat, WantsRow,
     TestStillTrue, AllAvailable, rowVars
<1>2. CASE \E t \in Tasks : DeadlockVictim(t) \/ Dies(t)
  BY <1>2, TaskStep, QuietStep
<1>3. CASE \E w \in Writers : WriterAdvances(w)
  BY <1>3, WriterStep, QuietStep
<1> QED
  BY <1>1, <1>2, <1>3, RequestStep DEF Next, KeyExpires, vars, WriterAdvances

\* Between its test and its commit a request has all its rows, and only one that
\* is locking rows waits.  (select_for_update in reserve_seats)
THEOREM Invariance == Spec => []Inv
BY InitInv, NextInv, PTL DEF Spec

\* What a request has tested is still true when it writes.
THEOREM TestStaysTrue == Spec => []TestStillTrue
BY Invariance, PTL DEF Inv

----------------------------------------------------------------------------
\* Commit takes the seats of SeatOwnership, every other step takes nothing.
LEMMA OwnershipStep ==
  ASSUME Inv, [Next]_vars PROVE [Ownership!Next]_Ownership!vars
<1>1. ASSUME NEW r \in Requests, NEW S \in SUBSET Seats, Commit(r), S = want[r]
      PROVE  Ownership!Take(r, S)
  <2>1. /\ pc[r] = "writing" /\ want' = want
        /\ pc' = [pc EXCEPT ![r] = "reserved"]
    BY <1>1 DEF Commit, Goto, redisVars
  <2>2. S = want[r] /\ S # {}
    BY <1>1 DEF Inv, Typing
  <2>3. \A q \in Requests : GivenSeats[q] \cap S = {}
    BY <2>1, <2>2 DEF GivenSeats, Inv, TestStillTrue, AllAvailable
  <2>4. /\ GivenSeats' = [GivenSeats EXCEPT ![r] = S]
        /\ RequestPhase' = [RequestPhase EXCEPT ![r] = "holding"]
    BY <2>1, <2>2 DEF GivenSeats, RequestPhase, Inv, Typing, Tasks
  <2>5. RequestPhase[r] = "new"
    BY <2>1 DEF RequestPhase
  <2> QED
    BY <2>2, <2>3, <2>4, <2>5 DEF Ownership!Take
<1>2. ASSUME UNCHANGED want,
             \A r \in Requests : pc'[r] = "reserved" <=> pc[r] = "reserved"
      PROVE  UNCHANGED Ownership!vars
  BY <1>2 DEF Ownership!vars, GivenSeats, RequestPhase
<1>3. ASSUME NEW r \in Requests, Advance(r), ~Commit(r)
      PROVE  /\ UNCHANGED want
             /\ \A q \in Requests : pc'[q] = "reserved" <=> pc[q] = "reserved"
  BY <1>3 DEF Inv, Typing, Tasks, Advance, SetKey, KeyTaken, Unlocked, DeleteKey, AskRow, GetRow,
     SeatsFree, SeatTaken, RowsLocked, AskersLock, WantsSeat, WantsRow, Goto, redisVars,
     rowVars
<1>4. CASE \E r \in Requests : Commit(r)
  <2>1. PICK r \in Requests : Commit(r)
    BY <1>4
  <2>2. PICK S \in SUBSET Seats : S = want[r]
    BY DEF Inv, Typing
  <2>3. Ownership!Take(r, S)
    BY <2>1, <2>2, <1>1
  <2>4. Ownership!Next
    BY <2>3 DEF Ownership!Next
  <2> QED
    BY <2>4
<1>5. CASE \E r \in Requests : Advance(r) /\ ~Commit(r)
  BY <1>2, <1>3, <1>5
<1>6. CASE UNCHANGED <<want, pc>>
  BY <1>6, <1>2
<1>7. CASE \/ \E t \in Tasks : DeadlockVictim(t) \/ Dies(t)
           \/ \E w \in Writers : WriterAdvances(w)
  <2>1. Quiet
    BY <1>7, TaskStep, WriterStep
  <2> QED
    BY <2>1, <1>2 DEF Quiet
<1> QED
  BY <1>4, <1>5, <1>6, <1>7 DEF Next, KeyExpires, vars, WriterAdvances

LEMMA OwnershipInit == Init => Ownership!Init
BY DEF Init, Ownership!Init, GivenSeats, RequestPhase, Tasks

\* Row locks make reserve_seats one step, however Redis keys expire, requests
\* die or deadlock: it implements SeatOwnership.
THEOREM Implementation == Spec => ReservesAtomically
BY OwnershipInit, OwnershipStep, Invariance, PTL
   DEF Spec, ReservesAtomically, Ownership!Spec

\* What SeatOwnership is proved to keep, for the requests that implement it.
Promise == INSTANCE SeatOwnershipProofs WITH
    Keys <- Requests, claim <- GivenSeats, phase <- RequestPhase

\* No two requests that were answered with a reservation got a common seat,
\* whether or not the Redis keys did their part.
THEOREM NoSeatReservedTwice == Spec => []Ownership!Exclusive
<1>1. Ownership!Spec => []Ownership!Exclusive
  <2>1. Ownership!Spec => [](Ownership!TypeOK /\ Ownership!Exclusive)
    BY Promise!OwnershipKept
       DEF Ownership!Spec, Ownership!Init, Ownership!Next, Ownership!Take, Ownership!Pay,
           Ownership!GiveUp, Ownership!vars, Ownership!TypeOK, Ownership!Exclusive,
           Promise!Spec, Promise!Init, Promise!Next, Promise!Take, Promise!Pay,
           Promise!GiveUp, Promise!vars, Promise!TypeOK, Promise!Exclusive
  <2> QED
    BY <2>1, PTL
<1> QED
  BY <1>1, Implementation, PTL DEF ReservesAtomically

----------------------------------------------------------------------------
\* The least element that NextKey and DeleteKey choose exists.
LEMMA LeastSeat ==
  ASSUME NEW S \in SUBSET Seats, S # {}
  PROVE  Min(S) \in S
<1>1. S \subseteq Nat
  BY SeatAssumption
<1> DEFINE Less == {p \in Nat \X Nat : p[1] < p[2]}
<1>2. OpToRel(<, Nat) = Less
  BY DEF OpToRel
<1>3. PICK x \in S : \A y \in S : <<y, x>> \notin Less
  <2>1. IsWellFoundedOn(Less, Nat)
    BY <1>2, NatLessThanWellFounded
  <2> HIDE DEF Less
  <2> QED
    BY <1>1, <2>1, WFMin
<1>4. ASSUME NEW y \in S PROVE x <= y
  <2>1. x \in Nat /\ y \in Nat /\ ~(y < x)
    BY <1>1, <1>3
  <2> QED
    BY <2>1
<1> QED
  BY <1>4 DEF Min

\* What a request has acquired are keys it wants, and while it is locking one
\* of them is still missing.
KeysOfRequests ==
    /\ redis \in [Seats -> Requests \cup {Nobody}]
    /\ acquired \in [Requests -> SUBSET Seats]
    /\ \A r \in Requests :
        /\ acquired[r] \subseteq want[r]
        /\ pc[r] = "locking" => acquired[r] # want[r]

LEMMA NextKeyMissing ==
  ASSUME Typing, KeysOfRequests, NEW r \in Requests, pc[r] = "locking"
  PROVE  NextKey(r) \in want[r] \ acquired[r]
<1>1. want[r] \ acquired[r] \in SUBSET Seats /\ want[r] \ acquired[r] # {}
  BY DEF Typing, KeysOfRequests
<1> QED
  BY <1>1, LeastSeat DEF NextKey

LEMMA KeysStep ==
  ASSUME Inv, KeysOfRequests, [Next]_vars
  PROVE  KeysOfRequests'
<1> USE DEF Goto, rowVars
<1>1. ASSUME NEW r \in Requests, SetKey(r)
      PROVE  KeysOfRequests'
  <2>1. NextKey(r) \in want[r] \ acquired[r]
    BY <1>1, NextKeyMissing DEF SetKey, Inv
  <2> DEFINE a == acquired[r] \cup {NextKey(r)}
  <2>2. acquired' = [acquired EXCEPT ![r] = a] /\ a \subseteq want[r]
    BY <1>1, <2>1 DEF SetKey, KeysOfRequests
  <2>3. pc' = [pc EXCEPT ![r] = IF a = want[r] THEN "unlocking" ELSE "locking"]
    BY <1>1, <2>2 DEF SetKey, KeysOfRequests
  <2>4. redis' = [redis EXCEPT ![NextKey(r)] = r] /\ want' = want
    BY <1>1 DEF SetKey
  <2>5. a \in SUBSET Seats
    BY <2>2 DEF Inv, Typing
  <2> HIDE DEF a
  <2> QED
    BY <2>2, <2>3, <2>4, <2>5 DEF KeysOfRequests, Inv, Typing, Tasks
<1>2. ASSUME NEW r \in Requests, KeyTaken(r) \/ Unlocked(r) \/ SeatsFree(r)
                                 \/ SeatTaken(r) \/ Commit(r)
      PROVE  KeysOfRequests'
  BY <1>2 DEF KeyTaken, Unlocked, SeatsFree, SeatTaken, Commit, KeysOfRequests, Inv, Typing,
     Tasks, redisVars
<1>3. ASSUME NEW r \in Requests, NEW s \in Seats, DeleteKey(r, s)
      PROVE  KeysOfRequests'
  BY <1>3 DEF DeleteKey, DeleteIfOwn, KeysOfRequests, Inv, Typing, redisVars
<1>4. ASSUME NEW t \in Tasks, (\E s \in Seats : AskRow(t, s)) \/ GetRow(t)
                              \/ DeadlockVictim(t) \/ Dies(t)
      PROVE  KeysOfRequests'
  BY <1>4 DEF AskRow, GetRow, DeadlockVictim, Dies, KeysOfRequests, Inv, Typing, Tasks,
     redisVars
<1>5. ASSUME NEW s \in Seats, KeyExpires(s)
      PROVE  KeysOfRequests'
  BY <1>5 DEF KeyExpires, KeysOfRequests
<1>6. CASE UNCHANGED vars
  BY <1>6 DEF KeysOfRequests, vars, redisVars
<1>7. ASSUME NEW w \in Writers, BeginHall(w) \/ BeginRows(w) \/ SeatsDrawn(w) \/ WriterDone(w)
      PROVE  KeysOfRequests'
  BY <1>7, WriterAssumption
     DEF BeginHall, BeginRows, SeatsDrawn, WriterDone, KeysOfRequests, Inv, Typing, Tasks,
         redisVars
<1> QED
  BY <1>1, <1>2, <1>3, <1>4, <1>5, <1>6, <1>7 DEF Next, Advance, AdvanceWriter, Tasks

LEMMA KeysInit == Init => KeysOfRequests
BY DEF Init, KeysOfRequests

\* Every variable keeps its type: in particular a request only ever locks
\* and releases keys of seats it asked for.
THEOREM TypeCorrect == Spec => []TypeOK
<1>1. Inv /\ KeysOfRequests => TypeOK
  BY DEF Inv, Typing, KeysOfRequests, TypeOK
<1> QED
  BY <1>1, InitInv, NextInv, KeysInit, KeysStep, PTL DEF Spec

\* A request that gives keys back, or takes one, leaves alone a key that
\* has meanwhile become another's.  (the Lua script of release)
THEOREM ForeignKeysStay == Spec => OnlyOwnKeys
<1> DEFINE A == \A r \in Requests, s \in Seats :
                    acquired'[r] # acquired[r] /\ redis[s] \notin {r, Nobody}
                        => redis'[s] = redis[s]
<1>1. ASSUME KeysOfRequests, [Next]_vars PROVE [A]_vars
  <2>1. ASSUME NEW q \in Requests, SetKey(q) PROVE A
    <3>1. redis[NextKey(q)] = Nobody /\ redis' = [redis EXCEPT ![NextKey(q)] = q]
      BY <2>1 DEF SetKey
    <3>2. \E a : acquired' = [acquired EXCEPT ![q] = a]
      BY <2>1 DEF SetKey
    <3> QED
      BY <3>1, <3>2 DEF KeysOfRequests
  <2>2. ASSUME NEW q \in Requests, NEW s \in Seats, DeleteKey(q, s) PROVE A
    <3>1. redis' = DeleteIfOwn(q, s)
      BY <2>2 DEF DeleteKey
    <3>2. acquired' = [acquired EXCEPT ![q] = @ \ {s}]
      BY <2>2 DEF DeleteKey
    <3> QED
      BY <3>1, <3>2 DEF DeleteIfOwn, KeysOfRequests
  <2>3. CASE redis' = redis \/ acquired' = acquired
    BY <2>3
  <2>4. CASE Next
    <3>1. ASSUME NEW q \in Requests, Advance(q) PROVE A
      BY <2>1, <2>2, <2>3, <3>1
         DEF Advance, KeyTaken, Unlocked, AskRow, GetRow, SeatsFree, SeatTaken, Commit,
             redisVars
    <3>2. ASSUME NEW w \in Writers, WriterAdvances(w) PROVE A
      BY <2>3, <3>2
         DEF WriterAdvances, BeginHall, BeginRows, AdvanceWriter, AskRow, GetRow, SeatsDrawn,
             WriterDone, redisVars
    <3>3. ASSUME NEW t \in Tasks, DeadlockVictim(t) \/ Dies(t) PROVE A
      BY <2>3, <3>3 DEF DeadlockVictim, Dies, redisVars
    <3>4. ASSUME NEW s \in Seats, KeyExpires(s) PROVE A
      BY <2>3, <3>4 DEF KeyExpires
    <3> QED
      BY <2>4, <3>1, <3>2, <3>3, <3>4 DEF Next, WriterAdvances
  <2> HIDE DEF A
  <2> QED
    BY <1>1, <2>4
<1> QED
  BY <1>1, InitInv, NextInv, KeysInit, KeysStep, PTL DEF Spec, OnlyOwnKeys

=============================================================================
