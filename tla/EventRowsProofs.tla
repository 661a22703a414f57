--------------------------- MODULE EventRowsProofs ---------------------------
(***************************************************************************)
(* Proofs about EventRows for any seats, events and requests.              *)
(***************************************************************************)
EXTENDS EventRows, TLAPS

\* A synchronisation that works from the seats as they are has read every
\* seat, and has come to, or will come to, each one without a row.
JobsCurrent ==
    \A c \in Clerks : Under(c) /\ job[c].read /\ Current(job[c]) =>
        /\ Live \subseteq job[c].all
        /\ \A s \in Sellable(kind) :
              s \in job[c].todo \cup job[c].made \/ event_seat[job[c].event][s] # "none"

\* So has the save of the hall, for the events it has listed and nobody has
\* moved or synchronised otherwise since.
SaveCurrent ==
    saving # Nothing =>
        \A e \in saving.listed \ saving.late, s \in Sellable(saving.kind) :
            <<e, s>> \in saving.todo \cup saving.made \/ event_seat[e][s] # "none"

Inv == TypeOK /\ SellableHaveRows /\ JobsCurrent /\ SaveCurrent

\* RowsStay without its box.
Stays ==
    \A e \in Events, s \in Live \cap Live' :
        event_seat[e][s] # "none" /\ event_seat'[e][s] = "none" =>
            /\ event_seat[e][s] = "available"
            /\ e \notin Hosted' \ missed'

LEMMA InitInv == Init => Inv
  BY DEF Init, Inv, TypeOK, Kinds, Halls, Status, SellableHaveRows, Hosted, Sellable,
         JobsCurrent, SaveCurrent, Under

\* No seat changes and no row disappears.
LEMMA SeatsAsTheyWere ==
  ASSUME Inv, kind' = kind, \A e \in Events, s \in Ids :
            event_seat[e][s] # "none" => event_seat'[e][s] # "none"
  PROVE  /\ Live' = Live /\ Sellable(kind)' = Sellable(kind)
         /\ Stays
         /\ Hosted' \ missed' \subseteq Hosted \ missed => SellableHaveRows'
  BY DEF Inv, Live, Sellable, Stays, SellableHaveRows, Hosted

----------------------------------------------------------------------------
\* Steps of the hall's save but its commit.
LEMMA SavingStep ==
  ASSUME Inv,
         \/ \E k \in Redrawn : SaveHall(k)
         \/ \E e \in Events, s \in Ids : SaveRow(e, s)
         \/ FailHall
  PROVE  Inv' /\ Stays
<1>1. UNCHANGED <<kind, hall, event_seat, job, missed>>
  BY DEF SaveHall, SaveRow, FailHall
<1>2. TypeOK
  BY DEF Inv
<1>3. saving' \in Saving \cup {Nothing} /\ SaveCurrent'
  <2>1. ASSUME NEW k \in Redrawn, SaveHall(k)
        PROVE  saving' \in Saving \cup {Nothing} /\ SaveCurrent'
    <3>1. saving' = [kind |-> k, listed |-> Hosted, late |-> {},
                     todo |-> Hosted \X Sellable(k), made |-> {}]
      BY <2>1 DEF SaveHall, RowsOfListed
    <3>2. k \in [Ids -> Kinds] /\ Hosted \subseteq Events /\ Sellable(k) \subseteq Ids
      BY DEF Redrawn, Hosted, Sellable
    <3> QED
      BY <3>1, <3>2 DEF Saving, SaveCurrent
  <2>2. ASSUME NEW e \in Events, NEW s \in Ids, SaveRow(e, s)
        PROVE  saving' \in Saving \cup {Nothing} /\ SaveCurrent'
    <3>1. /\ saving \in Saving
          /\ \/ /\ event_seat[e][s] # "none"
                /\ saving' = [saving EXCEPT !.todo = @ \ {<<e, s>>}]
             \/ saving' = [saving EXCEPT !.todo = @ \ {<<e, s>>}, !.made = @ \cup {<<e, s>>}]
      BY <1>2, <2>2 DEF SaveRow, TypeOK
    <3>2. saving' \in Saving
      <4>1. <<e, s>> \in Events \X Ids
        OBVIOUS
      <4>2. CASE saving' = [saving EXCEPT !.todo = @ \ {<<e, s>>}]
        BY <3>1, <4>2 DEF Saving
      <4>3. CASE saving' = [saving EXCEPT !.todo = @ \ {<<e, s>>}, !.made = @ \cup {<<e, s>>}]
        BY <3>1, <4>1, <4>3 DEF Saving
      <4> QED
        BY <3>1, <4>2, <4>3
    <3>3. /\ saving'.kind = saving.kind /\ saving'.listed = saving.listed
          /\ saving'.late = saving.late
          /\ saving'.todo = saving.todo \ {<<e, s>>}
          /\ saving.made \subseteq saving'.made
          /\ event_seat[e][s] # "none" \/ <<e, s>> \in saving'.made
      BY <3>1 DEF Saving
    <3>4. \A x \in saving.listed : x \in Events
      BY <3>1 DEF Saving
    <3>5. ASSUME NEW x \in saving.listed \ saving.late, NEW t \in Sellable(saving.kind)
          PROVE  <<x, t>> \in saving'.todo \cup saving'.made \/ event_seat[x][t] # "none"
      <4>1. <<x, t>> \in saving.todo \cup saving.made \/ event_seat[x][t] # "none"
        BY <2>2, <3>5 DEF Inv, SaveCurrent, SaveRow
      <4> QED
        BY <3>3, <4>1
    <3> QED
      BY <1>1, <3>2, <3>3, <3>5 DEF SaveCurrent
  <2>3. CASE FailHall
    BY <2>3 DEF FailHall, SaveCurrent
  <2> QED
    BY <2>1, <2>2, <2>3
<1>4. TypeOK'
  BY <1>1, <1>2, <1>3 DEF TypeOK, Live
<1>5. SellableHaveRows' /\ Stays
  BY <1>1, SeatsAsTheyWere DEF Hosted
<1>6. JobsCurrent'
  BY <1>1 DEF Inv, JobsCurrent, Under, Current, Live, Sellable
<1> QED
  BY <1>3, <1>4, <1>5, <1>6 DEF Inv

\* The commit of a save: its events have their rows, others are missed.
LEMMA CommitHallStep ==
  ASSUME Inv, CommitHall
  PROVE  Inv' /\ Stays
<1>1. TypeOK /\ saving \in Saving /\ saving.todo = {}
  BY DEF Inv, TypeOK, CommitHall
<1>2. /\ kind' = saving.kind /\ saving' = Nothing /\ hall' = hall
      /\ missed' = (missed \ saving.listed) \cup (Hosted \ saving.listed) \cup saving.late
  BY DEF CommitHall
<1>3. \A e \in Events, s \in Ids : event_seat'[e][s] =
        IF s \notin Live' THEN "none"
        ELSE IF <<e, s>> \in saving.made THEN "available" ELSE event_seat[e][s]
  BY <1>2 DEF CommitHall, RowsOfSeats, Live
<1>4. \A c \in Clerks : job'[c] =
        IF Under(c) /\ job[c].read THEN [job[c] EXCEPT !.clean = FALSE] ELSE job[c]
  BY DEF CommitHall
<1>5. \A c \in Clerks : job'[c] \in Job \cup {Nothing}
  BY <1>1, <1>4 DEF TypeOK, Under, Job
<1>6. TypeOK'
  <2>1. event_seat' \in [Events -> [Ids -> Status]]
    <3>1. event_seat' = [e \in Events |-> [s \in Ids |-> event_seat'[e][s]]]
      BY DEF CommitHall, RowsOfSeats
    <3>2. \A e \in Events, s \in Ids : event_seat'[e][s] \in Status
      BY <1>1, <1>3 DEF TypeOK, Status
    <3> QED
      BY <3>1, <3>2
  <2>2. job' \in [Clerks -> Job \cup {Nothing}]
    BY <1>5 DEF CommitHall
  <2>3. kind' \in [Ids -> Kinds] /\ missed' \subseteq Events
    BY <1>1, <1>2 DEF TypeOK, Saving, Hosted
  <2> QED
    BY <1>1, <1>2, <1>3, <2>1, <2>2, <2>3 DEF TypeOK
<1>7. JobsCurrent'
  <2>1. \A c \in Clerks : job'[c] # Nothing /\ job'[c].read => ~job'[c].clean
    BY <1>1, <1>4 DEF TypeOK, Under, Job
  <2> QED
    BY <2>1 DEF JobsCurrent, Under, Current
<1>8. SellableHaveRows'
  <2>1. ASSUME NEW e \in Hosted' \ missed', NEW s \in Sellable(kind')
        PROVE  event_seat'[e][s] # "none"
    <3>1. e \in Events /\ e \in saving.listed \ saving.late
      BY <1>2, <2>1 DEF Hosted
    <3>2. s \in Sellable(saving.kind) /\ s \in Ids /\ s \in Live'
      BY <1>2, <2>1 DEF Sellable, Live
    <3>3. <<e, s>> \in saving.made \/ event_seat[e][s] # "none"
      BY <1>1, <3>1, <3>2 DEF Inv, SaveCurrent, CommitHall
    <3> QED
      BY <1>3, <3>1, <3>2, <3>3
  <2> QED
    BY <2>1 DEF SellableHaveRows
<1>9. Stays
  BY <1>3 DEF Stays, Live
<1>10. SaveCurrent'
  BY <1>2 DEF SaveCurrent
<1> QED
  BY <1>6, <1>7, <1>8, <1>9, <1>10 DEF Inv

\* A seat is deleted: one fewer to have a row.
LEMMA DeleteStep ==
  ASSUME Inv, NEW d \in Ids, DeleteSeat(d)
  PROVE  Inv' /\ Stays
<1>1. TypeOK /\ saving = Nothing
  BY DEF Inv, DeleteSeat
<1>2. /\ kind' = [kind EXCEPT ![d] = "deleted"]
      /\ UNCHANGED <<hall, saving, job, missed>>
  BY DEF DeleteSeat
<1>3. kind' \in [Ids -> Kinds] /\ Live' = Live \ {d}
  BY <1>1, <1>2 DEF TypeOK, Kinds, Live
<1>4. \A s \in Sellable(kind') : s \in Sellable(kind) /\ s \in Live'
  BY <1>1, <1>2 DEF TypeOK, Sellable, Live
<1>5. \A e \in Events, s \in Ids :
        event_seat'[e][s] = IF s \in Live' THEN event_seat[e][s] ELSE "none"
  BY DEF DeleteSeat, RowsOfSeats, Live
<1>6. TypeOK'
  <2>1. event_seat' \in [Events -> [Ids -> Status]]
    <3>1. event_seat' = [e \in Events |-> [s \in Ids |-> event_seat'[e][s]]]
      BY DEF DeleteSeat, RowsOfSeats
    <3>2. \A e \in Events, s \in Ids : event_seat'[e][s] \in Status
      BY <1>1, <1>5 DEF TypeOK, Status
    <3> QED
      BY <3>1, <3>2
  <2> QED
    BY <1>1, <1>2, <1>3, <1>5, <2>1 DEF TypeOK
<1>7. SellableHaveRows'
  <2>1. Hosted' = Hosted /\ Hosted \subseteq Events
    BY <1>2 DEF Hosted
  <2>2. \A s \in Sellable(kind') : s \in Ids
    BY DEF Sellable
  <2>3. ASSUME NEW e \in Hosted' \ missed', NEW s \in Sellable(kind')
        PROVE  event_seat'[e][s] # "none"
    BY <1>2, <1>4, <1>5, <2>1, <2>2 DEF Inv, SellableHaveRows
  <2> QED
    BY <2>3 DEF SellableHaveRows
<1>8. JobsCurrent'
  <2>1. \A c \in Clerks : Under(c) => job[c].event \in Events
    BY <1>1 DEF TypeOK, Under, Job
  <2>2. \A s \in Sellable(kind') : s \in Ids
    BY DEF Sellable
  <2>3. ASSUME NEW c \in Clerks, Under(c), job[c].read, Current(job[c])
        PROVE  /\ Live' \subseteq job[c].all
               /\ \A s \in Sellable(kind') :
                    \/ s \in job[c].todo \cup job[c].made
                    \/ event_seat'[job[c].event][s] # "none"
    BY <1>3, <1>4, <1>5, <2>1, <2>2, <2>3 DEF Inv, JobsCurrent
  <2> QED
    BY <1>2, <2>3 DEF JobsCurrent, Under, Current
<1>9. SaveCurrent' /\ Stays
  BY <1>1, <1>2, <1>5 DEF SaveCurrent, Stays, Live
<1> QED
  BY <1>6, <1>7, <1>8, <1>9 DEF Inv

----------------------------------------------------------------------------
\* A request begins, reads the seats, finds or makes a row, or fails.
LEMMA JobStep ==
  ASSUME Inv, NEW c \in Clerks,
         \/ \E e \in Events :
              ListEvent(c, e) \/ \E here \in BOOLEAN : SaveEvent(c, e, here)
         \/ ReadSeats(c) \/ FailSync(c)
         \/ \E s \in Ids : GetOrCreate(c, s)
  PROVE  Inv' /\ Stays
<1>1. TypeOK
  BY DEF Inv
<1>2. UNCHANGED <<kind, hall, event_seat, saving, missed>>
  BY DEF ListEvent, SaveEvent, Begin, ReadSeats, FailSync, GetOrCreate
<1>3. \A d \in Clerks \ {c} : job'[d] = job[d]
  BY <1>1 DEF ListEvent, SaveEvent, Begin, ReadSeats, FailSync, GetOrCreate, TypeOK
<1>4. job' = [job EXCEPT ![c] = job'[c]]
  BY <1>1 DEF ListEvent, SaveEvent, Begin, ReadSeats, FailSync, GetOrCreate, TypeOK
<1> DEFINE Covers(j) ==
      j # Nothing /\ j.read /\ Current(j) =>
        /\ Live \subseteq j.all
        /\ \A s \in Sellable(kind) : s \in j.todo \cup j.made \/ event_seat[j.event][s] # "none"
<1>5. Covers(job[c])
  BY DEF Inv, JobsCurrent, Under
<1>6. job'[c] \in Job \cup {Nothing} /\ Covers(job'[c])
  <2>1. ASSUME NEW e \in Events, NEW h \in BOOLEAN, NEW v \in BOOLEAN, Begin(c, e, h, v)
        PROVE  job'[c] \in Job /\ Covers(job'[c])
    BY <1>1, <2>1 DEF Begin, TypeOK, Job
  <2>2. CASE ReadSeats(c)
    <3>1. job[c] \in Job
      BY <1>1, <2>2 DEF ReadSeats, Under, TypeOK
    <3>2. job'[c] = [job[c] EXCEPT !.read = TRUE,
                        !.all = IF job[c].here THEN Live ELSE {},
                        !.todo = IF job[c].here THEN Sellable(kind) ELSE {}]
      BY <1>1, <2>2 DEF ReadSeats, TypeOK
    <3>3. Live \subseteq Ids /\ Sellable(kind) \subseteq Ids
      BY DEF Live, Sellable
    <3> QED
      BY <3>1, <3>2, <3>3 DEF Job, Current
  <2>3. CASE FailSync(c)
    BY <1>1, <2>3 DEF FailSync, TypeOK
  <2>4. ASSUME NEW s \in Ids, GetOrCreate(c, s)
        PROVE  job'[c] \in Job /\ Covers(job'[c])
    <3>1. job[c] \in Job
      BY <1>1, <2>4 DEF GetOrCreate, Under, TypeOK
    <3>2. \/ /\ event_seat[job[c].event][s] # "none"
             /\ job'[c] = [job[c] EXCEPT !.todo = @ \ {s}]
          \/ job'[c] = [job[c] EXCEPT !.todo = @ \ {s}, !.made = @ \cup {s}]
      BY <1>1, <2>4 DEF GetOrCreate, TypeOK
    <3>3. /\ job'[c] \in Job
          /\ job'[c].event = job[c].event /\ job'[c].read = job[c].read
          /\ Current(job'[c]) <=> Current(job[c])
          /\ job'[c].all = job[c].all
          /\ job'[c].todo = job[c].todo \ {s}
          /\ job[c].made \subseteq job'[c].made
          /\ s \in job'[c].made \/ event_seat[job[c].event][s] # "none"
      <4>1. CASE job'[c] = [job[c] EXCEPT !.todo = @ \ {s}]
                 /\ event_seat[job[c].event][s] # "none"
        BY <3>1, <4>1 DEF Job, Current
      <4>2. CASE job'[c] = [job[c] EXCEPT !.todo = @ \ {s}, !.made = @ \cup {s}]
        <5>1. job'[c] \in Job
          BY <3>1, <4>2 DEF Job
        <5>2. /\ job'[c].todo = job[c].todo \ {s} /\ job'[c].made = job[c].made \cup {s}
              /\ job'[c].event = job[c].event /\ job'[c].read = job[c].read
              /\ job'[c].all = job[c].all
              /\ job'[c].here = job[c].here /\ job'[c].clean = job[c].clean
          BY <3>1, <4>2 DEF Job
        <5> QED
          BY <5>1, <5>2 DEF Current
      <4> QED
        BY <3>2, <4>1, <4>2
    <3>4. job[c] # Nothing
      BY <2>4 DEF GetOrCreate, Under
    <3> QED
      BY <1>5, <3>3, <3>4
  <2> QED
    BY <2>1, <2>2, <2>3, <2>4 DEF ListEvent, SaveEvent
<1>7. TypeOK'
  BY <1>1, <1>2, <1>4, <1>6 DEF TypeOK, Live
<1>8. JobsCurrent'
  <2>1. \A d \in Clerks : Covers(job'[d])
    BY <1>3, <1>6 DEF Inv, JobsCurrent, Under
  <2> QED
    BY <1>2, <2>1 DEF JobsCurrent, Under, Live, Sellable
<1>9. SellableHaveRows' /\ Stays
  BY <1>2, SeatsAsTheyWere DEF Hosted
<1>10. SaveCurrent'
  BY <1>2 DEF Inv, SaveCurrent
<1> QED
  BY <1>7, <1>8, <1>9, <1>10 DEF Inv

\* A row is seeded, booked or given back, or an event leaves: no row goes.
LEMMA RowStep ==
  ASSUME Inv, NEW e \in Events,
         SaveUnseated(e) \/ \E s \in Ids : SeedRow(e, s) \/ Book(e, s)
  PROVE  Inv' /\ Stays
<1>1. TypeOK
  BY DEF Inv
<1>2. UNCHANGED <<kind, saving, job, missed>>
  BY DEF SaveUnseated, SeedRow, Book
<1>3. /\ hall' \in [Events -> Halls]
      /\ Hosted' \subseteq Hosted
  <2>1. CASE SaveUnseated(e)
    BY <1>1, <2>1 DEF SaveUnseated, TypeOK, Halls, Hosted
  <2>2. CASE hall' = hall
    BY <1>1, <2>2 DEF TypeOK, Hosted
  <2>3. SaveUnseated(e) \/ hall' = hall
    BY DEF SeedRow, Book
  <2> QED
    BY <2>1, <2>2, <2>3
<1>4. event_seat' \in [Events -> [Ids -> Status]]
  <2>1. ASSUME NEW s \in Ids, SeedRow(e, s)
        PROVE  event_seat' \in [Events -> [Ids -> Status]]
    BY <1>1, <2>1 DEF SeedRow, TypeOK, Status
  <2>2. ASSUME NEW s \in Ids, Book(e, s)
        PROVE  event_seat' \in [Events -> [Ids -> Status]]
    BY <1>1, <2>2 DEF Book, TypeOK, Status
  <2>3. CASE SaveUnseated(e)
    BY <1>1, <2>3 DEF SaveUnseated, TypeOK
  <2> QED
    BY <2>1, <2>2, <2>3
<1>5. \A x \in Events, s \in Ids :
        /\ event_seat[x][s] # "none" => event_seat'[x][s] # "none"
        /\ event_seat'[x][s] # "none" => s \in Live
  BY <1>1 DEF SaveUnseated, SeedRow, Book, TypeOK
<1>6. /\ Live' = Live /\ Sellable(kind)' = Sellable(kind)
      /\ Stays /\ SellableHaveRows'
  BY <1>2, <1>3, <1>5, SeatsAsTheyWere
<1>7. TypeOK'
  BY <1>1, <1>2, <1>3, <1>4, <1>5, <1>6 DEF TypeOK
<1>8. JobsCurrent'
  <2>1. \A c \in Clerks : Under(c) => job[c].event \in Events
    BY <1>1 DEF TypeOK, Under, Job
  <2>2. \A s \in Sellable(kind) : s \in Ids
    BY DEF Sellable
  <2>3. ASSUME NEW c \in Clerks, Under(c), job[c].read, Current(job[c])
        PROVE  /\ Live \subseteq job[c].all
               /\ \A s \in Sellable(kind) :
                    \/ s \in job[c].todo \cup job[c].made
                    \/ event_seat'[job[c].event][s] # "none"
    BY <1>5, <2>1, <2>2, <2>3 DEF Inv, JobsCurrent
  <2> QED
    BY <1>2, <2>3 DEF JobsCurrent, Under, Current, Live, Sellable
<1>9. SaveCurrent'
  <2>1. saving # Nothing => saving.listed \subseteq Events
    BY <1>1 DEF TypeOK, Saving
  <2>2. \A k : \A s \in Sellable(k) : s \in Ids
    BY DEF Sellable
  <2> QED
    BY <1>2, <1>5, <2>1, <2>2 DEF Inv, SaveCurrent
<1> QED
  BY <1>6, <1>7, <1>8, <1>9 DEF Inv

----------------------------------------------------------------------------
\* A synchronisation commits.  One that knows the seats leaves every seat a
\* row; one that does not makes its event missed, and whatever others have
\* seen of the event's rows is no longer counted on.
LEMMA CommitSyncStep ==
  ASSUME Inv, NEW c \in Clerks, CommitSync(c)
  PROVE  Inv' /\ Stays
<1>1. TypeOK /\ job[c] \in Job /\ job[c].read /\ job[c].todo = {} /\ job[c].made \subseteq Live
  BY DEF Inv, TypeOK, CommitSync, Under
<1> DEFINE e == job[c].event
<1> DEFINE good == Current(job[c])
<1>2. /\ e \in Events /\ good \in BOOLEAN /\ kind' = kind
      /\ missed' = IF good THEN missed \ {e} ELSE missed \cup {e}
  BY <1>1 DEF CommitSync, Job, Current
<1>3. \A x \in Events, s \in Ids : event_seat'[x][s] =
        IF x # e THEN event_seat[x][s]
        ELSE IF s \in job[c].made THEN "available"
        ELSE IF s \notin job[c].all /\ Removable(event_seat[e][s]) THEN "none"
        ELSE event_seat[e][s]
  BY <1>1 DEF CommitSync, TypeOK
<1>4. \A d \in Clerks : job'[d] =
        IF d = c THEN Nothing
        ELSE IF Under(d) /\ job[d].event = e /\ job[d].read /\ ~good
             THEN [job[d] EXCEPT !.clean = FALSE] ELSE job[d]
  BY DEF CommitSync
<1>5. saving' = IF saving # Nothing /\ e \in saving.listed /\ ~good
                THEN [saving EXCEPT !.late = @ \cup {e}] ELSE saving
  BY DEF CommitSync
<1>6. /\ hall' \in [Events -> Halls]
      /\ \A x \in Events : x # e => hall'[x] = hall[x]
  BY <1>1, <1>2 DEF CommitSync, TypeOK, Halls
<1>7. Live' = Live /\ Live \subseteq Ids /\ \A s \in Sellable(kind) : s \in Live
  BY <1>2 DEF Live, Sellable
<1>8. good => \A s \in Live : s \in job[c].all
  BY <1>1 DEF Inv, JobsCurrent, CommitSync
<1>9. good => \A s \in Sellable(kind) : event_seat'[e][s] # "none"
  <2>1. good => \A s \in Sellable(kind) : s \in job[c].made \/ event_seat[e][s] # "none"
    BY <1>1 DEF Inv, JobsCurrent, CommitSync
  <2> QED
    BY <1>2, <1>3, <1>7, <1>8, <2>1
\* Rows stay, but those of an event that is missed from now on.
<1>10. \A x \in Events, s \in Live :
        event_seat[x][s] # "none" /\ (x # e \/ good) => event_seat'[x][s] # "none"
  BY <1>2, <1>3, <1>7, <1>8
<1>11. \A x \in Events, s \in Ids : event_seat'[x][s] # "none" => s \in Live
  BY <1>1, <1>3 DEF TypeOK
<1>12. TypeOK'
  <2>1. event_seat' \in [Events -> [Ids -> Status]]
    BY <1>1, <1>2 DEF CommitSync, TypeOK, Status
  <2>2. job' \in [Clerks -> Job \cup {Nothing}]
    <3>1. \A d \in Clerks : job'[d] \in Job \cup {Nothing}
      BY <1>1, <1>4 DEF TypeOK, Under, Job
    <3> QED
      BY <3>1 DEF CommitSync
  <2>3. saving' \in Saving \cup {Nothing}
    BY <1>1, <1>2, <1>5 DEF TypeOK, Saving
  <2>4. missed' \subseteq Events
    BY <1>1, <1>2 DEF TypeOK
  <2> QED
    BY <1>1, <1>2, <1>6, <1>7, <1>11, <2>1, <2>2, <2>3, <2>4 DEF TypeOK
<1>13. SellableHaveRows'
  <2>1. ASSUME NEW x \in Hosted' \ missed', NEW s \in Sellable(kind)
        PROVE  event_seat'[x][s] # "none"
    <3>1. x \in Events /\ hall'[x] = "here"
      BY <2>1 DEF Hosted
    <3>2. CASE x = e
      BY <1>2, <1>9, <2>1, <3>2
    <3>3. CASE x # e
      <4>1. x \in Hosted \ missed
        BY <1>2, <1>6, <2>1, <3>1, <3>3 DEF Hosted
      <4> QED
        BY <1>7, <1>10, <2>1, <3>1, <3>3, <4>1 DEF Inv, SellableHaveRows
    <3> QED
      BY <3>2, <3>3
  <2> QED
    BY <1>2, <2>1 DEF SellableHaveRows, Sellable
<1>14. JobsCurrent'
  <2>1. ASSUME NEW d \in Clerks, job'[d] # Nothing, job'[d].read, Current(job'[d])
        PROVE  /\ Live \subseteq job'[d].all
               /\ \A s \in Sellable(kind) :
                    \/ s \in job'[d].todo \cup job'[d].made
                    \/ event_seat'[job'[d].event][s] # "none"
    <3>1. d # c
      BY <1>4, <2>1
    <3>2. job[d] # Nothing /\ job[d] \in Job
      BY <1>1, <1>4, <2>1, <3>1 DEF TypeOK, Under
    <3>3. job'[d] = job[d] /\ (job[d].event # e \/ good)
      BY <1>4, <2>1, <3>1, <3>2 DEF Under, Current, Job
    <3>4. /\ Live \subseteq job[d].all
          /\ \A s \in Sellable(kind) :
                s \in job[d].todo \cup job[d].made \/ event_seat[job[d].event][s] # "none"
      BY <2>1, <3>2, <3>3 DEF Inv, JobsCurrent, Under
    <3>5. job[d].event \in Events
      BY <3>2 DEF Job
    <3> QED
      BY <1>7, <1>10, <3>3, <3>4, <3>5
  <2> QED
    BY <1>2, <1>7, <2>1 DEF JobsCurrent, Under, Sellable
<1>15. SaveCurrent'
  <2>1. ASSUME saving # Nothing
        PROVE  /\ saving'.kind = saving.kind /\ saving'.listed = saving.listed
               /\ saving'.todo = saving.todo /\ saving'.made = saving.made
               /\ saving.late \subseteq saving'.late
               /\ e \in saving.listed /\ ~good => e \in saving'.late
               /\ saving.listed \subseteq Events
    BY <1>1, <1>5, <2>1 DEF TypeOK, Saving
  <2>2. ASSUME saving # Nothing, NEW x \in saving'.listed \ saving'.late,
               NEW s \in Sellable(saving'.kind)
        PROVE  <<x, s>> \in saving'.todo \cup saving'.made \/ event_seat'[x][s] # "none"
    <3>1. <<x, s>> \in saving.todo \cup saving.made \/ event_seat[x][s] # "none"
      BY <2>1, <2>2 DEF Inv, SaveCurrent
    <3>2. x \in Events /\ (x # e \/ good) /\ s \in Ids
      BY <2>1, <2>2 DEF Sellable
    <3>3. event_seat[x][s] # "none" => s \in Live
      BY <1>1, <3>2 DEF TypeOK
    <3>4. event_seat[x][s] # "none" => event_seat'[x][s] # "none"
      BY <1>10, <3>2, <3>3
    <3> QED
      BY <2>1, <2>2, <3>1, <3>4
  <2>3. saving = Nothing => saving' = Nothing
    BY <1>5
  <2> QED
    BY <2>2, <2>3 DEF SaveCurrent
<1>16. Stays
  BY <1>2, <1>3, <1>7, <1>10, <1>11 DEF Stays, Removable
<1> QED
  BY <1>12, <1>13, <1>14, <1>15, <1>16 DEF Inv

----------------------------------------------------------------------------
LEMMA NextInv ==
  ASSUME Inv, [Next]_vars
  PROVE  Inv' /\ (Stays \/ UNCHANGED vars)
<1>1. CASE UNCHANGED vars
  BY <1>1 DEF vars, Inv, TypeOK, SellableHaveRows, JobsCurrent, SaveCurrent, Hosted,
              Sellable, Live, Under, Current
<1>2. CASE Next
  BY <1>2, SavingStep, CommitHallStep, DeleteStep, JobStep, CommitSyncStep, RowStep DEF Next
<1> QED
  BY <1>1, <1>2

THEOREM Invariance == Spec => []Inv
<1>1. Inv /\ [Next]_vars => Inv'
  BY NextInv
<1> QED
  BY <1>1, InitInv, PTL DEF Spec

\* Type correctness, and no row without its seat.
THEOREM TypeCorrect == Spec => []TypeOK
<1>1. Inv => TypeOK
  BY DEF Inv
<1> QED
  BY <1>1, Invariance, PTL

\* Every seat for sale has its row in every event of the hall whose last
\* synchronisation knew the seats and the hall.
THEOREM RowsForSale == Spec => []SellableHaveRows
<1>1. Inv => SellableHaveRows
  BY DEF Inv
<1> QED
  BY <1>1, Invariance, PTL

\* The row of a seat that stays disappears only while it is available and
\* from an event that leaves or is missed.
THEOREM RowsAreKept == Spec => RowsStay
<1>1. Inv /\ [Next]_vars =>
        [\A e \in Events, s \in Live \cap Live' :
            event_seat[e][s] # "none" /\ event_seat'[e][s] = "none" =>
                /\ event_seat[e][s] = "available"
                /\ e \notin Hosted' \ missed']_vars
  BY NextInv DEF Stays
<1> QED
  BY <1>1, Invariance, PTL DEF Spec, RowsStay
=============================================================================
