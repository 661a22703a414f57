------------------------------ MODULE EventRows ------------------------------
(***************************************************************************)
(* The EventSeat rows of the events held in a hall, while administrators   *)
(* save the hall, save the events and synchronise them.  sync_event_seats  *)
(* reads the seats of the hall it was told, creates the rows that lack one *)
(* by one and then deletes the rows of all other seats; it locks neither   *)
(* the hall nor the event, and an event that was listed earlier may have   *)
(* moved.  The hall is the one under study; "elsewhere" is any other.      *)
(* HallLayout is about the drawing: here a seat is no more than its kind.  *)
(***************************************************************************)

CONSTANTS
    Ids,        \* bound: primary keys of seats that are ever handed out
    Events,
    Clerks,     \* requests that synchronise an event
    Nothing     \* no request, no save

VARIABLES
    kind,        \* Seat.kind, or that the row is not there yet, or no more
    hall,        \* Event.hall of the events with reserved seating
    event_seat,  \* EventSeat.status by event and seat, as committed
    saving,      \* the save of the hall under way: one, for the hall's row lock
    job,         \* the synchronisation each request is in
    missed       \* history: events last synchronised from what was no more so

vars == <<kind, hall, event_seat, saving, job, missed>>

Kinds   == {"unborn", "sellable", "blocked", "deleted"}
Halls   == {"here", "elsewhere", "none"}
Status  == {"none", "available", "taken"}
Job     == [event : Events, here : BOOLEAN, save : BOOLEAN, read : BOOLEAN,
            all : SUBSET Ids, todo : SUBSET Ids, made : SUBSET Ids, clean : BOOLEAN]
Saving  == [kind : [Ids -> Kinds], listed : SUBSET Events, late : SUBSET Events,
            todo : SUBSET (Events \X Ids), made : SUBSET (Events \X Ids)]

\* "Nothing" is a null, no record.
ASSUME NothingAssumption == Nothing \notin Job /\ Nothing \notin Saving

Sellable(k) == {s \in Ids : k[s] = "sellable"}
Live        == {s \in Ids : kind[s] \in {"sellable", "blocked"}}
Hosted      == {e \in Events : hall[e] = "here"}
Under(c)    == job[c] # Nothing

\* The synchronisation knows the seats as they are now.
Current(j) == j.here /\ j.clean

\* Rows a transaction has inserted and not committed: under the unique
\* (event, seat) another insert waits for it.
Uncommitted(e, s) ==
    \/ \E c \in Clerks : Under(c) /\ job[c].event = e /\ s \in job[c].made
    \/ saving # Nothing /\ <<e, s>> \in saving.made

Init ==
    /\ kind \in [Ids -> {"unborn", "sellable", "blocked"}]
    /\ hall = [e \in Events |-> "none"]
    /\ event_seat = [e \in Events |-> [s \in Ids |-> "none"]]
    /\ saving = Nothing
    /\ job = [c \in Clerks |-> Nothing]
    /\ missed = {}

----------------------------------------------------------------------------
\* HallAdmin.save_model up to its query of the events: every seat of the
\* hall is locked, rewritten or deleted, and the events that are here now
\* are listed.  Others see nothing of it before the commit.
Redrawn ==
    {k \in [Ids -> Kinds] : \A s \in Ids :
        /\ kind[s] = "unborn" => k[s] # "deleted"
        /\ kind[s] \in {"sellable", "blocked"} => k[s] # "unborn"
        /\ kind[s] = "deleted" => k[s] = "deleted"}

\* Rows a save of the hall goes through: none, before this was added to
\* save_model.
RowsOfNone(listed, k) == {}
RowsOfListed(listed, k) == listed \X Sellable(k)

SaveHall(k) ==
    /\ saving = Nothing
    /\ saving' = [kind |-> k, listed |-> Hosted, late |-> {},
                  todo |-> RowsOfListed(Hosted, k), made |-> {}]
    /\ UNCHANGED <<kind, hall, event_seat, job, missed>>

\* get_or_create of the listed event's row, whatever hall it is in by now.
SaveRow(e, s) ==
    /\ saving # Nothing
    /\ <<e, s>> \in saving.todo
    /\ \/ /\ event_seat[e][s] # "none"
          /\ saving' = [saving EXCEPT !.todo = @ \ {<<e, s>>}]
       \/ /\ event_seat[e][s] = "none"
          /\ ~Uncommitted(e, s)
          /\ saving' = [saving EXCEPT !.todo = @ \ {<<e, s>>}, !.made = @ \cup {<<e, s>>}]
    /\ UNCHANGED <<kind, hall, event_seat, job, missed>>

\* EventSeat.seat cascades: a row goes with its seat, whatever its status.
RowsKept(rows, k) == rows
RowsOfSeats(rows, k) ==
    [e \in Events |-> [s \in Ids |->
        IF k[s] \in {"sellable", "blocked"} THEN rows[e][s] ELSE "none"]]

CommitHall ==
    /\ saving # Nothing
    /\ saving.todo = {}
    /\ kind' = saving.kind
    /\ event_seat' = RowsOfSeats([e \in Events |-> [s \in Ids |->
                            IF <<e, s>> \in saving.made THEN "available" ELSE event_seat[e][s]]],
                         saving.kind)
    /\ job' = [c \in Clerks |->
                IF Under(c) /\ job[c].read THEN [job[c] EXCEPT !.clean = FALSE] ELSE job[c]]
    /\ missed' = (missed \ saving.listed) \cup (Hosted \ saving.listed) \cup saving.late
    /\ saving' = Nothing
    /\ UNCHANGED hall

\* A colliding label, a deadlock, a lost worker: all of it is rolled back.
FailHall ==
    /\ saving # Nothing
    /\ saving' = Nothing
    /\ UNCHANGED <<kind, hall, event_seat, job, missed>>

\* SeatAdmin deletes one seat; it waits for a save that has it locked.
DeleteSeat(s) ==
    /\ saving = Nothing
    /\ s \in Live
    /\ kind' = [kind EXCEPT ![s] = "deleted"]
    /\ event_seat' = RowsOfSeats(event_seat, kind')
    /\ UNCHANGED <<hall, saving, job, missed>>

----------------------------------------------------------------------------
Begin(c, e, here, save) ==
    /\ job[c] = Nothing
    /\ job' = [job EXCEPT ![c] = [event |-> e, here |-> here, save |-> save, read |-> FALSE,
                                  all |-> {}, todo |-> {}, made |-> {}, clean |-> TRUE]]
    /\ UNCHANGED <<kind, hall, event_seat, saving, missed>>

\* The event is saved with this hall or another one, and synchronised in the
\* same transaction; its row is locked till then.
BeingSaved(e) == \E c \in Clerks : Under(c) /\ job[c].event = e /\ job[c].save
SaveEvent(c, e, here) == ~BeingSaved(e) /\ Begin(c, e, here, TRUE)

\* The event is saved without hall or reserved seating; its rows stay.
SaveUnseated(e) ==
    /\ ~BeingSaved(e)
    /\ hall' = [hall EXCEPT ![e] = "none"]
    /\ UNCHANGED <<kind, event_seat, saving, job, missed>>

\* The action synchronises events, and the save of another hall does: with
\* the hall the event had when it was listed.
ListEvent(c, e) == hall[e] # "none" /\ Begin(c, e, hall[e] = "here", FALSE)

\* The query of the seats, as committed.
ReadSeats(c) ==
    /\ Under(c) /\ ~job[c].read
    /\ job' = [job EXCEPT ![c].read = TRUE,
                          ![c].all = IF job[c].here THEN Live ELSE {},
                          ![c].todo = IF job[c].here THEN Sellable(kind) ELSE {}]
    /\ UNCHANGED <<kind, hall, event_seat, saving, missed>>

GetOrCreate(c, s) ==
    /\ Under(c)
    /\ s \in job[c].todo
    /\ \/ /\ event_seat[job[c].event][s] # "none"
          /\ job' = [job EXCEPT ![c].todo = @ \ {s}]
       \/ /\ event_seat[job[c].event][s] = "none"
          /\ ~Uncommitted(job[c].event, s)
          /\ job' = [job EXCEPT ![c].todo = @ \ {s}, ![c].made = @ \cup {s}]
    /\ UNCHANGED <<kind, hall, event_seat, saving, missed>>

\* Rows sync_event_seats deletes: those that are available, or all.  A seat
\* held or bought for a session is available too.
RemovableAnyway(status) == status # "none"
Removable(status) == status = "available"

\* The rows of other seats are deleted and all is committed.  The foreign
\* keys of new rows are tested then: it waits for a save of the hall, which
\* has the seats locked, and fails if one is gone.
CommitSync(c) ==
    /\ Under(c)
    /\ job[c].read /\ job[c].todo = {}
    /\ job[c].made \subseteq Live
    /\ job[c].made # {} => saving = Nothing
    /\ LET e    == job[c].event
           good == Current(job[c])
       IN  /\ event_seat' = [event_seat EXCEPT ![e] = [s \in Ids |->
                    IF s \in job[c].made THEN "available"
                    ELSE IF s \notin job[c].all /\ Removable(event_seat[e][s]) THEN "none"
                    ELSE event_seat[e][s]]]
           /\ hall' = IF job[c].save
                      THEN [hall EXCEPT ![e] = IF job[c].here THEN "here" ELSE "elsewhere"]
                      ELSE hall
           /\ job' = [d \in Clerks |->
                    IF d = c THEN Nothing
                    ELSE IF Under(d) /\ job[d].event = e /\ job[d].read /\ ~good
                         THEN [job[d] EXCEPT !.clean = FALSE] ELSE job[d]]
           /\ saving' = IF saving # Nothing /\ e \in saving.listed /\ ~good
                        THEN [saving EXCEPT !.late = @ \cup {e}] ELSE saving
           /\ missed' = IF good THEN missed \ {e} ELSE missed \cup {e}
    /\ UNCHANGED kind

\* A seat deleted meanwhile, a deadlock, a lost worker.
FailSync(c) ==
    /\ Under(c)
    /\ job' = [job EXCEPT ![c] = Nothing]
    /\ UNCHANGED <<kind, hall, event_seat, saving, missed>>

----------------------------------------------------------------------------
\* seed_event_seats creates a row for each seat of the hall, the blocked ones
\* too, each committed by itself.
SeedRow(e, s) ==
    /\ hall[e] = "here"
    /\ saving = Nothing
    /\ s \in Live
    /\ event_seat[e][s] = "none" /\ ~Uncommitted(e, s)
    /\ event_seat' = [event_seat EXCEPT ![e][s] = "available"]
    /\ UNCHANGED <<kind, hall, saving, job, missed>>

\* Buyers reserve, buy and give back seats for the whole event; purchases for
\* a session do not write the row.
Book(e, s) ==
    /\ event_seat[e][s] # "none"
    /\ event_seat' = [event_seat EXCEPT ![e][s] =
                        IF @ = "available" THEN "taken" ELSE "available"]
    /\ UNCHANGED <<kind, hall, saving, job, missed>>

Next ==
    \/ \E k \in Redrawn : SaveHall(k)
    \/ CommitHall \/ FailHall
    \/ \E s \in Ids : DeleteSeat(s)
    \/ \E e \in Events :
        \/ SaveUnseated(e)
        \/ \E s \in Ids : SaveRow(e, s) \/ SeedRow(e, s) \/ Book(e, s)
    \/ \E c \in Clerks :
        \/ ReadSeats(c) \/ CommitSync(c) \/ FailSync(c)
        \/ \E s \in Ids : GetOrCreate(c, s)
        \/ \E e \in Events :
            ListEvent(c, e) \/ \E here \in BOOLEAN : SaveEvent(c, e, here)

Spec == Init /\ [][Next]_vars

----------------------------------------------------------------------------
\* Every variable has its type, and every row is the row of a seat that
\* exists.  (EventSeat.seat, on_delete)
TypeOK ==
    /\ kind \in [Ids -> Kinds]
    /\ hall \in [Events -> Halls]
    /\ event_seat \in [Events -> [Ids -> Status]]
    /\ saving \in Saving \cup {Nothing}
    /\ job \in [Clerks -> Job \cup {Nothing}]
    /\ missed \subseteq Events
    /\ \A e \in Events, s \in Ids : event_seat[e][s] # "none" => s \in Live

\* Each event in the hall has a row for each seat that can be sold, so that
\* the seat can be bought, unless the last synchronisation of the event worked
\* from seats or a hall that were no longer so: a save of the hall was
\* committed since it read the seats, the event joined the hall while its save
\* was under way, or a synchronisation for another hall, listed before the
\* event moved here, deleted its rows.  (save_model, save_related,
\* sync_event_seats_action, sync_event_seats)
SellableHaveRows ==
    \A e \in Hosted \ missed, s \in Sellable(kind) : event_seat[e][s] # "none"

\* While a seat exists, its row in an event disappears only if it is available
\* and the event leaves the hall or is one of those missed.  For a session
\* this is no promise: the rows of its seats are available when they are
\* bought.  (sync_event_seats, its status filter)
RowsStay ==
    [][\A e \in Events, s \in Live \cap Live' :
            event_seat[e][s] # "none" /\ event_seat'[e][s] = "none" =>
                /\ event_seat[e][s] = "available"
                /\ e \notin Hosted' \ missed']_vars
=============================================================================
