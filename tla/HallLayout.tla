----------------------------- MODULE HallLayout -----------------------------
(***************************************************************************)
(* The drawing of a hall and its Seat rows.  An administrator loads the    *)
(* drawing into a form, edits it there and saves it; the save writes the   *)
(* drawing and the seats in one transaction, under the lock its first      *)
(* UPDATE takes on the hall, and others read or write one of the two only, *)
(* so that it is one step.  A save that breaks the unique (hall,           *)
(* row_label, seat_number) is rolled back and is no step at all.  What it  *)
(* does to the EventSeat rows of the events in the hall, and who overtakes *)
(* it there, is the subject of EventRows.                                  *)
(***************************************************************************)
EXTENDS Naturals, FiniteSets

CONSTANTS
    Positions,  \* squares of the grid
    Ids,        \* bound: primary keys that are ever handed out
    NoId,       \* the seat_id of a cell that was drawn and not saved yet
    Admins,     \* browser windows with the form of the hall
    Draws,      \* [label, kind] pairs that are drawn
    Kinds,      \* Seat.KIND_CHOICES
    Standard,   \* the first of them
    Nothing     \* no seat, no cell, no layout, no form

ASSUME KindAssumption == Standard \in Kinds
ASSUME NameAssumption == NoId \notin Ids

VARIABLES
    seat,        \* the Seat row under each key
    born,        \* keys the sequence has given out
    layout,      \* Hall.layout_json: the cells of kind seat
    form,        \* the drawing each open form was loaded with
    orphaned     \* history: seats deleted behind the back of a drawing

vars == <<seat, born, layout, form, orphaned>>

Labels  == {d.label : d \in Draws}
Cell    == [id : Ids \cup {NoId}, label : Labels, kind : Kinds \cup {d.kind : d \in Draws}]
Layouts == [Positions -> Cell \cup {Nothing}]
Seat    == [at : Positions, label : Labels, kind : Kinds]

\* "Nothing" is a null, no record.
ASSUME NothingAssumption == Nothing \notin Seat /\ Nothing \notin Cell

Drawn(g) == {p \in Positions : g[p] # Nothing}
New(g)   == {p \in Drawn(g) : g[p].id = NoId}
Named(g) == {g[p].id : p \in Drawn(g)} \ {NoId}
Live     == {s \in Ids : seat[s] # Nothing}

\* Seats a command has created in a hall nobody has drawn yet.
Seeded(rows) ==
    \A s, t \in Ids : s # t /\ rows[s] # Nothing /\ rows[t] # Nothing =>
        rows[s].at # rows[t].at /\ rows[s].label # rows[t].label

Init ==
    /\ seat \in [Ids -> [at : Positions, label : Labels, kind : {Standard}] \cup {Nothing}]
    /\ Seeded(seat)
    /\ born = Live
    /\ layout = Nothing
    /\ form = [a \in Admins |-> Nothing]
    /\ orphaned = {}

----------------------------------------------------------------------------
\* build_layout_v2_from_seats, for a hall that has no drawing.
Bootstrap ==
    [p \in Positions |->
        IF \E s \in Live : seat[s].at = p
        THEN LET s == CHOOSE s \in Live : seat[s].at = p
             IN  [id |-> s, label |-> seat[s].label, kind |-> seat[s].kind]
        ELSE Nothing]

\* GET of the change form.
OpenForm(a) ==
    /\ form[a] = Nothing
    /\ form' = [form EXCEPT ![a] = IF layout = Nothing THEN Bootstrap ELSE layout]
    /\ UNCHANGED <<seat, born, layout, orphaned>>

CloseForm(a) ==
    /\ form[a] # Nothing
    /\ form' = [form EXCEPT ![a] = Nothing]
    /\ UNCHANGED <<seat, born, layout, orphaned>>

\* What the editor can make of a drawing: cells are painted, erased, moved
\* and labelled; a seat_id goes along with its cell and is never copied.
Looks(f) == Draws \cup {[label |-> f[p].label, kind |-> f[p].kind] : p \in Drawn(f)}
Edits(f) ==
    LET cells == {[id |-> i, label |-> d.label, kind |-> d.kind] :
                    i \in Named(f) \cup {NoId}, d \in Looks(f)}
    IN  {g \in [Positions -> cells \cup {Nothing}] :
            \A p, q \in Drawn(g) : g[p].id = g[q].id /\ g[p].id # NoId => p = q}

\* Cells the loop acts on: those of a deleted seat are skipped.
Meant(g, p) == g[p] # Nothing /\ g[p].id \in Live \cup {NoId}

\* In the order of the cells, each seat takes its label while the seats that
\* are still to come, or to be removed, have their old ones.
Collides(g, before) ==
    \E p \in Positions : Meant(g, p) /\
        \/ \E q \in Positions :
              Meant(g, q) /\ <<q, p>> \in before /\ g[q].label = g[p].label
        \/ \E s \in Live :
              /\ s # g[p].id /\ seat[s].label = g[p].label
              /\ ~\E q \in Positions : Meant(g, q) /\ g[q].id = s /\ <<q, p>> \in before

\* Any order: the editor appends what it touched last.
Orders ==
    {o \in SUBSET (Positions \X Positions) :
        /\ \A p, q \in Positions : p # q => (<<p, q>> \in o <=> <<q, p>> \notin o)
        /\ \A p \in Positions : <<p, p>> \notin o
        /\ \A p, q, r \in Positions : <<p, q>> \in o /\ <<q, r>> \in o => <<p, r>> \in o}

\* A kind that is none of the choices becomes standard, or is kept.
KindAsDrawn(k) == k
KindOf(k) == IF k \in Kinds THEN k ELSE Standard

\* Keys the sequence may give the new seats of a drawing.
FreshKeys(g) ==
    {f \in [New(g) -> Ids \ born] : \A p, q \in New(g) : f[p] = f[q] => p = q}

\* The new seats' keys are written back into the drawing, or are not.
NotWrittenBack(g, fresh) == g
WrittenBack(g, fresh) ==
    [p \in Positions |->
        IF p \in New(g) THEN [g[p] EXCEPT !.id = fresh[p]] ELSE g[p]]

\* Seats after the save: one for each cell that was acted on, and no other;
\* or the old ones too, when to_remove is not deleted.
SeatsNotRemoved(g, h) ==
    [s \in Ids |->
        IF \E p \in Positions : Meant(g, p) /\ h[p].id = s
        THEN LET p == CHOOSE p \in Positions : Meant(g, p) /\ h[p].id = s
             IN  [at |-> p, label |-> g[p].label, kind |-> KindOf(g[p].kind)]
        ELSE seat[s]]
SeatsOf(g, h) ==
    [s \in Ids |->
        IF \E p \in Positions : Meant(g, p) /\ h[p].id = s
        THEN LET p == CHOOSE p \in Positions : Meant(g, p) /\ h[p].id = s
             IN  [at |-> p, label |-> g[p].label, kind |-> KindOf(g[p].kind)]
        ELSE Nothing]

\* HallAdmin.save_model.  The browser's way back leads to the form as it was
\* loaded (kept).
SaveHall(a, g, fresh, kept) ==
    LET gone == Live \ {s \in Ids : seat'[s] # Nothing}
    IN  /\ layout' = WrittenBack(g, fresh)
        /\ seat' = SeatsOf(g, WrittenBack(g, fresh))
        /\ born' = born \cup {fresh[p] : p \in New(g)}
        /\ form' = IF kept THEN form ELSE [form EXCEPT ![a] = Nothing]
        /\ orphaned' = orphaned \cup
                (gone \cap UNION {Named(form'[b]) : b \in {b \in Admins : form'[b] # Nothing}})

\* Deleting a Seat in its own admin leaves its cell in the drawing.
DeleteSeat(s) ==
    /\ s \in Live
    /\ seat' = [seat EXCEPT ![s] = Nothing]
    /\ orphaned' = orphaned \cup {s}
    /\ UNCHANGED <<born, layout, form>>

Save(a) ==
    /\ form[a] # Nothing
    /\ \E g \in Edits(form[a]) :
        /\ \E before \in Orders : ~Collides(g, before)
        /\ \E fresh \in FreshKeys(g), kept \in BOOLEAN : SaveHall(a, g, fresh, kept)

Next ==
    \/ \E a \in Admins : OpenForm(a) \/ CloseForm(a) \/ Save(a)
    \/ \E s \in Ids : DeleteSeat(s)

Spec == Init /\ [][Next]_vars

----------------------------------------------------------------------------
\* Every variable has its type; in particular a seat's kind is one of the
\* choices, whatever the drawing says.
TypeOK ==
    /\ seat \in [Ids -> Seat \cup {Nothing}]
    /\ Live \subseteq born /\ born \subseteq Ids
    /\ layout \in Layouts \cup {Nothing}
    /\ form \in [Admins -> Layouts \cup {Nothing}]
    /\ orphaned \subseteq Ids

\* Once a hall is drawn, each of its seats is drawn, in one place, and is what
\* is drawn there.  (sync_hall_layout_to_seats)
SeatsFollowLayout ==
    layout # Nothing =>
        \A s \in Live : \E p \in Drawn(layout) :
            /\ \A q \in Drawn(layout) : layout[q].id = s <=> q = p
            /\ seat[s] = [at |-> p, label |-> layout[p].label,
                          kind |-> KindOf(layout[p].kind)]

\* Each cell of a saved drawing is a seat, unless the seat was deleted by
\* itself or by a save while another form still showed it: the form then puts
\* its cell back and the seat does not come back with it.
CellsAreSeats ==
    layout # Nothing =>
        \A p \in Drawn(layout) : layout[p].id \in Live \cup orphaned
=============================================================================
