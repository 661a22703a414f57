-------------------------- MODULE HallLayoutProofs --------------------------
(***************************************************************************)
(* Proofs about HallLayout for any hall, drawings and forms.               *)
(***************************************************************************)
EXTENDS HallLayout, TLAPS

\* Drawings name seats that were once created.
NamesBorn ==
    /\ layout # Nothing => Named(layout) \subseteq born
    /\ \A a \in Admins : form[a] # Nothing => Named(form[a]) \subseteq born

\* What an open form names and is gone was deleted behind its back.
FormsCovered ==
    \A a \in Admins : form[a] # Nothing => Named(form[a]) \subseteq Live \cup orphaned

Inv == TypeOK /\ SeatsFollowLayout /\ CellsAreSeats /\ NamesBorn /\ FormsCovered

LEMMA InitInv == Init => Inv
<1> SUFFICES ASSUME Init PROVE Inv
  OBVIOUS
<1>1. seat \in [Ids -> Seat \cup {Nothing}]
  BY KindAssumption DEF Init, Seat
<1>2. TypeOK
  BY <1>1 DEF Init, TypeOK, Live
<1> QED
  BY <1>2 DEF Init, Inv, SeatsFollowLayout, CellsAreSeats, NamesBorn, FormsCovered

----------------------------------------------------------------------------
\* An edited drawing is a drawing and names what the form named, once each.
LEMMA EditIsLayout ==
  ASSUME TypeOK, NEW a \in Admins, form[a] # Nothing, NEW g \in Edits(form[a])
  PROVE  /\ g \in Layouts
         /\ Named(g) \subseteq Named(form[a])
         /\ \A p, q \in Drawn(g) : g[p].id = g[q].id /\ g[p].id # NoId => p = q
<1> PICK f : f = form[a]
  OBVIOUS
<1> DEFINE cells == {[id |-> i, label |-> d.label, kind |-> d.kind] :
                        i \in Named(f) \cup {NoId}, d \in Looks(f)}
<1>1. f \in Layouts
  BY DEF TypeOK
<1>2. Named(f) \subseteq Ids
  BY <1>1 DEF Layouts, Named, Drawn, Cell
<1>3. \A d \in Looks(f) : d.label \in Labels /\ d.kind \in Kinds \cup {x.kind : x \in Draws}
  BY <1>1 DEF Layouts, Looks, Drawn, Cell, Labels
<1>4. cells \subseteq Cell
  BY <1>2, <1>3 DEF Cell
<1>5. /\ g \in [Positions -> cells \cup {Nothing}]
      /\ \A p, q \in Drawn(g) : g[p].id = g[q].id /\ g[p].id # NoId => p = q
  BY DEF Edits
<1>6. g \in Layouts
  BY <1>4, <1>5 DEF Layouts
<1>7. \A x \in cells : x.id \in Named(f) \cup {NoId}
  OBVIOUS
<1>8. Named(g) \subseteq Named(f)
  BY <1>5, <1>7 DEF Named, Drawn
<1> QED
  BY <1>5, <1>6, <1>8

\* Writing the new keys back changes nothing else of a drawing.
LEMMA WrittenCells ==
  ASSUME NEW g \in Layouts, NEW fresh \in FreshKeys(g), NEW h, h = WrittenBack(g, fresh)
  PROVE  /\ h \in Layouts /\ Drawn(h) = Drawn(g)
         /\ \A p \in Drawn(g) :
              /\ h[p].label = g[p].label /\ h[p].kind = g[p].kind
              /\ h[p].id \in Ids
              /\ h[p].id = IF p \in New(g) THEN fresh[p] ELSE g[p].id
         /\ \A p \in New(g) : fresh[p] \in Ids \ born
         /\ \A p, q \in New(g) : fresh[p] = fresh[q] => p = q
<1>1. /\ \A p \in New(g) : fresh[p] \in Ids \ born
      /\ \A p, q \in New(g) : fresh[p] = fresh[q] => p = q
  BY DEF FreshKeys
<1>2. \A p \in Positions : h[p] = IF p \in New(g) THEN [g[p] EXCEPT !.id = fresh[p]] ELSE g[p]
  BY DEF WrittenBack
<1>3. \A p \in Drawn(g) : g[p] \in Cell
  BY DEF Drawn, Layouts
<1>4. \A p \in New(g) : h[p] \in Cell /\ h[p].id = fresh[p]
                        /\ h[p].label = g[p].label /\ h[p].kind = g[p].kind
  BY <1>1, <1>2, <1>3 DEF New, Drawn, Cell
<1>5. \A p \in Drawn(g) \ New(g) : h[p] = g[p] /\ g[p].id \in Ids
  BY <1>2, <1>3 DEF New, Drawn, Cell
<1>6. \A p \in Positions \ Drawn(g) : h[p] = Nothing
  BY <1>2 DEF New, Drawn
<1>7. h \in Layouts
  BY <1>3, <1>4, <1>5, <1>6 DEF Layouts, WrittenBack
<1>8. Drawn(h) = Drawn(g)
  BY <1>3, <1>4, <1>5, <1>6, NothingAssumption DEF Drawn
<1> QED
  BY <1>1, <1>4, <1>5, <1>7, <1>8

\* The seats a save leaves: those of the cells it acted on.
LEMMA SavedSeats ==
  ASSUME NEW g \in Layouts, NEW h \in Layouts, Drawn(h) = Drawn(g)
  PROVE  /\ SeatsOf(g, h) \in [Ids -> Seat \cup {Nothing}]
         /\ \A s \in Ids : SeatsOf(g, h)[s] # Nothing =>
                \E p \in Positions : /\ Meant(g, p) /\ h[p].id = s
                                     /\ SeatsOf(g, h)[s] = [at |-> p, label |-> g[p].label,
                                                            kind |-> KindOf(g[p].kind)]
         /\ \A p \in Positions : Meant(g, p) /\ h[p].id \in Ids =>
                SeatsOf(g, h)[h[p].id] # Nothing
<1> DEFINE Made(p) == [at |-> p, label |-> g[p].label, kind |-> KindOf(g[p].kind)]
<1> DEFINE Mine(s, p) == Meant(g, p) /\ h[p].id = s
<1>1. \A p \in Positions : Meant(g, p) => Made(p) \in Seat
  BY KindAssumption DEF Layouts, Meant, Cell, Seat, KindOf
<1>2. ASSUME NEW s \in Ids, \E p \in Positions : Mine(s, p)
      PROVE  \E p \in Positions : Mine(s, p) /\ SeatsOf(g, h)[s] = Made(p)
  <2>1. PICK p \in Positions : p = CHOOSE q \in Positions : Mine(s, q)
    BY <1>2
  <2>2. Mine(s, p)
    BY <1>2, <2>1
  <2>3. SeatsOf(g, h)[s] = Made(p)
    BY <1>2, <2>1 DEF SeatsOf
  <2> QED
    BY <2>2, <2>3
<1>3. ASSUME NEW s \in Ids, ~\E p \in Positions : Mine(s, p)
      PROVE  SeatsOf(g, h)[s] = Nothing
  BY <1>3 DEF SeatsOf
<1>4. SeatsOf(g, h) = [s \in Ids |-> SeatsOf(g, h)[s]]
  BY DEF SeatsOf
<1> HIDE DEF Made
<1>5. SeatsOf(g, h) \in [Ids -> Seat \cup {Nothing}]
  BY <1>1, <1>2, <1>3, <1>4
<1>6. \A s \in Ids : SeatsOf(g, h)[s] # Nothing =>
        \E p \in Positions : Mine(s, p) /\ SeatsOf(g, h)[s] = Made(p)
  BY <1>2, <1>3
<1>7. \A p \in Positions : Meant(g, p) /\ h[p].id \in Ids => SeatsOf(g, h)[h[p].id] # Nothing
  BY <1>1, <1>2, NothingAssumption
<1> QED
  BY <1>5, <1>6, <1>7 DEF Made

----------------------------------------------------------------------------
LEMMA SaveStep ==
  ASSUME Inv, NEW a \in Admins, Save(a)
  PROVE  Inv'
<1>0. TypeOK
  BY DEF Inv
<1>1. PICK g \in Edits(form[a]) :
        /\ \E before \in Orders : ~Collides(g, before)
        /\ \E fresh \in FreshKeys(g), kept \in BOOLEAN : SaveHall(a, g, fresh, kept)
  BY DEF Save
<1>2. PICK fresh \in FreshKeys(g), kept \in BOOLEAN : SaveHall(a, g, fresh, kept)
  BY <1>1
<1>3. PICK h : h = WrittenBack(g, fresh)
  OBVIOUS
<1>4. /\ g \in Layouts
      /\ Named(g) \subseteq Named(form[a])
      /\ \A p, q \in Drawn(g) : g[p].id = g[q].id /\ g[p].id # NoId => p = q
      /\ form[a] # Nothing
  BY <1>0, EditIsLayout DEF Save
<1>5. /\ h \in Layouts /\ Drawn(h) = Drawn(g)
      /\ \A p \in Drawn(g) :
           /\ h[p].label = g[p].label /\ h[p].kind = g[p].kind
           /\ h[p].id \in Ids
           /\ h[p].id = IF p \in New(g) THEN fresh[p] ELSE g[p].id
      /\ \A p \in New(g) : fresh[p] \in Ids \ born
      /\ \A p, q \in New(g) : fresh[p] = fresh[q] => p = q
  BY <1>3, <1>4, WrittenCells
<1>6. /\ seat' \in [Ids -> Seat \cup {Nothing}]
      /\ \A s \in Ids : seat'[s] # Nothing =>
            \E p \in Positions : /\ Meant(g, p) /\ h[p].id = s
                                 /\ seat'[s] = [at |-> p, label |-> g[p].label,
                                               kind |-> KindOf(g[p].kind)]
      /\ \A p \in Positions : Meant(g, p) /\ h[p].id \in Ids => seat'[h[p].id] # Nothing
  <2>1. seat' = SeatsOf(g, h)
    BY <1>2, <1>3 DEF SaveHall
  <2> QED
    BY <1>4, <1>5, <2>1, SavedSeats
<1>7. /\ layout' = h
      /\ born' = born \cup {fresh[p] : p \in New(g)}
      /\ form' = IF kept THEN form ELSE [form EXCEPT ![a] = Nothing]
      /\ Live' = {s \in Ids : seat'[s] # Nothing}
  BY <1>2, <1>3 DEF SaveHall, Live
<1>8. orphaned' = orphaned \cup ((Live \ Live')
        \cap UNION {Named(form'[b]) : b \in {b \in Admins : form'[b] # Nothing}})
  BY <1>2 DEF SaveHall, Live
<1>9. \A p \in Drawn(g) : p \in New(g) \/ (g[p].id \in Ids /\ g[p].id \in Named(g))
  BY <1>4, <1>5 DEF Named, New
<1>10. Named(g) \subseteq born
  BY <1>4 DEF Inv, NamesBorn
<1>11. Named(h) \subseteq born'
  BY <1>5, <1>7, <1>9, <1>10 DEF Named
<1>12. /\ \A p \in Positions : Meant(g, p) <=> p \in Drawn(g) /\ g[p].id \in Live \cup {NoId}
       /\ New(g) = {p \in Drawn(g) : g[p].id = NoId}
  BY DEF Meant, Drawn, New
<1>13. \A p, q \in Drawn(g) : h[p].id = h[q].id => p = q
  BY <1>4, <1>5, <1>9, <1>10, <1>12
<1>14. \A b \in Admins : form'[b] # Nothing => form'[b] = form[b]
  BY <1>0, <1>7 DEF TypeOK
<1>15. TypeOK'
  <2>1. Live' \subseteq born' /\ born' \subseteq Ids
    <3>1. ASSUME NEW s \in Live' PROVE s \in born'
      <4>1. PICK p \in Positions : Meant(g, p) /\ h[p].id = s
        BY <1>6, <1>7, <3>1
      <4> QED
        BY <1>5, <1>11, <1>12, <4>1, NameAssumption DEF Named
    <3> QED
      BY <1>0, <1>5, <1>7, <3>1 DEF TypeOK
  <2>2. form' \in [Admins -> Layouts \cup {Nothing}]
    BY <1>0, <1>7 DEF TypeOK
  <2>3. orphaned' \subseteq Ids
    BY <1>0, <1>8 DEF TypeOK, Live
  <2> QED
    BY <1>0, <1>5, <1>6, <1>7, <2>1, <2>2, <2>3 DEF TypeOK
<1>16. SeatsFollowLayout'
  <2>1. ASSUME NEW s \in Live'
        PROVE  \E p \in Drawn(h) :
                  /\ \A q \in Drawn(h) : h[q].id = s <=> q = p
                  /\ seat'[s] = [at |-> p, label |-> h[p].label, kind |-> KindOf(h[p].kind)]
    <3>1. PICK p \in Positions : /\ Meant(g, p) /\ h[p].id = s
                                 /\ seat'[s] = [at |-> p, label |-> g[p].label,
                                               kind |-> KindOf(g[p].kind)]
      BY <1>6, <1>7, <2>1
    <3>2. p \in Drawn(h) /\ h[p].label = g[p].label /\ h[p].kind = g[p].kind
      BY <1>5, <1>12, <3>1
    <3> QED
      BY <1>5, <1>13, <3>1, <3>2
  <2> QED
    BY <1>7, <2>1 DEF SeatsFollowLayout
<1>17. CellsAreSeats'
  <2>1. ASSUME NEW p \in Drawn(h) PROVE h[p].id \in Live' \cup orphaned'
    <3>0. p \in Positions
      BY <2>1 DEF Drawn
    <3>1. CASE Meant(g, p)
      BY <1>5, <1>6, <1>7, <2>1, <3>0, <3>1
    <3>2. CASE ~Meant(g, p)
      BY <1>4, <1>5, <1>8, <1>9, <1>12, <2>1, <3>0, <3>2 DEF Inv, FormsCovered
    <3> QED
      BY <3>1, <3>2
  <2> QED
    BY <1>7, <2>1 DEF CellsAreSeats
<1>18. NamesBorn'
  BY <1>7, <1>11, <1>14 DEF Inv, NamesBorn
<1>19. FormsCovered'
  <2>1. ASSUME NEW b \in Admins, form'[b] # Nothing, NEW s \in Named(form'[b])
        PROVE  s \in Live' \cup orphaned'
    BY <1>8, <1>14, <2>1 DEF Inv, FormsCovered
  <2> QED
    BY <2>1 DEF FormsCovered
<1> QED
  BY <1>15, <1>16, <1>17, <1>18, <1>19 DEF Inv

\* Opening a form: it names what the drawing names, or the seats there are.
LEMMA OpenStep ==
  ASSUME Inv, NEW a \in Admins, OpenForm(a) \/ CloseForm(a)
  PROVE  Inv'
<1>0. TypeOK
  BY DEF Inv
<1>1. /\ UNCHANGED <<seat, born, layout, orphaned>>
      /\ Live' = Live
  BY DEF OpenForm, CloseForm, Live
<1>2. Bootstrap \in Layouts /\ Named(Bootstrap) \subseteq Live
  <2> DEFINE Here(p, s) == seat[s].at = p
  <2> DEFINE Box(s) == [id |-> s, label |-> seat[s].label, kind |-> seat[s].kind]
  <2>1. \A s \in Live : Box(s) \in Cell /\ Box(s).id = s
    BY <1>0 DEF TypeOK, Live, Seat, Cell
  <2>2. ASSUME NEW p \in Positions
        PROVE  Bootstrap[p] = Nothing \/ \E s \in Live : Bootstrap[p] = Box(s)
    <3>1. CASE \E s \in Live : Here(p, s)
      <4>1. PICK s \in Live : s = CHOOSE t \in Live : Here(p, t)
        BY <3>1
      <4> QED
        BY <3>1, <4>1 DEF Bootstrap
    <3>2. CASE ~\E s \in Live : Here(p, s)
      BY <3>2 DEF Bootstrap
    <3> QED
      BY <3>1, <3>2
  <2>3. Bootstrap = [p \in Positions |-> Bootstrap[p]]
    BY DEF Bootstrap
  <2> HIDE DEF Box
  <2> QED
    BY <2>1, <2>2, <2>3 DEF Layouts, Named, Drawn
<1>3. \A b \in Admins : form'[b] # Nothing =>
        \/ form'[b] = form[b]
        \/ layout # Nothing /\ form'[b] = layout
        \/ form'[b] = Bootstrap
  BY <1>0 DEF OpenForm, CloseForm, TypeOK
<1>4. form' \in [Admins -> Layouts \cup {Nothing}]
  BY <1>0, <1>2 DEF OpenForm, CloseForm, TypeOK
<1>5. layout # Nothing => Named(layout) \subseteq Live \cup orphaned
  BY DEF Inv, CellsAreSeats, Named
<1>6. NamesBorn' /\ FormsCovered'
  <2>1. \A b \in Admins : form'[b] # Nothing =>
            Named(form'[b]) \subseteq born /\ Named(form'[b]) \subseteq Live \cup orphaned
    <3>1. Live \subseteq born
      BY <1>0 DEF TypeOK
    <3> QED
      BY <1>2, <1>3, <1>5, <3>1 DEF Inv, NamesBorn, FormsCovered
  <2> QED
    BY <1>1, <2>1 DEF Inv, NamesBorn, FormsCovered
<1>7. TypeOK'
  BY <1>0, <1>1, <1>4 DEF TypeOK
<1>8. SeatsFollowLayout' /\ CellsAreSeats'
  BY <1>1 DEF Inv, SeatsFollowLayout, CellsAreSeats
<1> QED
  BY <1>6, <1>7, <1>8 DEF Inv

\* Deleting a seat leaves a cell without one, which orphaned remembers.
LEMMA DeleteStep ==
  ASSUME Inv, NEW d \in Ids, DeleteSeat(d)
  PROVE  Inv'
<1>0. TypeOK
  BY DEF Inv
<1>1. /\ seat' = [seat EXCEPT ![d] = Nothing]
      /\ orphaned' = orphaned \cup {d}
      /\ UNCHANGED <<born, layout, form>>
  BY DEF DeleteSeat
<1>2. /\ Live' = Live \ {d}
      /\ \A s \in Ids \ {d} : seat'[s] = seat[s]
  BY <1>0, <1>1 DEF TypeOK, Live
<1>3. TypeOK'
  BY <1>0, <1>1, <1>2 DEF TypeOK
<1>4. SeatsFollowLayout'
  BY <1>1, <1>2 DEF Inv, SeatsFollowLayout, Live
<1>5. CellsAreSeats' /\ FormsCovered' /\ NamesBorn'
  BY <1>1, <1>2 DEF Inv, CellsAreSeats, FormsCovered, NamesBorn
<1> QED
  BY <1>3, <1>4, <1>5 DEF Inv

LEMMA NextInv ==
  ASSUME Inv, [Next]_vars
  PROVE  Inv'
<1>1. CASE UNCHANGED vars
  BY <1>1 DEF vars, Inv, TypeOK, SeatsFollowLayout, CellsAreSeats, NamesBorn,
              FormsCovered, Live
<1>2. CASE Next
  BY <1>2, SaveStep, OpenStep, DeleteStep DEF Next
<1> QED
  BY <1>1, <1>2

THEOREM Invariance == Spec => []Inv
<1>1. Inv /\ [Next]_vars => Inv'
  BY NextInv
<1> QED
  BY <1>1, InitInv, PTL DEF Spec

\* Type correctness; whatever kinds a drawing has, a seat's is a choice.
THEOREM TypeCorrect == Spec => []TypeOK
<1>1. Inv => TypeOK
  BY DEF Inv
<1> QED
  BY <1>1, Invariance, PTL

\* A drawn hall has no seat outside its drawing and none in two places.
THEOREM SeatsAreDrawn == Spec => []SeatsFollowLayout
<1>1. Inv => SeatsFollowLayout
  BY DEF Inv
<1> QED
  BY <1>1, Invariance, PTL

\* A cell without a seat is the work of a deletion behind a form's back.
THEOREM CellsHaveSeats == Spec => []CellsAreSeats
<1>1. Inv => CellsAreSeats
  BY DEF Inv
<1> QED
  BY <1>1, Invariance, PTL
=============================================================================
