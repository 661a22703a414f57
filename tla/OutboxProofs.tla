----------------------------- MODULE OutboxProofs -----------------------------
(***************************************************************************)
(* Proofs about Outbox for any number of events, workers and batch size.   *)
(***************************************************************************)
EXTENDS Outbox, FiniteSetTheorems, TLAPS

\* What a run has read was committed.
BatchCommitted ==
    \A p \in Processors : \A e \in batch[p] : row[e] \in {"pending", "processed"}

\* A command that has published stands at a row it has published.
SentPublished ==
    \A c \in sent :
        /\ batch[c] # {}
        /\ \A e \in Events : IsNext(c, e) => published[e] > 0

\* A batch leaves no older pending row out, unless that one came late.
BatchOldest ==
    \A p \in Processors : \A d, e \in Events :
        e \in batch[p] /\ d < e /\ row[d] = "pending" => d \in batch[p] \/ d \in overtaken

NoTaskNoMark == Tasks = {} => task_marked = {}

\* MarkedAfterPublishing and OldestFirst speak of rows only; a run that is
\* half way through its batch is what makes them inductive.
Inv ==
    /\ TypeOK
    /\ BatchCommitted
    /\ SentPublished
    /\ BatchOldest
    /\ NoTaskNoMark
    /\ OnlyCommitted
    /\ MarkedAfterPublishing
    /\ OldestFirst

USE DEF Marked

LEMMA InitInv == Init => Inv
BY BoundAssumption DEF Init, Inv, TypeOK, BatchCommitted, SentPublished, BatchOldest,
   NoTaskNoMark, OnlyCommitted, MarkedAfterPublishing, OldestFirst, Events, RowStatus,
   Processors

\* The page of the query is closed downwards.
LEMMA OldestClosed ==
  ASSUME NEW e \in OldestUnprocessed, NEW d \in Unprocessed, d < e
  PROVE  d \in OldestUnprocessed
<1> DEFINE Before(x) == {y \in Unprocessed : y < x}
<1>1. d \in Nat /\ e \in Nat /\ Unprocessed \subseteq Nat
  BY BoundAssumption DEF OldestUnprocessed, Unprocessed, Events
<1>2. Before(d) \subseteq Before(e)
  <2>1. \A y \in Unprocessed : y \in Nat
    BY <1>1
  <2>2. \A y \in Unprocessed : y < d => y < e
    BY <1>1, <2>1
  <2> QED
    BY <2>2
<1>3. IsFiniteSet(Before(e))
  <2>1. IsFiniteSet(Events)
    BY FS_Interval, BoundAssumption DEF Events
  <2> QED
    BY <2>1, FS_Subset DEF Unprocessed
<1>4. Cardinality(Before(d)) <= Cardinality(Before(e))
  BY <1>2, <1>3, FS_Subset
<1>5. Cardinality(Before(d)) \in Nat /\ Cardinality(Before(e)) \in Nat
  BY <1>2, <1>3, FS_Subset, FS_CardinalityType
<1>6. Cardinality(Before(e)) < Batch
  BY DEF OldestUnprocessed
<1> QED
  BY <1>4, <1>5, <1>6, BoundAssumption DEF OldestUnprocessed

\* What marking a row does, whoever marks it.
LEMMA MarkStep ==
  ASSUME Inv, NEW p \in Processors, NEW e \in Events, IsNext(p, e), Mark(p, e),
         UNCHANGED <<published, overtaken>>
  PROVE  /\ row' \in [Events -> RowStatus]
         /\ batch' \in [Processors -> SUBSET Events]
         /\ BatchCommitted'
         /\ BatchOldest'
         /\ OldestFirst'
<1>1. row' \in [Events -> RowStatus] /\ batch' \in [Processors -> SUBSET Events]
  BY DEF Mark, Inv, TypeOK, RowStatus
<1>2. BatchCommitted'
  BY DEF Mark, Inv, TypeOK, BatchCommitted
<1>3. \A d \in Events : d < e /\ row[d] = "pending" => d \in overtaken
  BY BoundAssumption DEF Inv, BatchOldest, IsNext, Events
<1>4. \A d \in Events : row'[d] = "pending" => row[d] = "pending" /\ d # e
  BY DEF Mark, Inv, TypeOK
<1>5. BatchOldest'
  BY <1>4 DEF Mark, Inv, TypeOK, BatchOldest
<1>6. OldestFirst'
  BY <1>3, <1>4 DEF Mark, Inv, TypeOK, OldestFirst
<1> QED
  BY <1>1, <1>2, <1>5, <1>6

\* A row that is not committed changes into another one that is not.
LEMMA UncommittedStep ==
  ASSUME Inv, NEW e \in Events, Write(e) \/ Rollback(e)
  PROVE  Inv'
<1>1. /\ UNCHANGED <<published, batch, sent, task_marked, overtaken>>
      /\ row' \in [Events -> RowStatus]
  BY DEF Write, Rollback, Inv, TypeOK, RowStatus
<1>2. \A d \in Events :
        /\ row[d] \in {"pending", "processed"} => row'[d] = row[d]
        /\ row'[d] \in {"pending", "processed"} => row'[d] = row[d]
  BY DEF Write, Rollback, Inv, TypeOK
<1>3. TypeOK'
  BY <1>1 DEF Inv, TypeOK
<1>4. BatchCommitted'
  <2> SUFFICES ASSUME NEW p \in Processors, NEW d \in batch[p]
               PROVE  row'[d] \in {"pending", "processed"}
    BY <1>1 DEF BatchCommitted
  <2>1. d \in Events /\ row[d] \in {"pending", "processed"}
    BY DEF Inv, TypeOK, BatchCommitted
  <2> QED
    BY <1>2, <2>1
<1>5. SentPublished' /\ NoTaskNoMark'
  BY <1>1 DEF Inv, SentPublished, NoTaskNoMark, IsNext
<1>6. BatchOldest'
  BY <1>1, <1>2 DEF Inv, BatchOldest
<1>7. OnlyCommitted'
  BY <1>1, <1>2 DEF Inv, OnlyCommitted
<1>8. MarkedAfterPublishing'
  BY <1>1, <1>2 DEF Inv, MarkedAfterPublishing
<1>9. OldestFirst'
  BY <1>1, <1>2 DEF Inv, OldestFirst
<1> QED
  BY <1>3, <1>4, <1>5, <1>6, <1>7, <1>8, <1>9 DEF Inv

LEMMA CommitStep ==
  ASSUME Inv, NEW e \in Events, Commit(e)
  PROVE  Inv'
<1>1. TypeOK' /\ BatchCommitted' /\ SentPublished' /\ NoTaskNoMark'
  BY DEF Commit, Inv, TypeOK, BatchCommitted, SentPublished, NoTaskNoMark,
     RowStatus, IsNext
<1>2. OnlyCommitted' /\ MarkedAfterPublishing'
  BY DEF Commit, Inv, TypeOK, OnlyCommitted, MarkedAfterPublishing
<1>3. \A d \in Events : row'[d] = "pending" => row[d] = "pending" \/ d = e
  BY DEF Commit, Inv, TypeOK
<1>4. BatchOldest'
  BY <1>3, BoundAssumption
     DEF Commit, YoungerRead, Inv, TypeOK, BatchOldest, Events
<1>5. OldestFirst'
  BY <1>3, BoundAssumption
     DEF Commit, YoungerRead, Inv, TypeOK, OldestFirst, Events
<1> QED
  BY <1>1, <1>2, <1>4, <1>5 DEF Inv

LEMMA ReaderStep ==
  ASSUME Inv, NEW p \in Processors, ReadBatch(p) \/ ProcessorDies(p)
  PROVE  Inv'
<1>1. CASE ReadBatch(p)
  <2>1. OldestUnprocessed \subseteq Unprocessed /\ Unprocessed \subseteq Events
    BY DEF OldestUnprocessed, Unprocessed
  <2>2. TypeOK' /\ BatchCommitted'
    BY <1>1, <2>1 DEF ReadBatch, Inv, TypeOK, BatchCommitted, Unprocessed
  <2>3. SentPublished'
    BY <1>1 DEF ReadBatch, Inv, TypeOK, SentPublished, IsNext, Processors
  <2>4. BatchOldest'
    BY <1>1, OldestClosed, <2>1 DEF ReadBatch, Inv, TypeOK, BatchOldest, Unprocessed
  <2> QED
    BY <1>1, <2>2, <2>3, <2>4 DEF ReadBatch, Inv, NoTaskNoMark, OnlyCommitted,
       MarkedAfterPublishing, OldestFirst
<1>2. CASE ProcessorDies(p)
  <2>1. TypeOK' /\ BatchCommitted' /\ BatchOldest'
    BY <1>2 DEF ProcessorDies, Inv, TypeOK, BatchCommitted, BatchOldest
  <2>2. SentPublished'
    BY <1>2 DEF ProcessorDies, Inv, TypeOK, SentPublished, IsNext, Processors
  <2> QED
    BY <1>2, <2>1, <2>2 DEF ProcessorDies, Inv, NoTaskNoMark, OnlyCommitted,
       MarkedAfterPublishing, OldestFirst
<1> QED
  BY <1>1, <1>2

LEMMA TaskStep ==
  ASSUME Inv, NEW t \in Tasks, NEW e \in Events, TaskMarks(t, e)
  PROVE  Inv'
<1>1. t \in Processors /\ t \notin Commands
  BY ProcessorAssumption DEF Processors
<1>2. /\ row' \in [Events -> RowStatus] /\ batch' \in [Processors -> SUBSET Events]
      /\ BatchCommitted' /\ BatchOldest' /\ OldestFirst'
  BY <1>1, MarkStep DEF TaskMarks
<1>3. TypeOK'
  BY <1>2 DEF TaskMarks, Inv, TypeOK
<1>4. SentPublished'
  BY <1>1 DEF TaskMarks, Mark, Inv, TypeOK, SentPublished, IsNext, Processors
<1>5. OnlyCommitted' /\ MarkedAfterPublishing' /\ NoTaskNoMark'
  BY DEF TaskMarks, Mark, Inv, TypeOK, OnlyCommitted, MarkedAfterPublishing, NoTaskNoMark
<1> QED
  BY <1>2, <1>3, <1>4, <1>5 DEF Inv

LEMMA CommandStep ==
  ASSUME Inv, NEW c \in Commands, NEW e \in Events,
         CommandPublishes(c, e) \/ CommandMarks(c, e)
  PROVE  Inv'
<1>1. c \in Processors
  BY DEF Processors
<1>2. CASE CommandPublishes(c, e)
  <2>1. published' \in [Events -> 0..MaxCopies] /\ published'[e] > 0
    BY <1>2, BoundAssumption DEF CommandPublishes, Inv, TypeOK
  <2>2. \A d \in Events : published'[d] = 0 => published[d] = 0
    BY <1>2, <2>1 DEF CommandPublishes, Inv, TypeOK
  <2>3. TypeOK'
    BY <1>2, <2>1 DEF CommandPublishes, Inv, TypeOK
  <2>4. \A d \in Events : IsNext(c, d) => d = e
    BY <1>2, BoundAssumption DEF CommandPublishes, IsNext, Events
  <2>5. SentPublished'
    <3>1. ASSUME NEW b \in sent', NEW d \in Events, IsNext(b, d)'
          PROVE  published'[d] > 0
      <4>0. IsNext(b, d)
        BY <1>2, <3>1 DEF CommandPublishes, IsNext
      <4>1. CASE b = c
        BY <2>1, <2>4, <4>0, <4>1
      <4>2. CASE b # c
        <5>1. published[d] > 0
          BY <1>2, <4>0, <4>2 DEF CommandPublishes, Inv, SentPublished
        <5> QED
          BY <2>1, <2>2, <5>1 DEF Inv, TypeOK
      <4> QED
        BY <4>1, <4>2
    <3> QED
      BY <1>2, <3>1 DEF CommandPublishes, Inv, SentPublished, IsNext
  <2>6. OnlyCommitted'
    BY <1>1, <1>2 DEF CommandPublishes, IsNext, Inv, TypeOK, OnlyCommitted, BatchCommitted
  <2>7. MarkedAfterPublishing'
    BY <1>2, <2>2 DEF CommandPublishes, Inv, MarkedAfterPublishing
  <2> QED
    BY <1>2, <2>3, <2>5, <2>6, <2>7 DEF CommandPublishes, Inv, BatchCommitted, BatchOldest,
       NoTaskNoMark, OldestFirst
<1>3. CASE CommandMarks(c, e)
  <2>1. /\ row' \in [Events -> RowStatus] /\ batch' \in [Processors -> SUBSET Events]
        /\ BatchCommitted' /\ BatchOldest' /\ OldestFirst'
    BY <1>1, <1>3, MarkStep DEF CommandMarks
  <2>2. TypeOK'
    BY <1>3, <2>1 DEF CommandMarks, Inv, TypeOK
  <2>3. published[e] > 0
    BY <1>3 DEF CommandMarks, MayMark, Inv, SentPublished
  <2>4. SentPublished'
    BY <1>1, <1>3 DEF CommandMarks, Mark, Inv, TypeOK, SentPublished, IsNext, Processors
  <2>5. OnlyCommitted' /\ MarkedAfterPublishing' /\ NoTaskNoMark'
    BY <1>3, <2>3 DEF CommandMarks, Mark, Inv, TypeOK, OnlyCommitted,
       MarkedAfterPublishing, NoTaskNoMark
  <2> QED
    BY <2>1, <2>2, <2>4, <2>5 DEF Inv
<1> QED
  BY <1>2, <1>3

LEMMA NextInv == ASSUME Inv, [Next]_vars PROVE Inv'
<1>1. CASE UNCHANGED vars
  BY <1>1 DEF vars, Inv, TypeOK, BatchCommitted, SentPublished, BatchOldest, NoTaskNoMark,
     OnlyCommitted, MarkedAfterPublishing, OldestFirst, IsNext
<1> QED
  BY <1>1, UncommittedStep, CommitStep, ReaderStep, TaskStep, CommandStep DEF Next

THEOREM Invariance == Spec => []Inv
BY InitInv, NextInv, PTL DEF Spec

\* Every variable keeps its type.
THEOREM TypeCorrect == Spec => []TypeOK
BY Invariance, PTL DEF Inv

\* Nothing goes out for a transaction that is open or was rolled back.
THEOREM PublishesCommitted == Spec => []OnlyCommitted
BY Invariance, PTL DEF Inv

\* The command marks nothing it has not published.
THEOREM CommandLosesNothing == Spec => []MarkedAfterPublishing
BY Invariance, PTL DEF Inv

\* An event waits behind a younger one only if it was committed too late.
THEOREM LeavesInOrder == Spec => []OldestFirst
BY Invariance, PTL DEF Inv

\* Without the Celery task the promise of the README holds: every processed
\* event was published.
THEOREM CommandAlonePublishes ==
  ASSUME Tasks = {}
  PROVE  Spec => []ProcessedIsPublished
<1>1. Inv => ProcessedIsPublished
  <2> SUFFICES ASSUME Inv, NEW e \in Events, row[e] = "processed"
               PROVE  published[e] > 0
    BY DEF ProcessedIsPublished
  <2>1. published[e] # 0
    BY DEF Inv, MarkedAfterPublishing, NoTaskNoMark
  <2> QED
    BY <2>1, BoundAssumption DEF Inv, TypeOK
<1> QED
  BY Invariance, <1>1, PTL

\* No run brings back a row that is done with, from however old a read.
THEOREM NothingComesBack == Spec => RowsForward
<1> DEFINE Forward ==
        \A e \in Events :
            /\ row[e] \in {"processed", "rolled back"} => row'[e] = row[e]
            /\ published'[e] >= published[e]
<1>1. ASSUME Inv, Next PROVE Forward
  <2>0. \A e \in Events : published[e] \in Nat /\ published[e] >= published[e]
    BY <1>1, BoundAssumption DEF Inv, TypeOK
  <2>1. ASSUME NEW e \in Events, Write(e) \/ Commit(e) \/ Rollback(e) PROVE Forward
    <3>1. row[e] \in {"none", "open"} /\ published' = published
      BY <2>1 DEF Write, Commit, Rollback
    <3>2. \A d \in Events : d # e => row'[d] = row[d]
      BY <2>1, <1>1 DEF Write, Commit, Rollback, Inv, TypeOK
    <3> QED
      BY <2>0, <3>1, <3>2
  <2>2. ASSUME NEW p \in Processors, ReadBatch(p) \/ ProcessorDies(p) PROVE Forward
    BY <2>0, <2>2 DEF ReadBatch, ProcessorDies
  <2>3. ASSUME NEW p \in Processors, NEW e \in Events, IsNext(p, e), Mark(p, e),
               UNCHANGED published
        PROVE  Forward
    <3>1. row[e] \in {"pending", "processed"}
      BY <1>1, <2>3 DEF IsNext, Inv, BatchCommitted
    <3>2. row'[e] = "processed" /\ \A d \in Events : d # e => row'[d] = row[d]
      BY <1>1, <2>3 DEF Mark, Inv, TypeOK
    <3> QED
      BY <2>0, <2>3, <3>1, <3>2
  <2>4. ASSUME NEW c \in Commands, NEW e \in Events, CommandPublishes(c, e) PROVE Forward
    BY <2>4, <1>1, BoundAssumption DEF CommandPublishes, Inv, TypeOK
  <2> QED
    BY <1>1, <2>1, <2>2, <2>3, <2>4 DEF Next, TaskMarks, CommandMarks, Processors
<1>2. Inv /\ [Next]_vars => [Forward]_vars
  BY <1>1
<1> QED
  BY Invariance, <1>2, PTL DEF Spec, RowsForward
=============================================================================
