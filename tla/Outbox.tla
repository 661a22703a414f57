-------------------------------- MODULE Outbox --------------------------------
(***************************************************************************)
(* The transactional outbox: a request writes an OutboxEvent row in its    *)
(* own transaction; the Celery task process_outbox and the management      *)
(* command of the same name read the oldest unprocessed rows and mark them *)
(* one by one.  Only the command publishes.                                *)
(*                                                                         *)
(* Events are numbered in the order of created_at, which is taken at the   *)
(* insert: a row may become visible after a younger one.                   *)
(***************************************************************************)
EXTENDS Naturals, FiniteSets

CONSTANTS
    Tasks,      \* Celery workers that may run the task
    Commands,   \* processes that may run the management command
    Batch,      \* rows read at a time ([:50])
    MaxEvents,  \* bound on the rows written
    MaxCopies   \* bound on the publications of one event

ASSUME ProcessorAssumption == Tasks \cap Commands = {}
ASSUME BoundAssumption == Batch \in Nat \ {0} /\ MaxEvents \in Nat /\ MaxCopies \in Nat

VARIABLES
    row,        \* state of each event's row
    published,  \* how often each event was handed to the log
    batch,      \* rows a run has read and not finished with
    sent,       \* commands that have published the row they are at
    task_marked,  \* history: events some task has marked
    overtaken     \* history: events committed after a younger one was read

vars == <<row, published, batch, sent, task_marked, overtaken>>

Events     == 1..MaxEvents
Processors == Tasks \cup Commands
RowStatus  == {"none", "open", "pending", "processed", "rolled back"}

Init ==
    /\ row = [e \in Events |-> "none"]
    /\ published = [e \in Events |-> 0]
    /\ batch = [p \in Processors |-> {}]
    /\ sent = {}
    /\ task_marked = {}
    /\ overtaken = {}

----------------------------------------------------------------------------
\* OutboxEvent.objects.create inside the transaction of a request.
Write(e) ==
    /\ row[e] = "none"
    /\ \A d \in Events : d < e => row[d] # "none"
    /\ row' = [row EXCEPT ![e] = "open"]
    /\ UNCHANGED <<published, batch, sent, task_marked, overtaken>>

\* A younger event has been read by some run, or marked.
YoungerRead(e) ==
    \E d \in Events : d > e /\ (row[d] = "processed" \/ \E p \in Processors : d \in batch[p])

Commit(e) ==
    /\ row[e] = "open"
    /\ row' = [row EXCEPT ![e] = "pending"]
    /\ overtaken' = IF YoungerRead(e) THEN overtaken \cup {e} ELSE overtaken
    /\ UNCHANGED <<published, batch, sent, task_marked>>

\* A deadlock, an error in the view or a lost worker after the insert.
Rollback(e) ==
    /\ row[e] = "open"
    /\ row' = [row EXCEPT ![e] = "rolled back"]
    /\ UNCHANGED <<published, batch, sent, task_marked, overtaken>>

\* filter(processed=False): committed rows only; the edit that publishes from
\* inside the request sees open ones too.
VisibleEarly == {e \in Events : row[e] \in {"open", "pending"}}
Unprocessed == {e \in Events : row[e] = "pending"}

\* .order_by("created_at")[:50]
OldestUnprocessed ==
    {e \in Unprocessed : Cardinality({d \in Unprocessed : d < e}) < Batch}

\* Every run, of the task or the command, starts with one query.
ReadBatch(p) ==
    /\ batch[p] = {}
    /\ Unprocessed # {}
    /\ batch' = [batch EXCEPT ![p] = OldestUnprocessed]
    /\ UNCHANGED <<row, published, sent, task_marked, overtaken>>

\* `for event in events': in the order of the query, or without its order_by.
IsAny(p, e) == e \in batch[p]
IsNext(p, e) == e \in batch[p] /\ \A d \in batch[p] : e <= d

\* What save() leaves in the column; the mutant writes a word of its own.
MarkedAsSent == "sent"
Marked == "processed"

\* Rows are written by primary key whatever has become of them meanwhile; the
\* first form forgets "processed" in update_fields.
MarkTimeOnly(p, e) ==
    /\ row' = row
    /\ batch' = [batch EXCEPT ![p] = @ \ {e}]

Mark(p, e) ==
    /\ row' = [row EXCEPT ![e] = Marked]
    /\ batch' = [batch EXCEPT ![p] = @ \ {e}]

\* The Celery task.
TaskMarks(t, e) ==
    /\ IsNext(t, e)
    /\ Mark(t, e)
    /\ task_marked' = task_marked \cup {e}
    /\ UNCHANGED <<published, sent, overtaken>>

\* The command: publish_event, then processed = True and save().
CommandPublishes(c, e) ==
    /\ IsNext(c, e)
    /\ c \notin sent
    /\ published[e] < MaxCopies
    /\ published' = [published EXCEPT ![e] = @ + 1]
    /\ sent' = sent \cup {c}
    /\ UNCHANGED <<row, batch, task_marked, overtaken>>

\* Marked only after the publication, and the edit that does not wait for it.
MayMarkAtOnce(c) == TRUE
MayMark(c) == c \in sent

CommandMarks(c, e) ==
    /\ IsNext(c, e)
    /\ MayMark(c)
    /\ Mark(c, e)
    /\ sent' = sent \ {c}
    /\ UNCHANGED <<published, task_marked, overtaken>>

\* The process is lost, or an exception ends the run; every save was a
\* transaction of its own and stays.
ProcessorDies(p) ==
    /\ batch[p] # {}
    /\ batch' = [batch EXCEPT ![p] = {}]
    /\ sent' = sent \ {p}
    /\ UNCHANGED <<row, published, task_marked, overtaken>>

Next ==
    \/ \E e \in Events : Write(e) \/ Commit(e) \/ Rollback(e)
    \/ \E p \in Processors : ReadBatch(p) \/ ProcessorDies(p)
    \/ \E t \in Tasks, e \in Events : TaskMarks(t, e)
    \/ \E c \in Commands, e \in Events : CommandPublishes(c, e) \/ CommandMarks(c, e)

Spec == Init /\ [][Next]_vars

(***************************************************************************)
(* Celery beat starts the task every PROCESS_OUTBOX_INTERVAL_SECONDS and a *)
(* worker may be lost any number of times, but some run gets through its   *)
(* next row some day.  Nothing runs the command.                           *)
(***************************************************************************)
Fairness ==
    \A t \in Tasks :
        /\ WF_vars(ReadBatch(t))
        /\ SF_vars(\E e \in Events : TaskMarks(t, e))

FairSpec == Spec /\ Fairness

----------------------------------------------------------------------------
\* Every variable has its type.
TypeOK ==
    /\ row \in [Events -> RowStatus]
    /\ published \in [Events -> 0..MaxCopies]
    /\ batch \in [Processors -> SUBSET Events]
    /\ sent \subseteq Commands
    /\ task_marked \subseteq Events
    /\ overtaken \subseteq Events

\* An event is published or marked only if the transaction that wrote it has
\* committed: downstream never hears of an order that was rolled back.
\* (the outbox rows written inside transaction.atomic)
OnlyCommitted ==
    \A e \in Events :
        published[e] > 0 \/ e \in task_marked => row[e] \in {"pending", "processed"}

\* The command never loses an event: one that counts as processed and was not
\* published was marked by the Celery task, whatever runs overlap or are lost.
\* (publish_event before save, process_outbox command and task)
MarkedAfterPublishing ==
    \A e \in Events : row[e] = "processed" /\ published[e] = 0 => e \in task_marked

\* Events leave in the order of created_at: an event waits behind a younger
\* one only if its transaction committed after the younger one was read.
\* (order_by("created_at") and the loop over the batch, in every run)
OldestFirst ==
    \A d, e \in Events :
        d < e /\ row[d] = "pending" /\ row[e] = "processed" => d \in overtaken

\* A row that is processed stays so and a row rolled back stays away: no run
\* working from an older read brings one back.
RowsForward ==
    [][\A e \in Events :
            /\ row[e] \in {"processed", "rolled back"} => row'[e] = row[e]
            /\ published'[e] >= published[e]]_vars

\* Every committed event is marked some day, however many workers are lost.
\* (the beat schedule of process_outbox)
EventsProcessed == \A e \in Events : row[e] = "pending" ~> row[e] = "processed"

\* "OutboxEvent rows for downstream integration (processed by a periodic
\* task)": what the periodic task has processed has gone downstream.
ProcessedIsPublished ==
    \A e \in Events : row[e] = "processed" => published[e] > 0
=============================================================================
