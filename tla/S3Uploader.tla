------------------------------ MODULE S3Uploader ------------------------------
(***************************************************************************)
(* The S3 uploader of the worker: handleMessage enqueues the text of every *)
(* event beside the batch writer, the goroutine processUploads stores it   *)
(* and marks the event's row, and the reconciler uploads again what the    *)
(* events table shows as pending.                                          *)
(*                                                                         *)
(* The table is a ReplacingMergeTree: an update inserts a newer row, older *)
(* rows stay visible until a merge, and every inserted row feeds the       *)
(* materialized views.  The batch writer is reduced to the rows it has yet *)
(* to insert (EventWorker models it); all events here have text.           *)
(***************************************************************************)
EXTENDS Integers, Sequences, FiniteSets

CONSTANTS
  Events,       \* events whose HasText() is true
  NoEvent,      \* not an event
  QueueCap,     \* capacity of uploadCh (1000)
  Limit,        \* rows GetPendingS3Events returns at most (100)
  MaxDeliver,   \* times an event may be handled (redelivery by the stream)
  MaxFailures,  \* bound: calls to S3 and ClickHouse that return an error
  MaxStops      \* bound: shutdowns and crashes

ASSUME NoEventAssumption == NoEvent \notin Events
ASSUME LimitsAssumption ==
  /\ QueueCap \in Nat \ {0}
  /\ Limit \in Nat \ {0}
  /\ MaxDeliver \in Nat
ASSUME BoundsAssumption == MaxFailures \in Nat /\ MaxStops \in Nat

VARIABLES
  handled,   \* times handleMessage saw each event
  toInsert,  \* rows of each event waiting in the batch writer
  queue,     \* uploadCh
  uploader,  \* processUploads: in its first select, draining, or returned
  pc,        \* progress of each goroutine's current uploadEvent
  item,      \* the event it uploads
  todo,      \* events the reconciler has read and not uploaded yet
  object,    \* what S3 holds under the event's key
  latest,    \* s3_status of the newest row of each event
  stale,     \* statuses among its older rows, not merged away yet
  counted,   \* rows of the event the views have added up (2: two or more)
  stage,     \* the worker process and its context
  failures,  \* calls that returned an error
  stops      \* shutdowns and crashes

queueVars == <<handled, toInsert, queue>>
threadVars == <<uploader, pc, item, todo>>
rowVars == <<latest, stale, counted>>
boundVars == <<failures, stops>>
vars == <<queueVars, threadVars, object, rowVars, stage, boundVars>>

\* The goroutines processUploads and reconciler.
Threads == {"uploads", "reconciler"}

\* A request of the queue carries the text; an event read back from the table
\* has neither prompt nor response.
Payload == [uploads |-> "text", reconciler |-> "empty"]

\* The types of the variables.
TypeOK ==
  /\ handled \in [Events -> 0..MaxDeliver]
  /\ toInsert \in [Events -> 0..MaxDeliver]
  /\ queue \in Seq(Events)
  /\ Len(queue) <= QueueCap
  /\ uploader \in {"selecting", "draining", "returned"}
  /\ pc \in [Threads -> {"idle", "received", "upload", "update"}]
  /\ item \in [Threads -> Events \cup {NoEvent}]
  /\ todo \subseteq Events
  /\ object \in [Events -> {"absent", "text", "empty"}]
  /\ latest \in [Events -> {"none", "pending", "uploaded"}]
  /\ stale \in [Events -> SUBSET {"pending", "uploaded"}]
  /\ counted \in [Events -> 0..2]
  /\ stage \in {"running", "cancelled", "down"}
  /\ failures \in Nat
  /\ stops \in Nat

Init ==
  /\ handled = [e \in Events |-> 0]
  /\ toInsert = [e \in Events |-> 0]
  /\ queue = <<>>
  /\ uploader = "selecting"
  /\ pc = [t \in Threads |-> "idle"]
  /\ item = [t \in Threads |-> NoEvent]
  /\ todo = {}
  /\ object = [e \in Events |-> "absent"]
  /\ latest = [e \in Events |-> "none"]
  /\ stale = [e \in Events |-> {}]
  /\ counted = [e \in Events |-> 0]
  /\ stage = "running"
  /\ failures = 0
  /\ stops = 0

-----------------------------------------------------------------------------
(* The consumer, the batch writer and the table *)

\* Mutant: the queue has no limit.
HandleUnbounded(e) ==
  /\ stage # "down"
  /\ handled[e] < MaxDeliver
  /\ handled' = [handled EXCEPT ![e] = @ + 1]
  /\ toInsert' = [toInsert EXCEPT ![e] = @ + 1]
  /\ queue' = Append(queue, e)
  /\ UNCHANGED <<threadVars, object, rowVars, stage, boundVars>>

\* handleMessage: the row goes to the batch writer, the text to the queue, or
\* nowhere when the queue is full.  Consumers go on after a cancellation.
Handle(e) ==
  /\ stage # "down"
  /\ handled[e] < MaxDeliver
  /\ handled' = [handled EXCEPT ![e] = @ + 1]
  /\ toInsert' = [toInsert EXCEPT ![e] = @ + 1]
  /\ queue' = IF Len(queue) < QueueCap THEN Append(queue, e) ELSE queue
  /\ UNCHANGED <<threadVars, object, rowVars, stage, boundVars>>

\* A row inserted into the events table.
AddRow(e, status) ==
  /\ latest' = [latest EXCEPT ![e] = status]
  /\ stale' = [stale EXCEPT ![e] = @ \cup ({latest[e]} \ {"none"})]
  /\ counted' = [counted EXCEPT ![e] = IF @ < 2 THEN @ + 1 ELSE @]

\* A flush inserts the row.  An insert that fails after it took effect leaves
\* the row to be inserted again.
InsertRow(e) ==
  /\ toInsert[e] > 0
  /\ AddRow(e, "pending")
  /\ \/ toInsert' = [toInsert EXCEPT ![e] = @ - 1] /\ UNCHANGED failures
     \/ failures < MaxFailures /\ failures' = failures + 1 /\ UNCHANGED toInsert
  /\ UNCHANGED <<handled, queue, threadVars, object, stage, stops>>

\* A background merge of some parts of the table keeps some of the older rows.
Merge(e, kept) ==
  /\ kept # stale[e]
  /\ stale' = [stale EXCEPT ![e] = kept]
  /\ UNCHANGED <<queueVars, threadVars, object, latest, counted, stage, boundVars>>

-----------------------------------------------------------------------------
(* S3Uploader.uploadEvent, in either goroutine *)

\* Calls may fail, and do so freely once the worker's context is cancelled; the
\* draining loop has a context of its own.
CallFails(t) ==
  \/ /\ stage = "cancelled"
     /\ ~(t = "uploads" /\ uploader = "draining")
     /\ UNCHANGED failures
  \/ failures < MaxFailures /\ failures' = failures + 1

StoreObject(t) == object' = [object EXCEPT ![item[t]] = Payload[t]]

Leave(t) ==
  /\ pc' = [pc EXCEPT ![t] = "idle"]
  /\ item' = [item EXCEPT ![t] = NoEvent]

Upload(t) ==
  /\ pc[t] = "upload"
  /\ StoreObject(t)
  /\ pc' = [pc EXCEPT ![t] = "update"]
  /\ UNCHANGED <<queueVars, uploader, item, todo, rowVars, stage, boundVars>>

\* Mutant: the status is updated whatever Upload returned.
UploadFailIgnored(t) ==
  /\ pc[t] = "upload"
  /\ CallFails(t)
  /\ StoreObject(t) \/ UNCHANGED object
  /\ pc' = [pc EXCEPT ![t] = "update"]
  /\ UNCHANGED <<queueVars, uploader, item, todo, rowVars, stage, stops>>

\* An error: the status is left alone, even if the object was stored.
UploadFail(t) ==
  /\ pc[t] = "upload"
  /\ CallFails(t)
  /\ StoreObject(t) \/ UNCHANGED object
  /\ Leave(t)
  /\ UNCHANGED <<queueVars, uploader, todo, rowVars, stage, stops>>

\* UpdateS3Status: INSERT ... SELECT copies a row of the event with the new
\* status, and does nothing when there is none.
UpdateS3Status(e) ==
  IF latest[e] = "none" THEN UNCHANGED rowVars ELSE AddRow(e, "uploaded")

Update(t) ==
  /\ pc[t] = "update"
  /\ UpdateS3Status(item[t])
  /\ Leave(t)
  /\ UNCHANGED <<queueVars, uploader, todo, object, stage, boundVars>>

\* A failed update is only logged; it may have taken effect.
UpdateFail(t) ==
  /\ pc[t] = "update"
  /\ CallFails(t)
  /\ UpdateS3Status(item[t]) \/ UNCHANGED rowVars
  /\ Leave(t)
  /\ UNCHANGED <<queueVars, uploader, todo, object, stage, stops>>

-----------------------------------------------------------------------------
(* processUploads and Drain *)

Receive ==
  /\ stage # "down"
  /\ uploader # "returned"
  /\ pc["uploads"] = "idle"
  /\ queue # <<>>
  /\ queue' = Tail(queue)
  /\ item' = [item EXCEPT !["uploads"] = Head(queue)]
  /\ pc' = [pc EXCEPT !["uploads"] = "received"]
  /\ UNCHANGED <<handled, toInsert, uploader, todo, object, rowVars, stage, boundVars>>

\* doUpload: only here does inflightWg count the request.
Count ==
  /\ pc["uploads"] = "received"
  /\ pc' = [pc EXCEPT !["uploads"] = "upload"]
  /\ UNCHANGED <<queueVars, uploader, item, todo, object, rowVars, stage, boundVars>>

\* The select sees ctx.Done, then the inner loop runs until the queue is empty.
StartDraining ==
  /\ stage = "cancelled"
  /\ uploader = "selecting"
  /\ pc["uploads"] = "idle"
  /\ uploader' = "draining"
  /\ UNCHANGED <<queueVars, pc, item, todo, object, rowVars, stage, boundVars>>

EndDraining ==
  /\ uploader = "draining"
  /\ pc["uploads"] = "idle"
  /\ queue = <<>>
  /\ uploader' = "returned"
  /\ UNCHANGED <<queueVars, pc, item, todo, object, rowVars, stage, boundVars>>

-----------------------------------------------------------------------------
(* reconciler *)

\* Mutant: the query leaves out what S3 already holds.
PendingWithoutObject ==
  {e \in Events : "pending" \in stale[e] \cup {latest[e]} /\ object[e] = "absent"}

\* The query reads rows, merged or not, so an older pending row counts too.
Pending == {e \in Events : "pending" \in stale[e] \cup {latest[e]}}

\* At most Limit rows in no order; several of them may belong to one event.  (A
\* query that fails ends the round and changes nothing.)
Reconcile ==
  /\ stage = "running"
  /\ pc["reconciler"] = "idle"
  /\ todo = {}
  /\ \E batch \in SUBSET Pending :
       /\ batch # {}
       /\ Cardinality(batch) <= Limit
       /\ todo' = batch
  /\ UNCHANGED <<queueVars, uploader, pc, item, object, rowVars, stage, boundVars>>

ReconcileNext ==
  /\ pc["reconciler"] = "idle"
  /\ \E e \in todo :
       /\ todo' = todo \ {e}
       /\ item' = [item EXCEPT !["reconciler"] = e]
  /\ pc' = [pc EXCEPT !["reconciler"] = "upload"]
  /\ UNCHANGED <<queueVars, uploader, object, rowVars, stage, boundVars>>

-----------------------------------------------------------------------------
(* The process *)

Cancel ==
  /\ stage = "running"
  /\ stops < MaxStops
  /\ stops' = stops + 1
  /\ stage' = "cancelled"
  /\ UNCHANGED <<queueVars, threadVars, object, rowVars, failures>>

Die ==
  /\ stage' = "down"
  /\ toInsert' = [e \in Events |-> 0]
  /\ queue' = <<>>
  /\ uploader' = "selecting"
  /\ pc' = [t \in Threads |-> "idle"]
  /\ item' = [t \in Threads |-> NoEvent]
  /\ todo' = {}
  /\ UNCHANGED <<handled, object, rowVars, failures>>

\* Drain waits for inflightWg: for a counted request of processUploads, not for
\* the queue, a request just received, or the reconciler.
Exit ==
  /\ stage = "cancelled"
  /\ pc["uploads"] \notin {"upload", "update"}
  /\ Die
  /\ UNCHANGED stops

Crash ==
  /\ stage # "down"
  /\ stops < MaxStops
  /\ stops' = stops + 1
  /\ Die

Restart ==
  /\ stage = "down"
  /\ stage' = "running"
  /\ UNCHANGED <<queueVars, threadVars, object, rowVars, boundVars>>

-----------------------------------------------------------------------------
UploadEvent(t) == Upload(t) \/ UploadFail(t) \/ Update(t) \/ UpdateFail(t)

ProcessUploads == Receive \/ Count \/ StartDraining \/ EndDraining \/ UploadEvent("uploads")

Reconciler == Reconcile \/ ReconcileNext \/ UploadEvent("reconciler")

Next ==
  \/ \E e \in Events : Handle(e) \/ InsertRow(e)
  \/ \E e \in Events : \E kept \in SUBSET stale[e] : Merge(e, kept)
  \/ ProcessUploads
  \/ Reconciler
  \/ Cancel
  \/ Exit
  \/ Crash
  \/ Restart

Spec == Init /\ [][Next]_vars

\* The goroutines run, the reconciler's ticker fires, a shutdown ends the process
\* and a supervisor restarts it.  ClickHouse is assumed to merge all rows of an
\* event sooner or later: as long as older pending rows fill the limit of the
\* reconciler's query, they keep others out.
Fairness ==
  /\ \A e \in Events : WF_vars(Merge(e, {}))
  /\ WF_vars(ProcessUploads)
  /\ WF_vars(Reconciler)
  /\ WF_vars(Exit)
  /\ WF_vars(Restart)

FairSpec == Spec /\ Fairness

-----------------------------------------------------------------------------
(* Properties *)

\* A row says uploaded only when the object is in S3: uploadEvent returns on an
\* error of Upload before it updates the status, and no failure, crash, or second
\* goroutine working on the same event undoes that order.
UploadedMeansObject ==
  \A e \in Events : "uploaded" \in stale[e] \cup {latest[e]} => object[e] # "absent"

\* An event whose newest row is pending is uploaded in the end, although the
\* queue may drop it, calls fail, processes die, and the reconciler's limited
\* query may return events that older rows alone still show as pending.
EventuallyUploaded ==
  \A e \in Events : latest[e] = "pending" ~> latest[e] = "uploaded"

\* The uploader stores prompt and response text and reconciles pending uploads
\* (s3uploader.go:15-16): text once stored is not replaced by an object without.
TextKept == [][\A e \in Events : object[e] = "text" => object'[e] = "text"]_vars

\* Updating the status replaces the event's row (clickhouse.go:139-140): an event
\* handled once, without a failing call, is counted once by the views.
CountedOnce == \A e \in Events : handled[e] = 1 /\ failures = 0 => counted[e] <= 1

\* The inductive invariant behind UploadedMeansObject: a goroutine about to update
\* the status has stored its event's object.
UpdateAfterUpload ==
  \A t \in Threads :
    /\ pc[t] # "idle" => item[t] \in Events
    /\ pc[t] = "update" => object[item[t]] # "absent"

\* A row to be inserted was handled, which bounds toInsert by MaxDeliver.
InsertsHandled == \A e \in Events : toInsert[e] <= handled[e]

IInv == TypeOK /\ InsertsHandled /\ UpdateAfterUpload /\ UploadedMeansObject

=============================================================================
