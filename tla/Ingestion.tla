------------------------------ MODULE Ingestion ------------------------------
(***************************************************************************)
(* From track() of the Python SDK to the EVENTS stream: the bounded queue, *)
(* the flush thread and the final flush of stop() (which may run at the    *)
(* same time), the retries of _send_batch, and the ingestion server's      *)
(* HandleEvent, HandleBatch and Publish.  A request outlives the client    *)
(* that gave up on it; the server's middleware may refuse a request, a     *)
(* publish may fail before or after the stream stored the message, and     *)
(* an answer may be lost.  Other clients post single events (HandleEvent). *)
(***************************************************************************)
EXTENDS Integers, Sequences, FiniteSets, SequencesExt

CONSTANTS
  Events,        \* events the application tracks, or a client posts
  Request,       \* the EventRequest of each event
  QueueCap,      \* max_queue_size
  MaxSdkBatch,   \* largest batch_size the SDK accepts (1000)
  maxBatchSize,  \* largest batch the server accepts (500)
  MaxRetries,    \* bound: max_retries (3 by default)
  MaxFaults,     \* bound: refusals, failed publishes and lost answers
  MaxWindows     \* bound: times the stream's Duplicates window passes

\* Fields ValidateEvent requires, and fields whose value it checks further.
RequiredFields == {"idempotency_key", "timestamp", "model", "provider",
  "prompt_tokens", "completion_tokens", "latency_ms", "status_code"}
CheckedFields == {"idempotency_key", "timestamp", "model", "provider",
  "status_code", "tags"}
\* A text is absent, within 100 KB, longer, or cut to 100 KB.
Text == {"nil", "fits", "long", "cut"}
EventRequest == [missing: SUBSET RequiredFields, bad: SUBSET CheckedFields,
                 prompt: Text \ {"cut"}, response: Text \ {"cut"}]
LLMEvent == [prompt: Text, response: Text, s3_status: {"none", "pending"}]

ASSUME RequestAssumption == Request \in [Events -> EventRequest]
ASSUME SizesAssumption ==
  /\ QueueCap \in Nat \ {0}
  /\ MaxSdkBatch \in Nat \ {0}
  /\ maxBatchSize \in Nat \ {0}
ASSUME IngestionBounds ==
  MaxRetries \in Nat /\ MaxFaults \in Nat /\ MaxWindows \in Nat

VARIABLES
  batchSize,   \* batch_size the client was constructed with
  maxRetries,  \* its max_retries
  queue,       \* _EventQueue
  stopEvent,   \* _stop_event
  authFailed,  \* _auth_failed
  closed,      \* the httpx client was closed
  pc,          \* control state of each thread
  batch,       \* the events a thread drained and is sending
  attempt,     \* its attempt number
  calls,       \* HTTP requests at the server
  stream,      \* messages of the EVENTS stream, as copies per event
  window,      \* msg-ids inside the Duplicates window
  windows,     \* windows that passed
  faults,      \* faults so far
  fate         \* what became of each event, as far as its sender knows

sdk == <<batchSize, maxRetries, queue, stopEvent, authFailed, closed>>
threads == <<pc, batch, attempt>>
nats == <<stream, window, windows>>
vars == <<sdk, threads, calls, nats, faults, fate>>

Threads == {"flusher", "caller"}
Control == {"idle", "check", "join", "flush", "drain", "post", "waiting",
            "close", "done"}
Fates == {"new", "held", "accepted", "rejected", "full", "exhausted",
          "unauthorized", "bad_request", "unsent", "malformed", "told"}
Call == [from: Threads, events: Seq(Events), attempt: Nat, next: Nat,
         rejected: SUBSET Events]
Stored == [Events -> [copies: Nat, msg: LLMEvent]]

(***************************************************************************)
(* The server's pure functions.                                            *)
(***************************************************************************)
\* ValidateEvent's field errors.
ValidateEvent(req) ==
  [Field: req.missing, Message: {"required field is missing"}]
    \cup [Field: req.bad, Message: {"invalid value"}]

\* Mutant: long texts are kept.
KeepText(text) == text

\* ValidateEvent's other effect: it truncates, and never rejects, long texts.
Truncate(text) == IF text = "long" THEN "cut" ELSE text

ValidateBatch(events) == Len(events) \in 1..maxBatchSize

buildProtoEvent(req) ==
  [prompt |-> Truncate(req.prompt), response |-> Truncate(req.response),
   s3_status |-> IF req.prompt # "nil" \/ req.response # "nil"
                 THEN "pending" ELSE "none"]

Init ==
  /\ batchSize \in 1..MaxSdkBatch /\ maxRetries \in 0..MaxRetries
  /\ queue = << >>
  /\ stopEvent = FALSE /\ authFailed = FALSE /\ closed = FALSE
  /\ pc = [t \in Threads |-> IF t = "flusher" THEN "check" ELSE "idle"]
  /\ batch = [t \in Threads |-> << >>]
  /\ attempt = [t \in Threads |-> 0]
  /\ calls = {}
  /\ stream = [e \in Events |->
                 [copies |-> 0, msg |-> buildProtoEvent(Request[e])]]
  /\ window = {} /\ windows = 0 /\ faults = 0
  /\ fate = [e \in Events |-> "new"]

(***************************************************************************)
(* The SDK.                                                                *)
(***************************************************************************)
Goto(t, label) == pc' = [pc EXCEPT ![t] = label]

\* Mutant: the queue has no limit.
TrackUnbounded(e) ==
  /\ fate[e] = "new"
  /\ queue' = Append(queue, e)
  /\ fate' = [fate EXCEPT ![e] = "held"]
  /\ UNCHANGED <<batchSize, maxRetries, stopEvent, authFailed, closed, threads, calls,
                 nats, faults>>

\* put_nowait: a full queue drops the new event.
Track(e) ==
  /\ fate[e] = "new"
  /\ IF Len(queue) < QueueCap
     THEN /\ queue' = Append(queue, e)
          /\ fate' = [fate EXCEPT ![e] = "held"]
     ELSE /\ fate' = [fate EXCEPT ![e] = "full"]
          /\ UNCHANGED queue
  /\ UNCHANGED <<batchSize, maxRetries, stopEvent, authFailed, closed, threads, calls,
                 nats, faults>>

\* Mutant: the loop does not look at the stop event.
CheckNever ==
  /\ pc["flusher"] = "check"
  /\ Goto("flusher", "flush")
  /\ UNCHANGED <<sdk, batch, attempt, calls, nats, faults, fate>>

\* _run: the loop test, and then a wait for the interval or the stop.
Check ==
  /\ pc["flusher"] = "check"
  /\ Goto("flusher", IF stopEvent THEN "done" ELSE "flush")
  /\ UNCHANGED <<sdk, batch, attempt, calls, nats, faults, fate>>

\* stop: set the event, join with a timeout, flush, close the client.
Stop ==
  /\ pc["caller"] = "idle"
  /\ stopEvent' = TRUE
  /\ Goto("caller", "join")
  /\ UNCHANGED <<batchSize, maxRetries, queue, authFailed, closed, batch, attempt, calls,
                 nats, faults, fate>>

Join ==
  /\ pc["caller"] = "join"
  /\ Goto("caller", "flush")
  /\ UNCHANGED <<sdk, batch, attempt, calls, nats, faults, fate>>

Close ==
  /\ pc["caller"] = "close"
  /\ closed' = TRUE
  /\ Goto("caller", "done")
  /\ UNCHANGED <<batchSize, maxRetries, queue, stopEvent, authFailed, batch, attempt,
                 calls, nats, faults, fate>>

\* Where a thread goes on after _flush.
AfterFlush(t) == IF t = "flusher" THEN "check" ELSE "close"

\* Mutant: only a full batch is worth a flush.
FlushWhenFull(t) ==
  /\ pc[t] = "flush"
  /\ Goto(t, IF authFailed \/ Len(queue) < batchSize THEN AfterFlush(t) ELSE "drain")
  /\ UNCHANGED <<sdk, batch, attempt, calls, nats, faults, fate>>

Flush(t) ==
  /\ pc[t] = "flush"
  /\ Goto(t, IF authFailed THEN AfterFlush(t) ELSE "drain")
  /\ UNCHANGED <<sdk, batch, attempt, calls, nats, faults, fate>>

\* Mutant: an item is copied first and removed later.
PeekNowait(t) ==
  /\ pc[t] = "drain"
  /\ queue # << >>
  /\ Len(batch[t]) < batchSize
  /\ batch' = [batch EXCEPT ![t] = Append(@, Head(queue))]
  /\ UNCHANGED <<batchSize, maxRetries, queue, stopEvent, authFailed, closed, pc, attempt,
                 calls, nats, faults, fate>>

\* drain: one get_nowait at a time, in competition with the other thread.
GetNowait(t) ==
  /\ pc[t] = "drain"
  /\ queue # << >>
  /\ Len(batch[t]) < batchSize
  /\ batch' = [batch EXCEPT ![t] = Append(@, Head(queue))]
  /\ queue' = Tail(queue)
  /\ UNCHANGED <<batchSize, maxRetries, stopEvent, authFailed, closed, pc, attempt, calls,
                 nats, faults, fate>>

\* The thread is through with its batch; each event's fate is outcome[e].
Settle(t, outcome, label) ==
  /\ fate' = [e \in Events |->
                IF e \in ToSet(batch[t]) THEN outcome[e] ELSE fate[e]]
  /\ batch' = [batch EXCEPT ![t] = << >>]
  /\ attempt' = [attempt EXCEPT ![t] = 0]
  /\ Goto(t, label)

All(f) == [e \in Events |-> f]

\* The drain ends with a batch, which _send_batch drops when the key was
\* refused before, or with none, which ends the flush.
SendBatch(t) ==
  /\ pc[t] = "drain"
  /\ queue = << >> \/ Len(batch[t]) = batchSize
  /\ IF batch[t] # << >> /\ authFailed
     THEN Settle(t, All("unauthorized"), "drain")
     ELSE /\ Goto(t, IF batch[t] = << >> THEN AfterFlush(t) ELSE "post")
          /\ UNCHANGED <<batch, attempt, fate>>
  /\ UNCHANGED <<sdk, calls, nats, faults>>

NewCall(t, evs, n) ==
  [from |-> t, events |-> evs, attempt |-> n, next |-> 0, rejected |-> {}]

\* A closed httpx client raises RuntimeError, which _send_batch does not
\* catch: the thread ends.
Post(t) ==
  /\ pc[t] = "post"
  /\ IF closed
     THEN Settle(t, All("unsent"), "done") /\ UNCHANGED calls
     ELSE /\ calls' = calls \cup {NewCall(t, batch[t], attempt[t])}
          /\ Goto(t, "waiting")
          /\ UNCHANGED <<batch, attempt, fate>>
  /\ UNCHANGED <<sdk, nats, faults>>

\* 429, a 5xx status or a network error: another attempt, or give up.
Retry(t) ==
  IF attempt[t] < maxRetries
  THEN /\ attempt' = [attempt EXCEPT ![t] = @ + 1]
       /\ Goto(t, "post")
       /\ UNCHANGED <<batch, fate>>
  ELSE Settle(t, All("exhausted"), "drain")

Awaited(c) ==
  /\ pc[c.from] = "waiting"
  /\ batch[c.from] = c.events
  /\ attempt[c.from] = c.attempt

\* _send_batch's reaction to a status code.
OnStatus(t, status, rejected) ==
  /\ authFailed' = (authFailed \/ status = 401)
  /\ CASE status = 202 ->
            Settle(t, [e \in Events |-> IF e \in rejected THEN "rejected"
                                        ELSE "accepted"], "drain")
       [] status = 400 -> Settle(t, All("bad_request"), "drain")
       [] status = 401 -> Settle(t, All("unauthorized"), "drain")
       [] OTHER -> Retry(t)

\* The server answers; nobody reads an answer that is no longer awaited.
Answer(c, status) ==
  /\ calls' = calls \ {c}
  /\ IF Awaited(c)
     THEN OnStatus(c.from, status, c.rejected)
     ELSE UNCHANGED <<authFailed, threads, fate>>
  /\ UNCHANGED <<batchSize, maxRetries, queue, stopEvent, closed>>

\* The client's timeout, or a broken connection.
GiveUp(t) ==
  /\ pc[t] = "waiting"
  /\ faults < MaxFaults
  /\ faults' = faults + 1
  /\ Retry(t)
  /\ UNCHANGED <<sdk, calls, nats>>

(***************************************************************************)
(* The ingestion server.                                                   *)
(***************************************************************************)
\* The middleware in front of the handlers refuses the request, or cuts its
\* body off (over 5 MB), which the handler cannot decode: 400.
Refuse(c, status) ==
  /\ c.next = 0
  /\ faults < MaxFaults
  /\ faults' = faults + 1
  /\ Answer(c, status)
  /\ UNCHANGED nats

\* HandleBatch before its loop.
Begin(c) ==
  /\ c.next = 0
  /\ IF ValidateBatch(c.events)
     THEN /\ calls' = (calls \ {c}) \cup {[c EXCEPT !.next = 1]}
          /\ UNCHANGED <<sdk, threads, fate>>
     ELSE Answer(c, 400)
  /\ UNCHANGED <<nats, faults>>

\* Mutant: messages are published without an id.
PublishWithoutId(e) ==
  /\ stream' = [stream EXCEPT ![e].copies = @ + 1]
  /\ UNCHANGED <<window, windows>>

\* js.Publish with the event's id as msg-id: the stream stores it unless the
\* id is in its Duplicates window.
Publish(e) ==
  /\ stream' = IF e \in window THEN stream
               ELSE [stream EXCEPT ![e].copies = @ + 1]
  /\ window' = window \cup {e}
  /\ UNCHANGED windows

Advance(c, rejected) ==
  /\ calls' = (calls \ {c}) \cup
       {[c EXCEPT !.next = @ + 1, !.rejected = @ \cup rejected]}
  /\ UNCHANGED <<sdk, threads, fate>>

\* Mutant: a failed publish is logged only.
HandleEachUnchecked(c) ==
  /\ c.next \in 1..Len(c.events)
  /\ LET e == c.events[c.next]
     IN  \/ /\ ValidateEvent(Request[e]) # {}
            /\ Advance(c, {e})
            /\ UNCHANGED <<nats, faults>>
         \/ /\ ValidateEvent(Request[e]) = {}
            /\ Publish(e)
            /\ Advance(c, {})
            /\ UNCHANGED faults
         \/ /\ ValidateEvent(Request[e]) = {}
            /\ faults < MaxFaults
            /\ faults' = faults + 1
            /\ Publish(e) \/ UNCHANGED nats
            /\ Advance(c, {})

\* One event of HandleBatch's loop.
HandleEach(c) ==
  /\ c.next \in 1..Len(c.events)
  /\ LET e == c.events[c.next]
     IN  \/ /\ ValidateEvent(Request[e]) # {}
            /\ Advance(c, {e})
            /\ UNCHANGED <<nats, faults>>
         \/ /\ ValidateEvent(Request[e]) = {}
            /\ Publish(e)
            /\ Advance(c, {})
            /\ UNCHANGED faults
         \/ /\ ValidateEvent(Request[e]) = {}
            /\ faults < MaxFaults
            /\ faults' = faults + 1
            /\ Publish(e) \/ UNCHANGED nats
            /\ Advance(c, {e})

\* HandleBatch answers 202 whatever was rejected.
End(c) ==
  /\ c.next > Len(c.events)
  /\ Answer(c, 202)
  /\ UNCHANGED <<nats, faults>>

\* HandleEvent, for a client that posts one event: 400, 202, or 503 (or no
\* answer at all), after which the client may post the event again.
HandleEvent(e) ==
  /\ fate[e] \in {"new", "told"}
  /\ \/ /\ ValidateEvent(Request[e]) # {}
        /\ fate' = [fate EXCEPT ![e] = "malformed"]
        /\ UNCHANGED <<nats, faults>>
     \/ /\ ValidateEvent(Request[e]) = {}
        /\ Publish(e)
        /\ fate' = [fate EXCEPT ![e] = "accepted"]
        /\ UNCHANGED faults
     \/ /\ ValidateEvent(Request[e]) = {}
        /\ faults < MaxFaults
        /\ faults' = faults + 1
        /\ Publish(e) \/ UNCHANGED nats
        /\ fate' = [fate EXCEPT ![e] = "told"]
  /\ UNCHANGED <<sdk, threads, calls>>

WindowPasses ==
  /\ window # {}
  /\ windows < MaxWindows
  /\ window' = {}
  /\ windows' = windows + 1
  /\ UNCHANGED <<sdk, threads, calls, stream, faults, fate>>

ThreadStep(t) == Flush(t) \/ GetNowait(t) \/ SendBatch(t) \/ Post(t)
Serve == \E c \in calls : Begin(c) \/ HandleEach(c) \/ End(c)

Next ==
  \/ \E e \in Events : Track(e) \/ HandleEvent(e)
  \/ Check \/ Stop \/ Join \/ Close
  \/ \E t \in Threads : ThreadStep(t) \/ GiveUp(t)
  \/ \E c \in calls, status \in {400, 401, 429, 500} : Refuse(c, status)
  \/ Serve
  \/ WindowPasses

Spec == Init /\ [][Next]_vars

\* The threads are scheduled, waits and joins are bounded by timeouts, and
\* the server gets on with each request.
FairSpec ==
  /\ Spec
  /\ WF_vars(Check \/ ThreadStep("flusher"))
  /\ WF_vars(Join \/ Close \/ ThreadStep("caller"))
  /\ WF_vars(Serve)

(***************************************************************************)
(* Properties.                                                             *)
(***************************************************************************)
TypeOK ==
  /\ batchSize \in 1..MaxSdkBatch /\ maxRetries \in 0..MaxRetries
  /\ queue \in Seq(Events) /\ Len(queue) <= QueueCap
  /\ {stopEvent, authFailed, closed} \subseteq BOOLEAN
  /\ pc \in [Threads -> Control]
  /\ batch \in [Threads -> Seq(Events)]
  /\ attempt \in [Threads -> Nat]
  /\ \A c \in calls : c \in Call
  /\ stream \in Stored
  /\ window \subseteq Events
  /\ windows \in 0..MaxWindows /\ faults \in 0..MaxFaults
  /\ fate \in [Events -> Fates]

\* How often an event is in a sequence, and in the queue or a thread's batch.
In(e, s) == Cardinality({i \in DOMAIN s : s[i] = e})
Places(e) == In(e, queue) + In(e, batch["flusher"]) + In(e, batch["caller"])

\* While two threads drain the queue item by item and a third one tracks,
\* each event whose fate is open is in exactly one place, and no other event
\* is in any: nothing is sent by both threads, nothing slips between them.
HeldInOnePlace == \A e \in Events : Places(e) = IF fate[e] = "held" THEN 1 ELSE 0

\* An event that a client was told is accepted (202, and not among the
\* rejected ones of the body) is in the stream, whatever was retried,
\* refused, answered late or not at all before.
AcceptedIsStored ==
  \A e \in Events : fate[e] = "accepted" => stream[e].copies > 0

\* Retries and requests that outlive their client store an event twice only
\* if the Duplicates window of the stream passed in between.
DuplicatesNeedAWindow == \A e \in Events : stream[e].copies <= 1 + windows

\* What is stored passed the validation, carries no text over the limit, and
\* is marked for the S3 upload exactly when it carries a text; one malformed
\* event does not keep the others of its batch out (they can be accepted).
StoredIsValid ==
  \A e \in Events : stream[e].copies > 0 =>
    /\ ValidateEvent(Request[e]) = {}
    /\ LET m == stream[e].msg
       IN  /\ {m.prompt, m.response} \subseteq Text \ {"long"}
           /\ (m.s3_status = "pending") <=> ({m.prompt, m.response} # {"nil"})

\* shutdown() returns, although stop gives up waiting for the flush thread,
\* flushes itself and retries; and the flush thread ends, one way or another.
ShutdownCompletes ==
  stopEvent ~> (pc["caller"] = "done" /\ pc["flusher"] = "done")

\* An event queued before stop does not stay in the SDK for ever: some flush
\* takes it and learns its fate, unless the key was refused, after which
\* nothing is flushed any more.
QueuedIsSettled ==
  \A e \in Events :
    (fate[e] = "held" /\ ~stopEvent) ~> (fate[e] # "held" \/ authFailed)

(***************************************************************************)
(* The inductive invariant behind the safety properties.                   *)
(***************************************************************************)
\* A stored event has the message built from its request, which was valid.
MessagesBuilt ==
  \A e \in Events :
    /\ stream[e].msg = buildProtoEvent(Request[e])
    /\ stream[e].copies > 0 => ValidateEvent(Request[e]) = {}

\* An id in the Duplicates window is that of a stored message, and keeps the
\* next copy out; each copy beyond the first is paid by a window that passed.
CopiesPaid ==
  \A e \in Events : IF e \in window THEN stream[e].copies \in 1..(1 + windows)
                                     ELSE stream[e].copies \in 0..windows

\* HandleBatch has stored or rejected what its loop is past.
PastIsServed ==
  \A c \in calls : \A i \in DOMAIN c.events :
    i < c.next => c.events[i] \in c.rejected \/ stream[c.events[i]].copies > 0

IInv ==
  TypeOK /\ HeldInOnePlace /\ AcceptedIsStored /\ MessagesBuilt /\ CopiesPaid /\ PastIsServed
=============================================================================
