----------------------------- MODULE EventWorker -----------------------------
(***************************************************************************)
(* The worker process of server/cmd/worker: NATS consumers hand events to  *)
(* the BatchWriter, whose Flush inserts a batch into ClickHouse and then   *)
(* acknowledges its messages.  Flush runs in the ticker loop, in one       *)
(* goroutine per size trigger, and once more in Worker.Start on shutdown;  *)
(* bw.mu protects only the buffer, so any number of flushes overlap.       *)
(*                                                                         *)
(* The environment is the JetStream work-queue stream (redelivery after    *)
(* AckWait, MaxDeliver, MaxAckPending, lost acknowledgements, limits) and  *)
(* an insert that may fail, or report failure after it took effect.        *)
(***************************************************************************)
EXTENDS Integers, Sequences, FiniteSets

CONSTANTS
  Msgs,               \* messages that may be published (one per event)
  Undecodable,        \* those whose payload does not unmarshal
  Consumers,          \* workerCount goroutines of EventConsumer.Start
  AsyncFlushers,      \* bound: concurrent size-triggered flush goroutines
  Size,               \* estimateEventSize of each message
  BatchSize,          \* BatchWriter.batchSize
  MaxMemBytes,        \* BatchWriter.maxMemBytes
  FetchSize,          \* messages asked for by one Fetch (10 in the code)
  MaxDeliver,         \* consumer config: deliveries per message (5)
  MaxAckPending,      \* consumer config: unacknowledged deliveries (1000)
  MaxInsertFailures,  \* bound: inserts that return an error
  MaxStops,           \* bound: shutdowns and crashes
  MaxExpired          \* bound: messages dropped by the stream's limits

ASSUME MsgsAssumption == Undecodable \subseteq Msgs
ASSUME SizeAssumption == Size \in [Msgs -> Nat]
ASSUME LimitsAssumption ==
  /\ BatchSize \in Nat \ {0}
  /\ MaxMemBytes \in Nat \ {0}
  /\ FetchSize \in Nat \ {0}
  /\ MaxDeliver \in Nat \ {0}
  /\ MaxAckPending \in Nat \ {0}
ASSUME BoundsAssumption ==
  /\ MaxInsertFailures \in Nat
  /\ MaxStops \in Nat
  /\ MaxExpired \in Nat
ASSUME FlushersAssumption == AsyncFlushers \cap {"loop", "main"} = {}
ASSUME GoroutinesAssumption == IsFiniteSet(Consumers) /\ IsFiniteSet(AsyncFlushers)

VARIABLES
  \* the JetStream stream and its durable consumer
  published,    \* messages the stream ever accepted
  stream,       \* messages the stream keeps
  expired,      \* messages dropped by MaxAge or MaxBytes
  deliveries,   \* delivery count of each message
  outstanding,  \* delivered, not acknowledged, AckWait still running
  \* the worker process
  stage,        \* progress of Worker.Start and of its context
  quota,        \* messages the current Fetch of a consumer may still yield
  fetched,      \* messages waiting in the Fetch's channel
  buffer,       \* BatchWriter.buffer
  ackFuncs,     \* BatchWriter.ackFuncs: the message each closure acks
  memBytes,     \* BatchWriter.memBytes
  pc,           \* control state of each flush
  events,       \* the events a flush took from the buffer
  acks,         \* the ack functions a flush took, not yet called
  \* ClickHouse
  rows,         \* inserted rows of each message
  \* bounds
  failures,     \* inserts that returned an error
  timeouts,     \* those among them that took effect
  stops         \* shutdowns and crashes

natsVars == <<published, stream, expired, deliveries, outstanding>>
fetchVars == <<quota, fetched>>
bufferVars == <<buffer, ackFuncs, memBytes>>
flushVars == <<pc, events, acks>>
storeVars == <<rows, failures, timeouts>>
vars == <<natsVars, stage, fetchVars, bufferVars, flushVars, storeVars, stops>>

\* The goroutines that call Flush: the ticker loop of BatchWriter.Start, the
\* shutdown path of Worker.Start, and those handleMessage starts.
Flushers == {"loop", "main"} \cup AsyncFlushers

\* running: ctx is live.  cancelled: ctx is done, the loop has not noticed.
\* draining: the loop makes its final flush.  closing: Worker.Start makes its
\* own.  returned: Worker.Start has returned.  down: no process.
Stages == {"running", "cancelled", "draining", "closing", "returned", "down"}

stored == {m \in Msgs : rows[m] > 0}

\* The type of every variable but memBytes, whose exact value MemBytesExact states.
TypeOK ==
  /\ published \subseteq Msgs
  /\ stream \subseteq Msgs
  /\ expired \subseteq Msgs
  /\ deliveries \in [Msgs -> 0..MaxDeliver]
  /\ outstanding \subseteq Msgs
  /\ stage \in Stages
  /\ quota \in [Consumers -> 0..FetchSize]
  /\ fetched \in [Consumers -> Seq(Msgs)]
  /\ buffer \in Seq(Msgs)
  /\ ackFuncs \in Seq(Msgs)
  /\ pc \in [Flushers -> {"idle", "begin", "insert", "ack"}]
  /\ events \in [Flushers -> Seq(Msgs)]
  /\ acks \in [Flushers -> Seq(Msgs)]
  /\ rows \in [Msgs -> Nat]
  /\ failures \in Nat
  /\ timeouts \in Nat
  /\ stops \in Nat

Init ==
  /\ published = {}
  /\ stream = {}
  /\ expired = {}
  /\ deliveries = [m \in Msgs |-> 0]
  /\ outstanding = {}
  /\ stage = "running"
  /\ quota = [c \in Consumers |-> 0]
  /\ fetched = [c \in Consumers |-> <<>>]
  /\ buffer = <<>>
  /\ ackFuncs = <<>>
  /\ memBytes = 0
  /\ pc = [f \in Flushers |-> "idle"]
  /\ events = [f \in Flushers |-> <<>>]
  /\ acks = [f \in Flushers |-> <<>>]
  /\ rows = [m \in Msgs |-> 0]
  /\ failures = 0
  /\ timeouts = 0
  /\ stops = 0

-----------------------------------------------------------------------------
(* JetStream *)

Publish(m) ==
  /\ m \notin published
  /\ published' = published \cup {m}
  /\ stream' = stream \cup {m}
  /\ UNCHANGED <<expired, deliveries, outstanding, stage, fetchVars, bufferVars,
                 flushVars, storeVars, stops>>

Give(c, m) ==
  /\ quota[c] > 0
  /\ m \in stream \ outstanding
  /\ Cardinality(outstanding) < MaxAckPending
  /\ deliveries' = [deliveries EXCEPT ![m] = @ + 1]
  /\ outstanding' = outstanding \cup {m}
  /\ quota' = [quota EXCEPT ![c] = @ - 1]
  /\ fetched' = [fetched EXCEPT ![c] = Append(@, m)]
  /\ UNCHANGED <<published, stream, expired, stage, bufferVars, flushVars,
                 storeVars, stops>>

\* Mutant: the consumer is created without MaxDeliver.
DeliverWithoutLimit(c, m) == Give(c, m)

\* A message is given to a pending Fetch.  One whose AckWait ran out, or that
\* was NAKed, is given again until it has been delivered MaxDeliver times.
Deliver(c, m) == deliveries[m] < MaxDeliver /\ Give(c, m)

AckWaitExpire(m) ==
  /\ m \in outstanding
  /\ outstanding' = outstanding \ {m}
  /\ UNCHANGED <<published, stream, expired, deliveries, stage, fetchVars,
                 bufferVars, flushVars, storeVars, stops>>

\* MaxAge, or MaxBytes with DiscardOld, drops a message whatever its state.
StreamExpire(m) ==
  /\ m \in stream
  /\ Cardinality(expired) < MaxExpired
  /\ stream' = stream \ {m}
  /\ outstanding' = outstanding \ {m}
  /\ expired' = expired \cup {m}
  /\ UNCHANGED <<published, deliveries, stage, fetchVars, bufferVars, flushVars,
                 storeVars, stops>>

-----------------------------------------------------------------------------
(* EventConsumer.Start *)

\* The top of the loop: the context is looked at here and nowhere else.
Fetch(c) ==
  /\ stage = "running"
  /\ quota[c] = 0
  /\ fetched[c] = <<>>
  /\ quota' = [quota EXCEPT ![c] = FetchSize]
  /\ UNCHANGED <<natsVars, stage, fetched, bufferVars, flushVars, storeVars, stops>>

\* FetchMaxWait: the Fetch ends with what it has.
FetchEnd(c) ==
  /\ quota[c] > 0
  /\ quota' = [quota EXCEPT ![c] = 0]
  /\ UNCHANGED <<natsVars, stage, fetched, bufferVars, flushVars, storeVars, stops>>

\* A payload that does not unmarshal: Nak, the stream may deliver it again.
HandleUndecodable(c) ==
  /\ fetched[c] # <<>>
  /\ Head(fetched[c]) \in Undecodable
  /\ fetched' = [fetched EXCEPT ![c] = Tail(@)]
  /\ outstanding' = outstanding \ {Head(fetched[c])}
  /\ UNCHANGED <<published, stream, expired, deliveries, stage, quota, bufferVars,
                 flushVars, storeVars, stops>>

\* BatchWriter.Add
Add(m) ==
  /\ buffer' = Append(buffer, m)
  /\ ackFuncs' = Append(ackFuncs, m)
  /\ memBytes' = memBytes + Size[m]

\* BatchWriter.shouldFlush after an Add: firstAt was set by this very Add when
\* the buffer was empty, and may be any age otherwise.
ShouldFlush(elapsed) ==
  \/ Len(buffer') >= BatchSize
  \/ memBytes' >= MaxMemBytes
  \/ elapsed /\ buffer # <<>>

\* Mutant: the message is acknowledged once it is in the buffer.
HandleAndAck(c) ==
  /\ fetched[c] # <<>>
  /\ fetched' = [fetched EXCEPT ![c] = Tail(@)]
  /\ Add(Head(fetched[c]))
  /\ stream' = stream \ {Head(fetched[c])}
  /\ outstanding' = outstanding \ {Head(fetched[c])}
  /\ UNCHANGED <<published, expired, deliveries, stage, quota, flushVars, storeVars, stops>>

\* handleMessage: Add, and a goroutine that flushes when Add says so.
Handle(c) ==
  /\ fetched[c] # <<>>
  /\ Head(fetched[c]) \notin Undecodable
  /\ fetched' = [fetched EXCEPT ![c] = Tail(@)]
  /\ Add(Head(fetched[c]))
  /\ \E elapsed \in BOOLEAN :
       IF ShouldFlush(elapsed)
       THEN \E f \in AsyncFlushers : pc[f] = "idle" /\ pc' = [pc EXCEPT ![f] = "begin"]
       ELSE UNCHANGED pc
  /\ UNCHANGED <<natsVars, stage, quota, events, acks, storeVars, stops>>

-----------------------------------------------------------------------------
(* BatchWriter.Flush *)

\* The first critical section: take everything, or return on an empty buffer.
FlushEmpty(f) ==
  /\ pc[f] = "begin"
  /\ buffer = <<>>
  /\ pc' = [pc EXCEPT ![f] = "idle"]
  /\ UNCHANGED <<natsVars, stage, fetchVars, bufferVars, events, acks, storeVars, stops>>

FlushTake(f) ==
  /\ pc[f] = "begin"
  /\ buffer # <<>>
  /\ events' = [events EXCEPT ![f] = buffer]
  /\ acks' = [acks EXCEPT ![f] = ackFuncs]
  /\ buffer' = <<>>
  /\ ackFuncs' = <<>>
  /\ memBytes' = 0
  /\ pc' = [pc EXCEPT ![f] = "insert"]
  /\ UNCHANGED <<natsVars, stage, fetchVars, storeVars, stops>>

\* The rows a batch adds to the table, one per occurrence of a message.
Inserted(batch) ==
  [m \in Msgs |-> rows[m] + Cardinality({i \in DOMAIN batch : batch[i] = m})]

InsertOk(f) ==
  /\ pc[f] = "insert"
  /\ rows' = Inserted(events[f])
  /\ events' = [events EXCEPT ![f] = <<>>]
  /\ pc' = [pc EXCEPT ![f] = "ack"]
  /\ UNCHANGED <<natsVars, stage, fetchVars, bufferVars, acks, failures, timeouts, stops>>

\* The bytes put back with a failed batch.
Bytes(batch) ==
  LET upTo[n \in 0..Len(batch)] == IF n = 0 THEN 0 ELSE upTo[n - 1] + Size[batch[n]]
  IN  upTo[Len(batch)]

Release(f) ==
  /\ events' = [events EXCEPT ![f] = <<>>]
  /\ acks' = [acks EXCEPT ![f] = <<>>]
  /\ pc' = [pc EXCEPT ![f] = "idle"]

\* Mutants: the ack functions are not put back; the bytes are not counted
\* again; what was taken replaces what consumers have added since.
PutBackEventsOnly(f) ==
  /\ buffer' = events[f] \o buffer
  /\ memBytes' = memBytes + Bytes(events[f])
  /\ UNCHANGED ackFuncs
  /\ Release(f)

PutBackUncounted(f) ==
  /\ buffer' = events[f] \o buffer
  /\ ackFuncs' = acks[f] \o ackFuncs
  /\ UNCHANGED memBytes
  /\ Release(f)

PutBackOver(f) ==
  /\ buffer' = events[f]
  /\ ackFuncs' = acks[f]
  /\ memBytes' = Bytes(events[f])
  /\ Release(f)

\* The second critical section: what was taken goes back in front.
PutBack(f) ==
  /\ buffer' = events[f] \o buffer
  /\ ackFuncs' = acks[f] \o ackFuncs
  /\ memBytes' = memBytes + Bytes(events[f])
  /\ Release(f)

\* The loop's periodic flush runs under the worker's own context, so a shutdown
\* makes its insert fail; every other flush has a context of its own.
ContextCancelled(f) == f = "loop" /\ stage = "cancelled"

\* Mutant: the error is logged and the batch acknowledged all the same.
InsertFailAcked(f) ==
  /\ pc[f] = "insert"
  /\ failures < MaxInsertFailures
  /\ failures' = failures + 1
  /\ events' = [events EXCEPT ![f] = <<>>]
  /\ pc' = [pc EXCEPT ![f] = "ack"]
  /\ UNCHANGED <<natsVars, stage, fetchVars, bufferVars, acks, rows, timeouts, stops>>

InsertFail(f) ==
  /\ pc[f] = "insert"
  /\ \/ ContextCancelled(f) /\ UNCHANGED failures
     \/ failures < MaxInsertFailures /\ failures' = failures + 1
  /\ PutBack(f)
  /\ UNCHANGED <<natsVars, stage, fetchVars, rows, timeouts, stops>>

\* The insert took effect, and the caller got an error all the same.
InsertTimeout(f) ==
  /\ pc[f] = "insert"
  /\ failures < MaxInsertFailures
  /\ failures' = failures + 1
  /\ timeouts' = timeouts + 1
  /\ rows' = Inserted(events[f])
  /\ PutBack(f)
  /\ UNCHANGED <<natsVars, stage, fetchVars, stops>>

\* One turn of the ack loop.  Ack is a publish nobody confirms: it reaches the
\* stream or is lost, and Flush only logs the errors it sees.
Ack(f) ==
  /\ pc[f] = "ack"
  /\ acks[f] # <<>>
  /\ LET m == Head(acks[f]) IN
       \/ stream' = stream \ {m} /\ outstanding' = outstanding \ {m}
       \/ UNCHANGED <<stream, outstanding>>
  /\ acks' = [acks EXCEPT ![f] = Tail(@)]
  /\ UNCHANGED <<published, expired, deliveries, stage, fetchVars, bufferVars,
                 pc, events, storeVars, stops>>

FlushReturn(f) ==
  /\ pc[f] = "ack"
  /\ acks[f] = <<>>
  /\ pc' = [pc EXCEPT ![f] = "idle"]
  /\ UNCHANGED <<natsVars, stage, fetchVars, bufferVars, events, acks, storeVars, stops>>

-----------------------------------------------------------------------------
(* BatchWriter.Start and Worker.Start *)

WakeLoop ==
  /\ pc["loop"] = "idle"
  /\ pc' = [pc EXCEPT !["loop"] = "begin"]
  /\ UNCHANGED <<natsVars, fetchVars, bufferVars, events, acks, storeVars, stops>>

\* Mutant: the ticker flushes only a full batch.
TickWhenFull ==
  /\ stage \in {"running", "cancelled"}
  /\ Len(buffer) >= BatchSize
  /\ WakeLoop
  /\ UNCHANGED stage

\* select may still choose the ticker when ctx is done as well.
Tick ==
  /\ stage \in {"running", "cancelled"}
  /\ WakeLoop
  /\ UNCHANGED stage

Cancel ==
  /\ stage = "running"
  /\ stops < MaxStops
  /\ stops' = stops + 1
  /\ stage' = "cancelled"
  /\ UNCHANGED <<natsVars, fetchVars, bufferVars, flushVars, storeVars>>

LoopFinalFlush ==
  /\ stage = "cancelled"
  /\ WakeLoop
  /\ stage' = "draining"

\* bwDone.Wait returns; Worker.Start flushes what arrived since.
MainFinalFlush ==
  /\ stage = "draining"
  /\ pc["loop"] = "idle"
  /\ stage' = "closing"
  /\ pc' = [pc EXCEPT !["main"] = "begin"]
  /\ UNCHANGED <<natsVars, fetchVars, bufferVars, events, acks, storeVars, stops>>

Finish ==
  /\ stage = "closing"
  /\ pc["main"] = "idle"
  /\ stage' = "returned"
  /\ UNCHANGED <<natsVars, fetchVars, bufferVars, flushVars, storeVars, stops>>

\* Mutant: Worker.Start waits until the buffer is empty, which no flush ensures.
ReturnWhenDrained == buffer = <<>> /\ Finish

\* Nothing waits for the consumers or for the size-triggered flushes.
Return == Finish

\* The process is gone with all its memory.
Die ==
  /\ stage' = "down"
  /\ quota' = [c \in Consumers |-> 0]
  /\ fetched' = [c \in Consumers |-> <<>>]
  /\ buffer' = <<>>
  /\ ackFuncs' = <<>>
  /\ memBytes' = 0
  /\ pc' = [f \in Flushers |-> "idle"]
  /\ events' = [f \in Flushers |-> <<>>]
  /\ acks' = [f \in Flushers |-> <<>>]
  /\ UNCHANGED <<natsVars, storeVars>>

Exit ==
  /\ stage = "returned"
  /\ Die
  /\ UNCHANGED stops

Crash ==
  /\ stage # "down"
  /\ stops < MaxStops
  /\ stops' = stops + 1
  /\ Die

Restart ==
  /\ stage = "down"
  /\ stage' = "running"
  /\ UNCHANGED <<natsVars, fetchVars, bufferVars, flushVars, storeVars, stops>>

-----------------------------------------------------------------------------
Flush(f) ==
  \/ FlushEmpty(f)
  \/ FlushTake(f)
  \/ InsertOk(f)
  \/ InsertFail(f)
  \/ InsertTimeout(f)
  \/ Ack(f)
  \/ FlushReturn(f)

Consume(c) == Fetch(c) \/ FetchEnd(c) \/ HandleUndecodable(c) \/ Handle(c)

Shutdown == LoopFinalFlush \/ MainFinalFlush \/ Return \/ Exit

Next ==
  \/ \E m \in Msgs : Publish(m) \/ AckWaitExpire(m) \/ StreamExpire(m)
  \/ \E c \in Consumers, m \in Msgs : Deliver(c, m)
  \/ \E c \in Consumers : Consume(c)
  \/ \E f \in Flushers : Flush(f)
  \/ Tick
  \/ Shutdown
  \/ Cancel
  \/ Crash
  \/ Restart

Spec == Init /\ [][Next]_vars

-----------------------------------------------------------------------------
(* Fairness *)

\* Every goroutine keeps running, the ticker keeps firing, the stream's timers
\* run out, and a supervisor restarts the process.  A message that is again and
\* again deliverable is delivered, and a select with both channels ready chooses
\* each of them sooner or later: these two need strong fairness.
Fairness ==
  /\ \A c \in Consumers : WF_vars(Consume(c))
  /\ \A m \in Msgs : WF_vars(AckWaitExpire(m))
  /\ \A m \in Msgs : SF_vars(\E c \in Consumers : Deliver(c, m))
  /\ \A f \in Flushers : WF_vars(Flush(f))
  /\ WF_vars(Tick)
  /\ SF_vars(LoopFinalFlush)
  /\ WF_vars(MainFinalFlush \/ Return \/ Exit)
  /\ WF_vars(Restart)

FairSpec == Spec /\ Fairness
-----------------------------------------------------------------------------
(* Properties *)

Held(seq) == {seq[i] : i \in DOMAIN seq}

\* Messages the process holds between unmarshalling and the insert.
InMemory == Held(buffer) \cup UNION {Held(events[f]) : f \in Flushers}

\* Copies of m in a sequence, in all sequences of a function, and in the whole process.
Positions(seq, m) == {i \in DOMAIN seq : seq[i] = m}
Places(seqs, m) == UNION {{<<x, i>> : i \in Positions(seqs[x], m)} : x \in DOMAIN seqs}
Copies(seq, m) == Cardinality(Positions(seq, m))

CopiesInProcess(m) ==
  Copies(buffer, m) + Cardinality(Places(events, m)) + Cardinality(Places(fetched, m))

\* Whatever fails, crashes or is redelivered, a published event is still in the
\* stream, or in the table, or was dropped by the stream's own limits: Flush
\* acknowledges only after InsertEvents succeeded (batchwriter.go:89-108).
NoEventLost == published \subseteq stream \cup stored \cup expired

\* The two slices of the BatchWriter stay aligned through every Add, take and
\* put-back of overlapping flushes, so a flush acknowledges the very messages it
\* inserted; and the messages it has yet to acknowledge are in the table.
AcksMatchEvents ==
  /\ ackFuncs = buffer
  /\ \A f \in Flushers :
       /\ pc[f] = "insert" => acks[f] = events[f]
       /\ pc[f] # "insert" => events[f] = <<>>
       /\ pc[f] = "ack" => Held(acks[f]) \subseteq stored
       /\ pc[f] \in {"idle", "begin"} => acks[f] = <<>>

\* memBytes, which Flush resets and a failed insert restores under a lock taken
\* twice, is always the size of what the buffer holds: the memory trigger of
\* shouldFlush neither drifts up (flush on every Add) nor down (never).
MemBytesExact == memBytes = Bytes(buffer)

\* Every row of a message is owed to one of its deliveries, or to an insert that
\* took effect and reported an error.  While the process lives and no insert
\* does that, each delivery of a decodable message is exactly one row or one
\* copy on its way: overlapping flushes neither lose a copy nor insert it twice.
RowsExplained ==
  \A m \in Msgs :
    /\ rows[m] + CopiesInProcess(m) <= deliveries[m] * (1 + timeouts)
    /\ (m \notin Undecodable /\ stops = 0 /\ timeouts = 0) =>
         rows[m] + CopiesInProcess(m) = deliveries[m]

\* The worker implements the delivery promise: a step of it stores published
\* messages, removes a stored message from the stream, or is invisible.
Delivery == INSTANCE EventDelivery WITH stored <- stored
DeliverySpec == Delivery!Spec

\* While the process is left alone, every published event that unmarshals reaches the table
\* (unless the stream drops it first): the size trigger may never fire, as
\* MaxAckPending is below BatchSize, and failed inserts are retried.
EventuallyStored ==
  [](stops = 0) =>
    \A m \in Msgs \ Undecodable : m \in published ~> m \in stored \cup expired

\* With shutdowns and crashes in between, an event is stored in the end or has
\* used up its MaxDeliver deliveries.
EventuallyStoredOrSpent ==
  \A m \in Msgs \ Undecodable :
    m \in published ~> (m \in stored \cup expired \/ deliveries[m] = MaxDeliver)

\* A shutdown always completes, whatever the flushes in flight do.
ShutdownCompletes == stage = "cancelled" ~> stage = "down"

\* A message the stream will not deliver again and nobody holds.
Stranded(m) ==
  /\ m \in stream
  /\ deliveries[m] = MaxDeliver
  /\ m \notin stored \cup outstanding \cup InMemory
  /\ \A c \in Consumers : m \notin Held(fetched[c])

\* What the dead letter queue is for (nats/setup.go:77, consumer.go:87): a
\* message that could not be processed does not just stay behind.
NoMessageStranded == \A m \in Msgs : ~Stranded(m)

\* Nothing is held that was not published.
OnlyPublished ==
  /\ stream \subseteq published
  /\ InMemory \subseteq published
  /\ \A c \in Consumers : Held(fetched[c]) \subseteq published

\* Worker.Start flushes by itself only once the loop has made its last flush.
MainFlushesLast == stage # "closing" => pc["main"] = "idle"

\* A process that is not running was told to stop, or crashed.
StopsCounted == stage # "running" => stops > 0

\* The copies in the process are owed to deliveries, so a failed insert adds at
\* most one row per delivery.
CopiesOwed == \A m \in Msgs : CopiesInProcess(m) <= deliveries[m]

\* The inductive invariant behind NoEventLost and DeliverySpec.
IInv ==
  /\ TypeOK
  /\ MainFlushesLast
  /\ AcksMatchEvents
  /\ OnlyPublished
  /\ NoEventLost

=============================================================================
