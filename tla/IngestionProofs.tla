--------------------------- MODULE IngestionProofs ---------------------------
(***************************************************************************)
(* Ingestion for any events and requests, any sizes of queue and batches,  *)
(* and any number of retries, failures and windows: an event is in one     *)
(* place of the SDK, what was accepted is stored, what is stored is valid, *)
(* and duplicates need a window that passed.                               *)
(***************************************************************************)
EXTENDS Ingestion, FiniteSetTheorems, SequenceTheorems, TLAPS

\* How often an event is in a sequence.
LEMMA InType ==
  ASSUME NEW S, NEW s \in Seq(S), NEW e
  PROVE  In(e, s) \in Nat /\ IsFiniteSet({i \in DOMAIN s : s[i] = e})
<1>1. DOMAIN s = 1..Len(s) /\ Len(s) \in Nat
  OBVIOUS
<1>2. IsFiniteSet(DOMAIN s)
  BY <1>1, FS_Interval
<1> QED
  BY <1>2, FS_Subset, FS_CardinalityType DEF In

\* The empty sequence has no place for an event.
LEMMA InEmpty == \A e : In(e, <<>>) = 0
<1>1. \A e : {i \in DOMAIN <<>> : <<>>[i] = e} = {}
  OBVIOUS
<1> QED
  BY <1>1, FS_EmptySet DEF In

\* An event that is in a sequence counts, and one that is not does not.
LEMMA InMember ==
  ASSUME NEW S, NEW s \in Seq(S), NEW e
  PROVE  In(e, s) > 0 <=> e \in ToSet(s)
<1> DEFINE I == {i \in DOMAIN s : s[i] = e}
<1>1. IsFiniteSet(I) /\ In(e, s) = Cardinality(I) /\ In(e, s) \in Nat
  BY InType DEF In
<1>2. In(e, s) = 0 <=> I = {}
  BY <1>1, FS_EmptySet
<1>3. I = {} <=> e \notin ToSet(s)
  BY DEF ToSet
<1> QED
  BY <1>1, <1>2, <1>3

\* Append adds one place of its element.
LEMMA InAppend ==
  ASSUME NEW S, NEW s \in Seq(S), NEW x \in S, NEW e
  PROVE  In(e, Append(s, x)) = In(e, s) + (IF x = e THEN 1 ELSE 0)
<1> DEFINE I == {i \in DOMAIN s : s[i] = e}
           J == {i \in DOMAIN Append(s, x) : Append(s, x)[i] = e}
           n == Len(s) + 1
<1>1. IsFiniteSet(I) /\ Cardinality(I) \in Nat
  BY InType DEF In
<1>2. n \notin I
  OBVIOUS
<1>3. J = IF x = e THEN I \union {n} ELSE I
  OBVIOUS
<1>4. Cardinality(I \union {n}) = Cardinality(I) + 1
  BY <1>1, <1>2, FS_AddElement
<1>5. In(e, s) = Cardinality(I) /\ In(e, Append(s, x)) = Cardinality(J)
  BY DEF In
<1> HIDE DEF I, J, n
<1> QED
  BY <1>1, <1>3, <1>4, <1>5

\* Taking the head takes one place of it.
LEMMA InTail ==
  ASSUME NEW S, NEW s \in Seq(S), s # <<>>, NEW e
  PROVE  In(e, s) = In(e, Tail(s)) + (IF Head(s) = e THEN 1 ELSE 0)
<1> DEFINE I == {i \in DOMAIN s : s[i] = e}
           J == {i \in DOMAIN Tail(s) : Tail(s)[i] = e}
           K == I \ {1}
           shift == [i \in J |-> i + 1]
<1>1. /\ DOMAIN s = 1..Len(s) /\ Len(s) \in Nat /\ Len(s) > 0 /\ Head(s) = s[1]
      /\ DOMAIN Tail(s) = 1..(Len(s) - 1) /\ \A i \in 1..(Len(s) - 1) : Tail(s)[i] = s[i + 1]
      /\ Tail(s) \in Seq(S)
  OBVIOUS
<1>2. IsFiniteSet(I) /\ IsFiniteSet(J) /\ Cardinality(I) \in Nat /\ Cardinality(J) \in Nat
  BY <1>1, InType DEF In
<1>3. shift \in Bijection(J, K)
  <2>1. \A i \in J : i + 1 \in K
    BY <1>1
  <2>2. \A k \in K : k - 1 \in J /\ (k - 1) + 1 = k
    BY <1>1
  <2>3. \A i, j \in J : shift[i] = shift[j] => i = j
    BY <1>1
  <2> HIDE DEF J, K
  <2>4. shift \in [J -> K]
    BY <2>1
  <2>5. \A k \in K : \E i \in J : shift[i] = k
    BY <2>2
  <2> QED
    BY <2>3, <2>4, <2>5 DEF Bijection, Injection, Surjection, IsInjective
<1>4. Cardinality(K) = Cardinality(J)
  BY <1>2, <1>3, FS_Bijection DEF ExistsBijection
<1>5. Cardinality(K) = IF 1 \in I THEN Cardinality(I) - 1 ELSE Cardinality(I)
  BY <1>2, FS_RemoveElement
<1>6. 1 \in I <=> Head(s) = e
  BY <1>1
<1>7. In(e, s) = Cardinality(I) /\ In(e, Tail(s)) = Cardinality(J)
  BY DEF In
<1> HIDE DEF I, J, K
<1> QED
  BY <1>2, <1>4, <1>5, <1>6, <1>7

\* A thread is through with its batch: it is empty, and each of its events
\* has a fate.
Settles(t) ==
  /\ batch' = [batch EXCEPT ![t] = << >>]
  /\ \E outcome \in [Events -> Fates \ {"held"}] :
       fate' = [e \in Events |-> IF e \in ToSet(batch[t]) THEN outcome[e] ELSE fate[e]]

\* What a thread may do to the batches and fates when it ends a request.
Reacts(t) == UNCHANGED <<batch, fate>> \/ Settles(t)

ThreadTypes == pc' \in [Threads -> Control] /\ attempt' \in [Threads -> Nat]
NoneAccepted == \A e \in Events : fate'[e] = "accepted" => fate[e] = "accepted"

\* Settle ends a batch of its thread and gives its events a fate.
LEMMA Settled ==
  ASSUME TypeOK, NEW t \in Threads, NEW outcome \in [Events -> Fates \ {"held"}],
         NEW label \in Control, Settle(t, outcome, label)
  PROVE  ThreadTypes /\ Settles(t)
<1>1. pc' = [pc EXCEPT ![t] = label] /\ attempt' = [attempt EXCEPT ![t] = 0]
  BY DEF Settle, Goto
<1>2. ThreadTypes
  BY <1>1 DEF TypeOK, ThreadTypes
<1>3. Settles(t)
  BY DEF Settle, Settles
<1> QED
  BY <1>2, <1>3

\* A batch dropped, or refused: none of its events is accepted.
LEMMA Dropped ==
  ASSUME TypeOK, NEW t \in Threads, NEW f \in Fates \ {"held", "accepted"},
         NEW label \in Control, Settle(t, All(f), label)
  PROVE  ThreadTypes /\ Settles(t) /\ NoneAccepted
<1>1. All(f) \in [Events -> Fates \ {"held"}] /\ \A e \in Events : All(f)[e] # "accepted"
  BY DEF All
<1>2. NoneAccepted
  BY <1>1 DEF Settle, NoneAccepted
<1> QED
  BY <1>1, <1>2, Settled

\* A retry posts the same batch again or gives it up.
LEMMA Retried ==
  ASSUME TypeOK, NEW t \in Threads, Retry(t)
  PROVE  ThreadTypes /\ Reacts(t) /\ NoneAccepted
<1>1. CASE attempt[t] < maxRetries
  <2>1. /\ attempt' = [attempt EXCEPT ![t] = @ + 1] /\ pc' = [pc EXCEPT ![t] = "post"]
        /\ UNCHANGED <<batch, fate>>
    BY <1>1 DEF Retry, Goto
  <2>2. ThreadTypes
    BY <2>1 DEF TypeOK, Control, ThreadTypes
  <2> QED
    BY <2>1, <2>2 DEF Reacts, NoneAccepted
<1>2. CASE ~(attempt[t] < maxRetries)
  BY <1>2, Dropped DEF Retry, Fates, Control, Reacts
<1> QED
  BY <1>1, <1>2

\* An answer accepts events only with 202, and only those not rejected.
LEMMA AnswerReacts ==
  ASSUME TypeOK, NEW c \in calls, NEW status \in {202, 400, 401, 429, 500}, Answer(c, status)
  PROVE  /\ ThreadTypes /\ Reacts(c.from) /\ authFailed' \in BOOLEAN /\ c.from \in Threads
         /\ calls' = calls \ {c} /\ UNCHANGED <<batchSize, maxRetries, queue, stopEvent, closed>>
         /\ \A e \in Events : fate'[e] = "accepted" =>
              fate[e] = "accepted" \/ (status = 202 /\ e \in ToSet(c.events) /\ e \notin c.rejected)
<1> DEFINE Accepts == \A e \in Events : fate'[e] = "accepted" =>
             fate[e] = "accepted" \/ (status = 202 /\ e \in ToSet(c.events) /\ e \notin c.rejected)
<1>1. c.from \in Threads /\ authFailed \in BOOLEAN
  BY DEF TypeOK, Call
<1>2. calls' = calls \ {c} /\ UNCHANGED <<batchSize, maxRetries, queue, stopEvent, closed>>
  BY DEF Answer
<1>3. CASE ~Awaited(c)
  <2>1. UNCHANGED <<authFailed, pc, batch, attempt, fate>>
    BY <1>3 DEF Answer, threads
  <2> QED
    BY <1>1, <1>2, <2>1 DEF ThreadTypes, Reacts, TypeOK
<1>4. CASE Awaited(c)
  <2>1. OnStatus(c.from, status, c.rejected) /\ batch[c.from] = c.events
    BY <1>4 DEF Answer, Awaited
  <2>2. authFailed' \in BOOLEAN
    BY <1>1, <2>1 DEF OnStatus
  <2>3. CASE status = 202
    <3> DEFINE outcome == [e \in Events |-> IF e \in c.rejected THEN "rejected" ELSE "accepted"]
    <3>1. Settle(c.from, outcome, "drain")
      BY <2>1, <2>3 DEF OnStatus
    <3>2. outcome \in [Events -> Fates \ {"held"}] /\ "drain" \in Control
      BY DEF Fates, Control
    <3>3. ThreadTypes /\ Settles(c.from)
      BY <1>1, <3>1, <3>2, Settled
    <3>4. Accepts
      BY <2>1, <2>3, <3>1 DEF Settle
    <3> QED
      BY <1>1, <1>2, <2>2, <3>3, <3>4 DEF Reacts
  <2>4. CASE status # 202
    <3>1. \/ Settle(c.from, All("bad_request"), "drain")
          \/ Settle(c.from, All("unauthorized"), "drain")
          \/ Retry(c.from)
      BY <2>1, <2>4 DEF OnStatus
    <3>2. {"bad_request", "unauthorized"} \subseteq Fates \ {"held", "accepted"} /\ "drain" \in Control
      BY DEF Fates, Control
    <3>3. ThreadTypes /\ Reacts(c.from) /\ NoneAccepted
      BY <1>1, <3>1, <3>2, Dropped, Retried DEF Reacts
    <3> QED
      BY <1>1, <1>2, <2>2, <3>3 DEF NoneAccepted
  <2> QED
    BY <2>3, <2>4
<1> QED
  BY <1>3, <1>4

\* Publish adds a copy of the event unless its id is in the window.
LEMMA Published ==
  ASSUME TypeOK, NEW e \in Events, Publish(e)
  PROVE  /\ stream' \in Stored /\ window' = window \union {e} /\ windows' = windows
         /\ \A d \in Events :
              /\ stream'[d].msg = stream[d].msg
              /\ stream'[d].copies = stream[d].copies + (IF d = e /\ e \notin window THEN 1 ELSE 0)
<1>1. \A d \in Events : stream[d] \in [copies: Nat, msg: LLMEvent]
  BY DEF TypeOK, Stored
<1>2. CASE e \in window
  BY <1>1, <1>2 DEF Publish, TypeOK
<1>3. CASE e \notin window
  <2> DEFINE r == [stream[e] EXCEPT !.copies = @ + 1]
  <2>1. r \in [copies: Nat, msg: LLMEvent] /\ r.copies = stream[e].copies + 1 /\ r.msg = stream[e].msg
    BY <1>1
  <2>2. stream' = [stream EXCEPT ![e] = r]
    BY <1>3 DEF Publish
  <2> HIDE DEF r
  <2>3. \A d \in Events : stream'[d] = IF d = e THEN r ELSE stream[d]
    BY <2>2 DEF TypeOK, Stored
  <2>4. stream' \in Stored
    BY <2>1, <2>2 DEF TypeOK, Stored
  <2> QED
    BY <1>1, <1>3, <2>1, <2>3, <2>4 DEF Publish
<1> QED
  BY <1>2, <1>3

\* What a publish does to the stream, or a step that is no publish.
Streams ==
  \/ UNCHANGED <<stream, window, windows>>
  \/ \E e \in Events : ValidateEvent(Request[e]) = {} /\ Publish(e)

USE DEF Goto, sdk, threads, nats

\* HandleEach and HandleEvent publish valid events only; the others, or a
\* failed publish, are rejected.
LEMMA EachReacts ==
  ASSUME TypeOK, NEW c \in calls, HandleEach(c)
  PROVE  /\ c.next \in 1..Len(c.events) /\ c.events[c.next] \in Events
         /\ Streams
         /\ UNCHANGED <<batchSize, maxRetries, queue, stopEvent, authFailed, closed, pc, batch, attempt, fate>>
         /\ faults' \in 0..MaxFaults
         /\ \E rejected \in {{}, {c.events[c.next]}} :
              /\ calls' = (calls \ {c}) \union {[c EXCEPT !.next = @ + 1, !.rejected = @ \union rejected]}
              /\ rejected = {} => Publish(c.events[c.next])
<1>1. c \in Call /\ c.next \in 1..Len(c.events)
  BY DEF TypeOK, HandleEach
<1>2. c.events[c.next] \in Events
  BY <1>1 DEF Call
<1> DEFINE e == c.events[c.next]
<1>3. PICK rejected \in {{}, {e}} :
        Advance(c, rejected) /\ (rejected = {} => Publish(e))
  BY DEF HandleEach
<1>4. Streams
  BY <1>2 DEF HandleEach, Streams
<1>5. faults' \in 0..MaxFaults
  BY IngestionBounds DEF HandleEach, TypeOK
<1> QED
  BY <1>1, <1>2, <1>3, <1>4, <1>5 DEF Advance

\* An event sent by another client is stored before it is accepted.
LEMMA EventReacts ==
  ASSUME TypeOK, NEW e \in Events, HandleEvent(e)
  PROVE  /\ Streams /\ UNCHANGED <<sdk, threads, calls>>
         /\ fate[e] # "held"
         /\ faults' \in 0..MaxFaults
         /\ \E f \in Fates \ {"held"} : fate' = [fate EXCEPT ![e] = f] /\ (f = "accepted" => Publish(e))
<1>1. Streams
  BY DEF HandleEvent, Streams
<1>2. faults' \in 0..MaxFaults
  BY IngestionBounds DEF HandleEvent, TypeOK
<1>3. \E f \in {"malformed", "accepted", "told"} :
        fate' = [fate EXCEPT ![e] = f] /\ (f = "accepted" => Publish(e))
  BY DEF HandleEvent
<1>4. {"malformed", "accepted", "told"} \subseteq Fates \ {"held"}
  BY DEF Fates
<1> QED
  BY <1>1, <1>2, <1>3, <1>4 DEF HandleEvent

\* The types: each part of the state.
LEMMA StreamTypes ==
  TypeOK /\ Streams => stream' \in Stored /\ window' \subseteq Events /\ windows' \in 0..MaxWindows
BY Published DEF Streams, TypeOK

\* What a thread makes of an answer keeps the types.
LEMMA ReactTypes ==
  ASSUME TypeOK, NEW t \in Threads, Reacts(t)
  PROVE  batch' \in [Threads -> Seq(Events)] /\ fate' \in [Events -> Fates]
<1>1. CASE UNCHANGED <<batch, fate>>
  BY <1>1 DEF TypeOK
<1>2. CASE Settles(t)
  <2>1. PICK outcome \in [Events -> Fates \ {"held"}] :
          fate' = [e \in Events |-> IF e \in ToSet(batch[t]) THEN outcome[e] ELSE fate[e]]
    BY <1>2 DEF Settles
  <2>2. fate' \in [Events -> Fates]
    BY <2>1 DEF TypeOK
  <2>3. <<>> \in Seq(Events) /\ batch' = [batch EXCEPT ![t] = << >>]
    BY <1>2 DEF Settles
  <2> QED
    BY <2>2, <2>3 DEF TypeOK
<1> QED
  BY <1>1, <1>2 DEF Reacts

\* _send_batch before and after a request: no event is accepted by it.
LEMMA SendReacts ==
  ASSUME TypeOK, NEW t \in Threads, SendBatch(t) \/ Post(t) \/ GiveUp(t)
  PROVE  /\ ThreadTypes /\ Reacts(t) /\ NoneAccepted /\ UNCHANGED <<sdk, nats>>
         /\ faults' \in 0..MaxFaults
         /\ calls' = calls \/ calls' = calls \union {NewCall(t, batch[t], attempt[t])}
<1>1. CASE GiveUp(t)
  BY <1>1, Retried, IngestionBounds DEF GiveUp, TypeOK
<1>2. CASE SendBatch(t)
  <2>1. CASE batch[t] # << >> /\ authFailed
    <3>1. Settle(t, All("unauthorized"), "drain")
      BY <1>2, <2>1 DEF SendBatch
    <3> QED
      BY <1>2, <3>1, Dropped DEF SendBatch, Fates, Control, Reacts, TypeOK
  <2>2. CASE ~(batch[t] # << >> /\ authFailed)
    <3>1. pc' = [pc EXCEPT ![t] = IF batch[t] = << >> THEN AfterFlush(t) ELSE "post"]
          /\ UNCHANGED <<batch, attempt, fate>>
      BY <1>2, <2>2 DEF SendBatch
    <3>2. ThreadTypes
      BY <3>1 DEF AfterFlush, Control, ThreadTypes, TypeOK
    <3> QED
      BY <1>2, <3>1, <3>2 DEF SendBatch, Reacts, NoneAccepted, TypeOK
  <2> QED
    BY <2>1, <2>2
<1>3. CASE Post(t)
  <2>1. CASE closed
    <3>1. Settle(t, All("unsent"), "done") /\ UNCHANGED <<calls, sdk, nats, faults>>
      BY <1>3, <2>1 DEF Post
    <3> QED
      BY <3>1, Dropped DEF Fates, Control, Reacts, TypeOK
  <2>2. CASE ~closed
    <3>1. /\ pc' = [pc EXCEPT ![t] = "waiting"] /\ UNCHANGED <<batch, attempt, fate, sdk, nats, faults>>
          /\ calls' = calls \union {NewCall(t, batch[t], attempt[t])}
      BY <1>3, <2>2 DEF Post
    <3>2. ThreadTypes
      BY <3>1 DEF Control, ThreadTypes, TypeOK
    <3> QED
      BY <3>1, <3>2 DEF Reacts, NoneAccepted, TypeOK
  <2> QED
    BY <2>1, <2>2
<1> QED
  BY <1>1, <1>2, <1>3

\* The server's answers: the middleware's, that of ValidateBatch and 202.
Answers(c, status) ==
  /\ Answer(c, status) /\ UNCHANGED nats
  /\ status = 202 => c.next > Len(c.events)

\* What the server makes of a request, its loop apart.
LEMMA ServeReacts ==
  ASSUME TypeOK, NEW c \in calls,
         Begin(c) \/ End(c) \/ \E status \in {400, 401, 429, 500} : Refuse(c, status)
  PROVE  /\ faults' \in 0..MaxFaults
         /\ \/ \E status \in {202, 400, 401, 429, 500} : Answers(c, status)
            \/ /\ calls' = (calls \ {c}) \union {[c EXCEPT !.next = 1]} /\ c.next = 0
               /\ UNCHANGED <<sdk, threads, fate, nats>>
<1>1. faults' \in 0..MaxFaults
  BY IngestionBounds DEF Begin, End, Refuse, TypeOK
<1>2. CASE Begin(c)
  BY <1>1, <1>2 DEF Begin, Answers
<1>3. CASE End(c)
  BY <1>1, <1>3 DEF End, Answers
<1>4. ASSUME NEW status \in {400, 401, 429, 500}, Refuse(c, status)
      PROVE \E s \in {202, 400, 401, 429, 500} : Answers(c, s)
  BY <1>4 DEF Refuse, Answers
<1> QED
  BY <1>1, <1>2, <1>3, <1>4

\* The flush thread's loop test, and the steps of stop().
Controls == Check \/ Stop \/ Join \/ Close \/ \E t \in Threads : Flush(t)

\* Steps that only move a thread on keep the types and the events.
LEMMA ControlTypes ==
  ASSUME TypeOK, Controls
  PROVE  /\ ThreadTypes /\ {stopEvent', authFailed', closed'} \subseteq BOOLEAN
         /\ UNCHANGED <<batchSize, maxRetries, queue, batch, calls, nats, faults, fate>>
<1>1. pc' \in [Threads -> Control]
  BY DEF Controls, Check, Stop, Join, Close, Flush, AfterFlush, Control, TypeOK
<1>2. {stopEvent', authFailed', closed'} \subseteq BOOLEAN
  BY DEF Controls, Check, Stop, Join, Close, Flush, TypeOK
<1>3. UNCHANGED <<batchSize, maxRetries, queue, batch, attempt, calls, nats, faults, fate>>
  BY DEF Controls, Check, Stop, Join, Close, Flush
<1> QED
  BY <1>1, <1>2, <1>3 DEF ThreadTypes, TypeOK

\* Types: the queue within its limit, the batches and calls of events.
LEMMA TypeStep == TypeOK /\ [Next]_vars => TypeOK'
<1> SUFFICES ASSUME TypeOK, [Next]_vars PROVE TypeOK'
  OBVIOUS
<1>1. ASSUME NEW e \in Events, Track(e) PROVE TypeOK'
  <2>1. queue' \in Seq(Events) /\ Len(queue') <= QueueCap
    <3>1. queue' = queue \/ (queue' = Append(queue, e) /\ Len(queue) < QueueCap)
      BY <1>1 DEF Track
    <3>2. queue \in Seq(Events) /\ Len(queue) <= QueueCap /\ QueueCap \in Nat
      BY SizesAssumption DEF TypeOK
    <3>3. Append(queue, e) \in Seq(Events) /\ Len(Append(queue, e)) = Len(queue) + 1 /\ Len(queue) \in Nat
      BY <3>2
    <3> QED
      BY <3>1, <3>2, <3>3
  <2>2. fate' \in [Events -> Fates]
    BY <1>1 DEF Track, TypeOK, Fates
  <2> QED
    BY <1>1, <2>1, <2>2 DEF Track, TypeOK
<1>2. ASSUME NEW e \in Events, HandleEvent(e) PROVE TypeOK'
  <2>1. fate' \in [Events -> Fates]
    BY <1>2, EventReacts DEF TypeOK
  <2>2. stream' \in Stored /\ window' \subseteq Events /\ windows' \in 0..MaxWindows
    BY <1>2, EventReacts, StreamTypes
  <2>3. faults' \in 0..MaxFaults /\ UNCHANGED <<sdk, threads, calls>>
    BY <1>2, EventReacts
  <2> QED
    BY <2>1, <2>2, <2>3 DEF TypeOK
<1>3. CASE Controls
  BY <1>3, ControlTypes DEF TypeOK, ThreadTypes
<1>4. ASSUME NEW t \in Threads, GetNowait(t) PROVE TypeOK'
  <2>1. /\ queue # << >> /\ batch' = [batch EXCEPT ![t] = Append(batch[t], Head(queue))]
        /\ queue' = Tail(queue)
    BY <1>4 DEF GetNowait
  <2>2. queue \in Seq(Events) /\ batch[t] \in Seq(Events) /\ Len(queue) <= QueueCap
    BY DEF TypeOK
  <2>3. queue' \in Seq(Events) /\ Len(queue') <= QueueCap /\ Append(batch[t], Head(queue)) \in Seq(Events)
    BY <2>1, <2>2, SizesAssumption
  <2>4. batch' \in [Threads -> Seq(Events)]
    BY <2>1, <2>3 DEF TypeOK
  <2> QED
    BY <1>4, <2>3, <2>4 DEF GetNowait, TypeOK
<1>5. ASSUME NEW t \in Threads, SendBatch(t) \/ Post(t) \/ GiveUp(t) PROVE TypeOK'
  <2>1. NewCall(t, batch[t], attempt[t]) \in Call
    BY DEF NewCall, Call, TypeOK
  <2>2. \A c \in calls' : c \in Call
    BY <1>5, <2>1, SendReacts DEF TypeOK
  <2>3. batch' \in [Threads -> Seq(Events)] /\ fate' \in [Events -> Fates]
    BY <1>5, SendReacts, ReactTypes
  <2> QED
    BY <1>5, <2>2, <2>3, SendReacts DEF TypeOK, ThreadTypes
<1>6. ASSUME NEW c \in calls,
             Begin(c) \/ End(c) \/ \E status \in {400, 401, 429, 500} : Refuse(c, status)
      PROVE TypeOK'
  <2>1. ASSUME NEW status \in {202, 400, 401, 429, 500}, Answers(c, status) PROVE TypeOK'
    <3>1. /\ ThreadTypes /\ Reacts(c.from) /\ authFailed' \in BOOLEAN /\ c.from \in Threads
          /\ calls' = calls \ {c} /\ UNCHANGED <<batchSize, maxRetries, queue, stopEvent, closed>>
      BY <2>1, AnswerReacts DEF Answers
    <3>2. batch' \in [Threads -> Seq(Events)] /\ fate' \in [Events -> Fates]
      BY <3>1, ReactTypes
    <3>3. faults' \in 0..MaxFaults /\ UNCHANGED <<stream, window, windows>>
      BY <1>6, <2>1, ServeReacts DEF Answers
    <3> QED
      BY <3>1, <3>2, <3>3 DEF TypeOK, ThreadTypes
  <2>2. ASSUME calls' = (calls \ {c}) \union {[c EXCEPT !.next = 1]}, UNCHANGED <<sdk, threads, fate, nats>>
        PROVE TypeOK'
    <3>1. [c EXCEPT !.next = 1] \in Call
      BY DEF TypeOK, Call
    <3>2. faults' \in 0..MaxFaults
      BY <1>6, ServeReacts
    <3> QED
      BY <2>2, <3>1, <3>2 DEF TypeOK
  <2> QED
    BY <1>6, <2>1, <2>2, ServeReacts
<1>7. ASSUME NEW c \in calls, HandleEach(c) PROVE TypeOK'
  <2>1. PICK rejected \in {{}, {c.events[c.next]}} :
          calls' = (calls \ {c}) \union {[c EXCEPT !.next = @ + 1, !.rejected = @ \union rejected]}
    BY <1>7, EachReacts
  <2>2. c \in Call /\ rejected \subseteq Events
    BY <1>7, EachReacts DEF TypeOK
  <2>3. [c EXCEPT !.next = @ + 1, !.rejected = @ \union rejected] \in Call
    <3>1. c.next + 1 \in Nat /\ c.rejected \union rejected \in SUBSET Events
      BY <2>2 DEF Call
    <3>2. \A n \in Nat, x \in SUBSET Events : [c EXCEPT !.next = n, !.rejected = x] \in Call
      BY <2>2 DEF Call
    <3>3. [c EXCEPT !.next = c.next + 1, !.rejected = c.rejected \union rejected] \in Call
      BY <3>1, <3>2
    <3> QED
      BY <3>3
  <2>4. \A d \in calls' : d \in Call
    BY <2>1, <2>3 DEF TypeOK
  <2>5. stream' \in Stored /\ window' \subseteq Events /\ windows' \in 0..MaxWindows
    BY <1>7, EachReacts, StreamTypes
  <2>6. UNCHANGED <<batchSize, maxRetries, queue, stopEvent, authFailed, closed, pc, batch, attempt, fate>>
        /\ faults' \in 0..MaxFaults
    BY <1>7, EachReacts
  <2> QED
    BY <2>4, <2>5, <2>6 DEF TypeOK
<1>8. CASE WindowPasses
  BY <1>8, IngestionBounds DEF WindowPasses, TypeOK
<1>9. CASE UNCHANGED vars
  BY <1>9 DEF vars, TypeOK
<1> QED
  BY <1>1, <1>2, <1>3, <1>4, <1>5, <1>6, <1>7, <1>8, <1>9 DEF Next, ThreadStep, Serve, Controls

\* An event leaves a thread's batch with its fate.
LEMMA PlacesKept ==
  ASSUME TypeOK, HeldInOnePlace, NEW t \in Threads, Reacts(t), queue' = queue
  PROVE  HeldInOnePlace'
<1> SUFFICES ASSUME NEW e \in Events
             PROVE Places(e)' = IF fate'[e] = "held" THEN 1 ELSE 0
  BY DEF HeldInOnePlace
<1>1. /\ In(e, queue) \in Nat /\ In(e, batch["flusher"]) \in Nat /\ In(e, batch["caller"]) \in Nat
      /\ \A s \in Threads : batch[s] \in Seq(Events)
  BY InType DEF TypeOK, Threads
<1>2. In(e, queue) + In(e, batch["flusher"]) + In(e, batch["caller"]) = IF fate[e] = "held" THEN 1 ELSE 0
  BY DEF HeldInOnePlace, Places
<1>3. CASE UNCHANGED <<batch, fate>>
  BY <1>2, <1>3 DEF Places
<1>4. CASE Settles(t)
  <2>1. PICK outcome \in [Events -> Fates \ {"held"}] :
          fate' = [d \in Events |-> IF d \in ToSet(batch[t]) THEN outcome[d] ELSE fate[d]]
    BY <1>4 DEF Settles
  <2>2. batch'[t] = <<>> /\ \A s \in Threads : s # t => batch'[s] = batch[s]
    BY <1>4 DEF Settles, TypeOK
  <2>3. In(e, batch'[t]) = 0 /\ \A s \in Threads : s # t => In(e, batch'[s]) = In(e, batch[s])
    BY <2>2, InEmpty
  <2>4. Places(e)' = In(e, queue) + In(e, batch'["flusher"]) + In(e, batch'["caller"])
    BY DEF Places
  <2>5. In(e, batch[t]) > 0 <=> e \in ToSet(batch[t])
    BY <1>1, InMember
  <2>6. CASE e \in ToSet(batch[t])
    <3>1. fate'[e] # "held"
      BY <2>1, <2>6
    <3> QED
      BY <1>1, <1>2, <2>3, <2>4, <2>5, <2>6, <3>1 DEF Threads
  <2>7. CASE e \notin ToSet(batch[t])
    <3>1. fate'[e] = fate[e] /\ In(e, batch[t]) = 0
      BY <1>1, <2>1, <2>5, <2>7 DEF Threads
    <3> QED
      BY <1>1, <1>2, <2>3, <2>4, <3>1 DEF Threads
  <2> QED
    BY <2>6, <2>7
<1> QED
  BY <1>3, <1>4 DEF Reacts

\* Each held event is in one place.
LEMMA PlacesStep == IInv /\ [Next]_vars => HeldInOnePlace'
<1> SUFFICES ASSUME IInv, [Next]_vars PROVE HeldInOnePlace'
  OBVIOUS
<1> USE DEF IInv
<1>1. \A e \in Events :
        /\ In(e, queue) \in Nat /\ In(e, batch["flusher"]) \in Nat /\ In(e, batch["caller"]) \in Nat
        /\ In(e, queue) + In(e, batch["flusher"]) + In(e, batch["caller"]) = IF fate[e] = "held" THEN 1 ELSE 0
  BY InType DEF HeldInOnePlace, Places, TypeOK, Threads
<1>2. ASSUME NEW d \in Events, Track(d) PROVE HeldInOnePlace'
  <2>1. CASE Len(queue) < QueueCap
    <3>1. /\ queue' = Append(queue, d) /\ fate' = [fate EXCEPT ![d] = "held"] /\ fate[d] = "new"
          /\ UNCHANGED batch
      BY <1>2, <2>1 DEF Track
    <3>2. \A e \in Events : In(e, queue') = In(e, queue) + (IF d = e THEN 1 ELSE 0)
      BY <3>1, InAppend DEF TypeOK
    <3>3. \A e \in Events : fate'[e] = IF e = d THEN "held" ELSE fate[e]
      BY <3>1 DEF TypeOK
    <3> QED
      BY <1>1, <3>1, <3>2, <3>3 DEF HeldInOnePlace, Places
  <2>2. CASE ~(Len(queue) < QueueCap)
    <3>1. fate' = [fate EXCEPT ![d] = "full"] /\ fate[d] = "new" /\ UNCHANGED <<queue, batch>>
      BY <1>2, <2>2 DEF Track
    <3>2. \A e \in Events : fate'[e] = "held" <=> fate[e] = "held"
      BY <3>1 DEF TypeOK
    <3> QED
      BY <1>1, <3>1, <3>2 DEF HeldInOnePlace, Places
  <2> QED
    BY <2>1, <2>2
<1>3. ASSUME NEW d \in Events, HandleEvent(d) PROVE HeldInOnePlace'
  <2>1. /\ UNCHANGED <<queue, batch>> /\ fate[d] # "held"
        /\ \E f \in Fates \ {"held"} : fate' = [fate EXCEPT ![d] = f]
    BY <1>3, EventReacts
  <2>2. \A e \in Events : fate'[e] = "held" <=> fate[e] = "held"
    BY <2>1 DEF TypeOK
  <2> QED
    BY <1>1, <2>1, <2>2 DEF HeldInOnePlace, Places
<1>4. ASSUME NEW t \in Threads, GetNowait(t) PROVE HeldInOnePlace'
  <2>1. /\ queue # << >> /\ batch' = [batch EXCEPT ![t] = Append(batch[t], Head(queue))]
        /\ queue' = Tail(queue) /\ UNCHANGED fate
    BY <1>4 DEF GetNowait
  <2>2. queue \in Seq(Events) /\ batch[t] \in Seq(Events) /\ Head(queue) \in Events
    BY <2>1 DEF TypeOK
  <2>3. ASSUME NEW e \in Events PROVE Places(e)' = Places(e)
    <3> DEFINE n == IF Head(queue) = e THEN 1 ELSE 0
    <3>1. In(e, queue) = In(e, queue') + n
      BY <2>1, <2>2, InTail
    <3>2. In(e, Append(batch[t], Head(queue))) = In(e, batch[t]) + n
      BY <2>2, InAppend
    <3>3. /\ batch'[t] = Append(batch[t], Head(queue))
          /\ \A s \in Threads : s # t => batch'[s] = batch[s]
      BY <2>1 DEF TypeOK
    <3>4. In(e, batch'[t]) = In(e, batch[t]) + n /\ \A s \in Threads : s # t => In(e, batch'[s]) = In(e, batch[s])
      BY <3>2, <3>3
    <3>5. n \in Nat /\ In(e, queue') \in Nat
      <4>1. queue' \in Seq(Events)
        BY <2>1, <2>2
      <4> QED
        BY <4>1, InType
    <3> HIDE DEF n
    <3> QED
      BY <1>1, <3>1, <3>4, <3>5 DEF Places, Threads
  <2> QED
    BY <2>1, <2>3 DEF HeldInOnePlace
<1>5. ASSUME NEW t \in Threads, SendBatch(t) \/ Post(t) \/ GiveUp(t) PROVE HeldInOnePlace'
  BY <1>5, SendReacts, PlacesKept
<1>6. ASSUME NEW c \in calls,
             Begin(c) \/ End(c) \/ \E status \in {400, 401, 429, 500} : Refuse(c, status)
      PROVE HeldInOnePlace'
  <2>1. ASSUME NEW status \in {202, 400, 401, 429, 500}, Answers(c, status) PROVE HeldInOnePlace'
    <3>1. Reacts(c.from) /\ c.from \in Threads /\ queue' = queue
      BY <2>1, AnswerReacts DEF Answers
    <3> QED
      BY <3>1, PlacesKept
  <2>2. CASE UNCHANGED <<queue, batch, fate>>
    BY <1>1, <2>2 DEF HeldInOnePlace, Places
  <2> QED
    BY <1>6, <2>1, <2>2, ServeReacts
<1>7. CASE UNCHANGED <<queue, batch, fate>>
  BY <1>1, <1>7 DEF HeldInOnePlace, Places
<1>8. Controls \/ WindowPasses \/ UNCHANGED vars \/ (\E c \in calls : HandleEach(c)) => UNCHANGED <<queue, batch, fate>>
  BY ControlTypes, EachReacts DEF WindowPasses, vars
<1> QED
  BY <1>2, <1>3, <1>4, <1>5, <1>6, <1>7, <1>8 DEF Next, ThreadStep, Serve, Controls

\* Every step publishes a valid event, or leaves the stream alone, or lets the
\* window pass.
LEMMA StreamSteps == TypeOK /\ [Next]_vars => Streams \/ WindowPasses
<1> SUFFICES ASSUME TypeOK, [Next]_vars PROVE Streams \/ WindowPasses
  OBVIOUS
<1>1. ASSUME NEW e \in Events, Track(e) PROVE UNCHANGED nats
  BY <1>1 DEF Track
<1>2. ASSUME NEW t \in Threads, GetNowait(t) PROVE UNCHANGED nats
  BY <1>2 DEF GetNowait
<1>3. ASSUME NEW c \in calls,
             Begin(c) \/ End(c) \/ \E status \in {400, 401, 429, 500} : Refuse(c, status)
      PROVE UNCHANGED nats
  BY <1>3, ServeReacts DEF Answers
<1>4. ASSUME NEW t \in Threads, SendBatch(t) \/ Post(t) \/ GiveUp(t) PROVE UNCHANGED nats
  BY <1>4, SendReacts
<1>5. ASSUME Controls \/ UNCHANGED vars PROVE UNCHANGED nats
  BY <1>5, ControlTypes DEF vars
<1>6. ASSUME NEW e \in Events, HandleEvent(e) PROVE Streams
  BY <1>6, EventReacts
<1>7. ASSUME NEW c \in calls, HandleEach(c) PROVE Streams
  BY <1>7, EachReacts
<1>8. UNCHANGED nats => Streams
  BY DEF Streams
<1> HIDE DEF nats
<1> QED
  BY <1>1, <1>2, <1>3, <1>4, <1>5, <1>6, <1>7, <1>8 DEF Next, ThreadStep, Serve, Controls

\* What is published is in the stream, and nothing leaves it.
LEMMA PublishedIsStored ==
  ASSUME TypeOK, CopiesPaid, NEW e \in Events, Publish(e)
  PROVE  stream'[e].copies > 0
<1>1. stream[e].copies \in Nat
  BY DEF TypeOK, Stored
<1>2. e \in window => stream[e].copies > 0
  BY <1>1 DEF CopiesPaid
<1> QED
  BY <1>1, <1>2, Published

\* The stream loses no copy, and what it stored of an event stays.
LEMMA StreamGrows ==
  ASSUME TypeOK, [Next]_vars, NEW e \in Events
  PROVE  /\ stream[e].copies \in Nat /\ stream'[e].copies \in Nat
         /\ stream'[e].copies >= stream[e].copies /\ stream'[e].msg = stream[e].msg
<1>1. stream[e].copies \in Nat
  BY DEF TypeOK, Stored
<1>2. CASE UNCHANGED stream
  BY <1>1, <1>2
<1>3. ASSUME NEW d \in Events, Publish(d)
      PROVE stream'[e].copies \in {stream[e].copies, stream[e].copies + 1} /\ stream'[e].msg = stream[e].msg
  BY <1>1, <1>3, Published
<1> QED
  BY <1>1, <1>2, <1>3, StreamSteps DEF Streams, WindowPasses

\* The messages.
LEMMA MessagesStep == IInv /\ [Next]_vars => MessagesBuilt'
<1> SUFFICES ASSUME IInv, [Next]_vars, NEW e \in Events
             PROVE /\ stream'[e].msg = buildProtoEvent(Request[e])
                   /\ stream'[e].copies > 0 => ValidateEvent(Request[e]) = {}
  BY DEF MessagesBuilt
<1> USE DEF IInv
<1>1. stream'[e].msg = buildProtoEvent(Request[e])
  BY StreamGrows DEF MessagesBuilt
<1>2. ASSUME NEW d \in Events, ValidateEvent(Request[d]) = {}, Publish(d), stream'[e].copies > 0
      PROVE ValidateEvent(Request[e]) = {}
  <2>1. e # d => stream'[e].copies = stream[e].copies
    <3>1. stream[e].copies \in Nat
      BY DEF TypeOK, Stored
    <3> QED
      BY <1>2, <3>1, Published
  <2> QED
    BY <1>2, <2>1 DEF MessagesBuilt
<1>3. UNCHANGED stream => (stream'[e].copies > 0 => ValidateEvent(Request[e]) = {})
  BY DEF MessagesBuilt
<1> QED
  BY <1>1, <1>2, <1>3, StreamSteps DEF Streams, WindowPasses

\* The copies.
LEMMA CopiesStep == IInv /\ [Next]_vars => CopiesPaid'
<1> SUFFICES ASSUME IInv, [Next]_vars PROVE CopiesPaid'
  OBVIOUS
<1> USE DEF IInv
<1>1. windows \in Nat /\ \A e \in Events : stream[e].copies \in Nat
  BY IngestionBounds DEF TypeOK, Stored
<1>2. ASSUME NEW d \in Events, Publish(d) PROVE CopiesPaid'
  <2>1. ASSUME NEW e \in Events
        PROVE IF e \in window' THEN stream'[e].copies \in 1..(1 + windows')
                               ELSE stream'[e].copies \in 0..windows'
    <3>1. /\ window' = window \union {d} /\ windows' = windows
          /\ stream'[e].copies = stream[e].copies + (IF e = d /\ d \notin window THEN 1 ELSE 0)
      BY <1>2, Published
    <3>2. IF e \in window THEN stream[e].copies \in 1..(1 + windows)
                          ELSE stream[e].copies \in 0..windows
      BY DEF CopiesPaid
    <3>3. CASE e = d /\ d \notin window
      BY <1>1, <3>1, <3>2, <3>3
    <3>4. CASE ~(e = d /\ d \notin window)
      BY <1>1, <3>1, <3>2, <3>4
    <3> QED
      BY <3>3, <3>4
  <2> QED
    BY <2>1 DEF CopiesPaid
<1>3. CASE UNCHANGED <<stream, window, windows>>
  BY <1>3 DEF CopiesPaid
<1>4. CASE WindowPasses
  <2>1. window' = {} /\ windows' = windows + 1 /\ UNCHANGED stream
    BY <1>4 DEF WindowPasses
  <2>2. \A e \in Events : stream[e].copies \in 0..(1 + windows)
    BY <1>1 DEF CopiesPaid
  <2> QED
    BY <1>1, <2>1, <2>2 DEF CopiesPaid
<1> QED
  BY <1>2, <1>3, <1>4, StreamSteps DEF Streams

\* A call's position covers served events only.
ServedUpTo(c) ==
  \A i \in DOMAIN c.events :
    i < c.next => c.events[i] \in c.rejected \/ stream[c.events[i]].copies > 0

\* A request is served up to where its loop is, whatever step is taken.
LEMMA ServedStep == IInv /\ [Next]_vars => PastIsServed'
<1> SUFFICES ASSUME IInv, [Next]_vars, NEW c \in calls' PROVE ServedUpTo(c)'
  BY DEF PastIsServed, ServedUpTo
<1> USE DEF IInv
<1>1. CASE c \in calls
  <2>1. c \in Call /\ ServedUpTo(c)
    BY <1>1 DEF TypeOK, PastIsServed, ServedUpTo
  <2>2. \A i \in DOMAIN c.events : c.events[i] \in Events
    BY <2>1 DEF Call
  <2> QED
    BY <2>1, <2>2, StreamGrows DEF ServedUpTo
<1>2. ASSUME NEW t \in Threads, SendBatch(t) \/ Post(t) \/ GiveUp(t), c \notin calls
      PROVE ServedUpTo(c)'
  <2>1. c = NewCall(t, batch[t], attempt[t])
    BY <1>2, SendReacts
  <2>2. c.next = 0 /\ DOMAIN c.events \subseteq Nat \ {0}
    BY <2>1 DEF NewCall, TypeOK
  <2> QED
    BY <2>2 DEF ServedUpTo
<1>3. ASSUME NEW d \in calls, c \notin calls,
             Begin(d) \/ End(d) \/ \E status \in {400, 401, 429, 500} : Refuse(d, status)
      PROVE ServedUpTo(c)'
  <2>1. c = [d EXCEPT !.next = 1]
    <3>1. ASSUME NEW status \in {202, 400, 401, 429, 500}, Answers(d, status) PROVE FALSE
      BY <1>3, <3>1, AnswerReacts DEF Answers
    <3> QED
      BY <1>3, <3>1, ServeReacts
  <2>2. d \in Call
    BY DEF TypeOK
  <2>3. c.next = 1 /\ DOMAIN c.events \subseteq Nat \ {0}
    BY <2>1, <2>2 DEF Call
  <2> QED
    BY <2>3 DEF ServedUpTo
<1>4. ASSUME NEW d \in calls, HandleEach(d), c \notin calls PROVE ServedUpTo(c)'
  <2>1. PICK rejected \in {{}, {d.events[d.next]}} :
          /\ calls' = (calls \ {d}) \union {[d EXCEPT !.next = @ + 1, !.rejected = @ \union rejected]}
          /\ rejected = {} => Publish(d.events[d.next])
    BY <1>4, EachReacts
  <2>2. d \in Call /\ ServedUpTo(d) /\ d.events[d.next] \in Events
    BY <1>4, EachReacts DEF TypeOK, PastIsServed, ServedUpTo
  <2>3. c.next = d.next + 1 /\ c.events = d.events /\ c.rejected = d.rejected \union rejected
    BY <1>4, <2>1, <2>2 DEF Call
  <2>4. d.next \in Nat /\ DOMAIN d.events \subseteq Nat /\ \A i \in DOMAIN d.events : d.events[i] \in Events
    BY <2>2 DEF Call
  <2>5. d.events[d.next] \in rejected \/ stream'[d.events[d.next]].copies > 0
    BY <2>1, <2>2, PublishedIsStored
  <2>6. ASSUME NEW i \in DOMAIN c.events, i < c.next
        PROVE c.events[i] \in c.rejected \/ stream'[c.events[i]].copies > 0
    <3>1. i < d.next \/ i = d.next
      BY <2>3, <2>4, <2>6
    <3>2. ASSUME i < d.next
          PROVE d.events[i] \in d.rejected \/ stream'[d.events[i]].copies > 0
      <4>1. d.events[i] \in d.rejected \/ stream[d.events[i]].copies > 0
        BY <2>2, <2>3, <2>6, <3>2 DEF ServedUpTo
      <4>2. d.events[i] \in Events
        BY <2>3, <2>4
      <4> QED
        BY <4>1, <4>2, StreamGrows
    <3> QED
      BY <2>3, <2>5, <3>1, <3>2
  <2> QED
    BY <2>6 DEF ServedUpTo
<1>5. \/ c \in calls
      \/ \E t \in Threads : SendBatch(t) \/ Post(t) \/ GiveUp(t)
      \/ \E d \in calls : \/ HandleEach(d) \/ Begin(d) \/ End(d)
                          \/ \E status \in {400, 401, 429, 500} : Refuse(d, status)
  <2>1. Controls \/ WindowPasses \/ UNCHANGED vars \/ (\E e \in Events : Track(e) \/ HandleEvent(e))
          \/ (\E t \in Threads : GetNowait(t)) => UNCHANGED calls
    BY ControlTypes, EventReacts DEF WindowPasses, vars, Track, GetNowait
  <2> QED
    BY <2>1 DEF Next, ThreadStep, Serve, Controls
<1> QED
  BY <1>1, <1>2, <1>3, <1>4, <1>5

\* What was accepted is stored.
LEMMA AcceptedStep == IInv /\ [Next]_vars => AcceptedIsStored'
<1> SUFFICES ASSUME IInv, [Next]_vars, NEW e \in Events, fate'[e] = "accepted"
             PROVE stream'[e].copies > 0
  BY DEF AcceptedIsStored
<1> USE DEF IInv
<1>1. CASE fate[e] = "accepted"
  BY <1>1, StreamGrows DEF AcceptedIsStored
<1>2. CASE Publish(e)
  BY <1>2, PublishedIsStored
<1>3. ASSUME NEW d \in Events, Track(d), fate[e] # "accepted" PROVE FALSE
  BY <1>3 DEF Track, TypeOK
<1>4. ASSUME NEW d \in Events, HandleEvent(d), fate[e] # "accepted" PROVE Publish(e)
  BY <1>4, EventReacts DEF TypeOK
<1>5. ASSUME NEW c \in calls, fate[e] # "accepted",
             Begin(c) \/ End(c) \/ \E status \in {400, 401, 429, 500} : Refuse(c, status)
      PROVE stream'[e].copies > 0
  <2>1. PICK status \in {202, 400, 401, 429, 500} : Answers(c, status)
    BY <1>5, ServeReacts
  <2>2. status = 202 /\ e \in ToSet(c.events) /\ e \notin c.rejected
    BY <1>5, <2>1, AnswerReacts DEF Answers
  <2>3. PICK i \in DOMAIN c.events : c.events[i] = e
    BY <2>2 DEF ToSet
  <2>4. c \in Call
    BY DEF TypeOK
  <2>5. i < c.next
    BY <2>1, <2>2, <2>4 DEF Answers, Call
  <2>6. stream[e].copies > 0
    BY <2>2, <2>3, <2>5 DEF PastIsServed
  <2> QED
    BY <2>6, StreamGrows
<1>6. ASSUME NEW t \in Threads, SendBatch(t) \/ Post(t) \/ GiveUp(t) PROVE fate[e] = "accepted"
  BY <1>6, SendReacts DEF NoneAccepted
<1>7. Controls \/ WindowPasses \/ UNCHANGED vars \/ (\E c \in calls : HandleEach(c))
        \/ (\E t \in Threads : GetNowait(t)) => UNCHANGED fate
  BY ControlTypes, EachReacts DEF WindowPasses, vars, GetNowait
<1> QED
  BY <1>1, <1>2, <1>3, <1>4, <1>5, <1>6, <1>7 DEF Next, ThreadStep, Serve, Controls

\* The inductive invariant.
LEMMA IInvInit == Init => IInv
<1> SUFFICES ASSUME Init PROVE IInv
  OBVIOUS
<1> USE DEF Init
<1>1. \A e \in Events : buildProtoEvent(Request[e]) \in LLMEvent
  <2>1. \A e \in Events : Request[e] \in EventRequest
    BY RequestAssumption
  <2> QED
    BY <2>1 DEF EventRequest, buildProtoEvent, LLMEvent, Text, Truncate
<1>2. stream \in Stored
  BY <1>1 DEF Stored
<1>3. pc \in [Threads -> Control] /\ fate \in [Events -> Fates]
  BY DEF Threads, Control, Fates
<1>4. queue \in Seq(Events) /\ Len(queue) <= QueueCap /\ batch \in [Threads -> Seq(Events)]
  BY SizesAssumption
<1>5. attempt \in [Threads -> Nat] /\ {stopEvent, authFailed, closed} \subseteq BOOLEAN
  OBVIOUS
<1>6. windows \in 0..MaxWindows /\ faults \in 0..MaxFaults
  BY IngestionBounds
<1>7. TypeOK
  BY <1>2, <1>3, <1>4, <1>5, <1>6 DEF TypeOK
<1>8. HeldInOnePlace
  BY InEmpty DEF HeldInOnePlace, Places, Threads
<1>9. AcceptedIsStored /\ MessagesBuilt /\ CopiesPaid /\ PastIsServed
  BY DEF AcceptedIsStored, MessagesBuilt, CopiesPaid, PastIsServed
<1> QED
  BY <1>7, <1>8, <1>9 DEF IInv

\* The inductive invariant is one of the specification.
LEMMA IInvHolds == Spec => []IInv
<1>1. IInv /\ [Next]_vars => IInv'
  BY TypeStep, PlacesStep, AcceptedStep, MessagesStep, CopiesStep, ServedStep DEF IInv
<1> QED
  BY IInvInit, <1>1, PTL DEF Spec

\* The queue, the batches, the calls and the stream keep their types.
THEOREM IngestionTypes == Spec => []TypeOK
<1>1. IInv => TypeOK
  BY DEF IInv
<1> QED
  BY <1>1, IInvHolds, PTL

\* get_nowait by two flushes at a time and put_nowait in between: an event
\* whose fate is open is in the queue or in one batch, once.
THEOREM EventsInOnePlace == Spec => []HeldInOnePlace
<1>1. IInv => HeldInOnePlace
  BY DEF IInv
<1> QED
  BY <1>1, IInvHolds, PTL

\* HandleBatch answers 202 after its loop: what its answer does not list as
\* rejected is in the stream, and so is what HandleEvent accepted.
THEOREM AcceptedEventsStored == Spec => []AcceptedIsStored
<1>1. IInv => AcceptedIsStored
  BY DEF IInv
<1> QED
  BY <1>1, IInvHolds, PTL

\* The msg-id of js.Publish keeps retries and late requests from storing an
\* event again, for as long as the Duplicates window remembers it.
THEOREM DuplicatesPaid == Spec => []DuplicatesNeedAWindow
<1>1. IInv => DuplicatesNeedAWindow
  <2> SUFFICES ASSUME IInv, NEW e \in Events PROVE stream[e].copies <= 1 + windows
    BY DEF DuplicatesNeedAWindow
  <2>1. windows \in Nat
    BY IngestionBounds DEF IInv, TypeOK
  <2> QED
    BY <2>1 DEF IInv, CopiesPaid
<1> QED
  BY <1>1, IInvHolds, PTL

\* ValidateEvent and buildProtoEvent: what is stored was valid, within the
\* limits, and marked for the upload when it carries a text.
THEOREM StoredEventsValid == Spec => []StoredIsValid
<1>1. IInv => StoredIsValid
  <2> SUFFICES ASSUME IInv, NEW e \in Events, stream[e].copies > 0
               PROVE /\ ValidateEvent(Request[e]) = {}
                     /\ LET m == stream[e].msg
                        IN  /\ {m.prompt, m.response} \subseteq Text \ {"long"}
                            /\ (m.s3_status = "pending") <=> ({m.prompt, m.response} # {"nil"})
    BY DEF StoredIsValid
  <2>1. ValidateEvent(Request[e]) = {} /\ stream[e].msg = buildProtoEvent(Request[e])
    BY DEF IInv, MessagesBuilt
  <2>2. Request[e].prompt \in {"nil", "fits", "long"} /\ Request[e].response \in {"nil", "fits", "long"}
    BY RequestAssumption DEF EventRequest, Text
  <2> QED
    BY <2>1, <2>2 DEF buildProtoEvent, Truncate, Text
<1> QED
  BY <1>1, IInvHolds, PTL
=============================================================================
