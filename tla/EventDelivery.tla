---------------------------- MODULE EventDelivery ----------------------------
(***************************************************************************)
(* What the ingestion pipeline promises between the NATS stream and the    *)
(* ClickHouse table, whatever the worker does in between: a published      *)
(* event leaves the stream only when the table holds it or when the        *)
(* stream's own limits (MaxAge, MaxBytes with DiscardOld) drop it.         *)
(* EventWorker implements this specification.                              *)
(***************************************************************************)
CONSTANT Msgs

VARIABLES
  published,  \* messages the stream ever accepted
  stream,     \* messages the work-queue stream still keeps
  stored,     \* messages that have at least one row in the table
  expired     \* messages the stream's limits dropped

vars == <<published, stream, stored, expired>>

Init ==
  /\ published = {}
  /\ stream = {}
  /\ stored = {}
  /\ expired = {}

Publish(m) ==
  /\ m \notin published
  /\ published' = published \cup {m}
  /\ stream' = stream \cup {m}
  /\ UNCHANGED <<stored, expired>>

\* Rows appear for any published messages: a batch, possibly with messages
\* that are in the table already.
Store(S) ==
  /\ S \subseteq published
  /\ stored' = stored \cup S
  /\ UNCHANGED <<published, stream, expired>>

\* An acknowledged message leaves the stream: only after it was stored.
Remove(m) ==
  /\ m \in stored
  /\ stream' = stream \ {m}
  /\ UNCHANGED <<published, stored, expired>>

Expire(m) ==
  /\ m \in stream
  /\ stream' = stream \ {m}
  /\ expired' = expired \cup {m}
  /\ UNCHANGED <<published, stored>>

Next ==
  \/ \E m \in Msgs : Publish(m) \/ Remove(m) \/ Expire(m)
  \/ \E S \in SUBSET Msgs : Store(S)

Spec == Init /\ [][Next]_vars

=============================================================================
