--------------------------- MODULE S3UploaderProofs ---------------------------
(***************************************************************************)
(* The types of S3Uploader and UploadedMeansObject, for any number of      *)
(* events, any capacities, and any number of failures and stops.           *)
(***************************************************************************)
EXTENDS S3Uploader, SequenceTheorems, TLAPS

\* The inductive invariant holds before anything was handled.
LEMMA IInvInit == Init => IInv
BY LimitsAssumption DEF Init, IInv, TypeOK, InsertsHandled, UpdateAfterUpload, UploadedMeansObject, Threads

\* A row added with a legal status keeps the types of the table.
LEMMA AddRowType ==
  ASSUME TypeOK, NEW e \in Events, NEW status \in {"pending", "uploaded"},
         AddRow(e, status)
  PROVE  /\ latest' \in [Events -> {"none", "pending", "uploaded"}]
         /\ stale' \in [Events -> SUBSET {"pending", "uploaded"}]
         /\ counted' \in [Events -> 0..2]
         /\ \A x \in Events : "uploaded" \in stale'[x] \cup {latest'[x]} =>
              \/ "uploaded" \in stale[x] \cup {latest[x]}
              \/ x = e /\ status = "uploaded"
BY DEF TypeOK, AddRow

\* An update of the status keeps the types of the rows.
LEMMA StatusType ==
  ASSUME TypeOK, NEW e \in Events, UpdateS3Status(e) \/ UNCHANGED rowVars
  PROVE  /\ latest' \in [Events -> {"none", "pending", "uploaded"}]
         /\ stale' \in [Events -> SUBSET {"pending", "uploaded"}]
         /\ counted' \in [Events -> 0..2]
         /\ \A x \in Events : "uploaded" \in stale'[x] \cup {latest'[x]} =>
              "uploaded" \in stale[x] \cup {latest[x]} \/ x = e
<1>1. CASE UNCHANGED rowVars
  BY <1>1 DEF TypeOK, rowVars
<1>2. CASE AddRow(e, "uploaded")
  BY <1>2, AddRowType
<1> QED
  BY <1>1, <1>2 DEF UpdateS3Status

\* No step breaks the inductive invariant: objects never disappear, a goroutine
\* reaches its update only through Upload, and only an update of that very event
\* adds an uploaded row.
LEMMA IInvStep == IInv /\ [Next]_vars => IInv'
<1> SUFFICES ASSUME IInv, [Next]_vars PROVE IInv'
  OBVIOUS
<1> USE NoEventAssumption, LimitsAssumption DEF IInv, InsertsHandled, queueVars, threadVars, rowVars, boundVars
<1>1. ASSUME NEW e \in Events, Handle(e) PROVE IInv'
  <2>1. queue' \in Seq(Events) /\ Len(queue') <= QueueCap
    BY <1>1 DEF Handle, TypeOK
  <2>2. /\ handled' \in [Events -> 0..MaxDeliver]
        /\ toInsert' \in [Events -> 0..MaxDeliver]
        /\ \A x \in Events : toInsert'[x] <= handled'[x]
    BY <1>1 DEF Handle, TypeOK
  <2>3. TypeOK'
    BY <1>1, <2>1, <2>2 DEF Handle, TypeOK
  <2> QED
    BY <1>1, <2>2, <2>3 DEF Handle, UpdateAfterUpload, UploadedMeansObject
<1>2. ASSUME NEW e \in Events, InsertRow(e) PROVE IInv'
  <2>1. AddRow(e, "pending")
    BY <1>2 DEF InsertRow
  <2>2. /\ toInsert' \in [Events -> 0..MaxDeliver]
        /\ \A x \in Events : toInsert'[x] <= handled[x]
        /\ failures' \in Nat
    <3>1. toInsert[e] \in 1..MaxDeliver /\ failures \in Nat
      BY <1>2 DEF InsertRow, TypeOK
    <3>2. CASE toInsert' = [toInsert EXCEPT ![e] = @ - 1] /\ UNCHANGED failures
      BY <3>1, <3>2 DEF TypeOK
    <3>3. CASE failures' = failures + 1 /\ UNCHANGED toInsert
      BY <3>1, <3>3 DEF TypeOK
    <3> QED
      BY <1>2, <3>2, <3>3 DEF InsertRow
  <2>3. TypeOK'
    BY <1>2, <2>1, <2>2, AddRowType DEF InsertRow, TypeOK
  <2> QED
    BY <1>2, <2>1, <2>2, <2>3, AddRowType
    DEF InsertRow, UpdateAfterUpload, UploadedMeansObject
<1>3. ASSUME NEW e \in Events, NEW kept \in SUBSET stale[e], Merge(e, kept) PROVE IInv'
  <2>1. TypeOK'
    BY <1>3 DEF Merge, TypeOK
  <2> QED
    BY <1>3, <2>1 DEF Merge, TypeOK, UpdateAfterUpload, UploadedMeansObject
<1>4. ASSUME NEW t \in Threads, UploadEvent(t) PROVE IInv'
  <2>1. ASSUME Upload(t) PROVE IInv'
    <3>1. item[t] \in Events
      BY <2>1 DEF Upload, UpdateAfterUpload
    <3>2. Payload[t] \in {"text", "empty"}
      BY DEF Payload, Threads
    <3>3. TypeOK'
      BY <2>1, <3>1, <3>2 DEF Upload, StoreObject, TypeOK
    <3> QED
      BY <2>1, <3>1, <3>2, <3>3
      DEF Upload, StoreObject, TypeOK, UpdateAfterUpload, UploadedMeansObject
  <2>2. ASSUME UploadFail(t) PROVE IInv'
    <3>1. item[t] \in Events
      BY <2>2 DEF UploadFail, UpdateAfterUpload
    <3>2. Payload[t] \in {"text", "empty"}
      BY DEF Payload, Threads
    <3>3. failures' \in Nat
      BY <2>2 DEF UploadFail, CallFails, TypeOK
    <3>4. TypeOK'
      BY <2>2, <3>1, <3>2, <3>3
      DEF UploadFail, StoreObject, Leave, TypeOK
    <3> QED
      BY <2>2, <3>1, <3>2, <3>4
      DEF UploadFail, StoreObject, Leave, TypeOK, UpdateAfterUpload,
          UploadedMeansObject
  <2>3. ASSUME Update(t) \/ UpdateFail(t) PROVE IInv'
    <3>1. item[t] \in Events /\ object[item[t]] # "absent"
      BY <2>3 DEF Update, UpdateFail, UpdateAfterUpload
    <3>2. UpdateS3Status(item[t]) \/ UNCHANGED rowVars
      BY <2>3 DEF Update, UpdateFail
    <3>3. failures' \in Nat
      BY <2>3 DEF Update, UpdateFail, CallFails, TypeOK
    <3>4. TypeOK'
      BY <2>3, <3>1, <3>2, <3>3, StatusType
      DEF Update, UpdateFail, Leave, TypeOK
    <3>5. UpdateAfterUpload'
      BY <2>3 DEF Update, UpdateFail, Leave, TypeOK, UpdateAfterUpload
    <3>6. UploadedMeansObject'
      BY <2>3, <3>1, <3>2, StatusType DEF Update, UpdateFail, UploadedMeansObject
    <3>7. InsertsHandled'
      BY <2>3 DEF Update, UpdateFail
    <3> QED
      BY <3>4, <3>5, <3>6, <3>7
  <2> QED
    BY <1>4, <2>1, <2>2, <2>3 DEF UploadEvent
<1>5. CASE Receive
  <2>1. /\ Head(queue) \in Events
        /\ Tail(queue) \in Seq(Events)
        /\ Len(Tail(queue)) <= QueueCap
    BY <1>5, HeadTailProperties DEF Receive, TypeOK
  <2>2. TypeOK'
    BY <1>5, <2>1 DEF Receive, TypeOK
  <2> QED
    BY <1>5, <2>1, <2>2
    DEF Receive, TypeOK, UpdateAfterUpload, UploadedMeansObject, Threads
<1>6. CASE Count \/ StartDraining \/ EndDraining
  <2>1. TypeOK'
    BY <1>6 DEF Count, StartDraining, EndDraining, TypeOK
  <2> QED
    BY <1>6, <2>1
    DEF Count, StartDraining, EndDraining, TypeOK, UpdateAfterUpload,
        UploadedMeansObject
<1>7. CASE Reconcile \/ ReconcileNext
  <2>1. TypeOK'
    BY <1>7
    DEF Reconcile, ReconcileNext, Pending, TypeOK
  <2> QED
    BY <1>7, <2>1
    DEF Reconcile, ReconcileNext, TypeOK, UpdateAfterUpload, UploadedMeansObject,
        Threads
<1>8. CASE Cancel \/ Restart
  BY <1>8
  DEF Cancel, Restart, TypeOK, UpdateAfterUpload, UploadedMeansObject
<1>9. CASE Exit \/ Crash
  <2>1. Die /\ stops' \in Nat
    BY <1>9 DEF Exit, Crash, TypeOK
  <2>2. TypeOK'
    BY <2>1 DEF Die, TypeOK
  <2> QED
    BY <2>1, <2>2 DEF Die, TypeOK, UpdateAfterUpload, UploadedMeansObject
<1>10. CASE UNCHANGED vars
  BY <1>10
  DEF vars, TypeOK, UpdateAfterUpload, UploadedMeansObject
<1> QED
  BY <1>1, <1>2, <1>3, <1>4, <1>5, <1>6, <1>7, <1>8, <1>9, <1>10
  DEF Next, ProcessUploads, Reconciler, Threads

\* The inductive invariant holds in every reachable state.
THEOREM Invariance == Spec => []IInv
BY IInvInit, IInvStep, PTL DEF Spec

\* The queue keeps its capacity and every variable its type, whatever fails.
THEOREM UploaderTypes == Spec => []TypeOK
<1>1. IInv => TypeOK
  BY DEF IInv
<1> QED
  BY <1>1, Invariance, PTL

\* A row says uploaded only when the object is in S3: uploadEvent's order of upload
\* and update survives failures, crashes, and two goroutines on one event.
THEOREM UploadedInS3 == Spec => []UploadedMeansObject
<1>1. IInv => UploadedMeansObject
  BY DEF IInv
<1> QED
  BY <1>1, Invariance, PTL

=============================================================================
