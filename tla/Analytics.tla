----------------------------- MODULE Analytics -----------------------------
(***************************************************************************)
(* The dashboard's answers about cost: rows that go on being inserted, the *)
(* handlers of /dashboard/overview and /dashboard/cost with one step per   *)
(* query they send, the queries over the materialized views and over       *)
(* events FINAL, and the Redis cache in front of them.  A sum is kept as   *)
(* the bag of the rows it adds up.                                         *)
(***************************************************************************)
EXTENDS Integers, FiniteSets, Sequences, SequencesExt, FiniteSetsExt

CONSTANTS
  Events,     \* LLM events
  Attr,       \* their columns: org, project, time, model, provider, feature, cost
  Questions,  \* questions the dashboard may ask
  Requests,   \* requests that may be running at once
  Hour,       \* ticks of the clock in an hour
  Day,        \* and in a day
  Week,       \* and in a week
  Period,     \* ticks in each of validPeriods
  Compared,   \* pairs of windows of equal length that a comparison may ask for
  Top,        \* series shown by name (5)
  Limit,      \* rows of a breakdown (20)
  CacheTTL,   \* life of an answer of each endpoint (60 seconds, filters 5 minutes)
  MaxLatency, \* longest time a request takes (WriteTimeout of the server)
  MaxRows,    \* bound: insertions, of one event again included (redelivery, UpdateS3Status)
  MaxTime,    \* bound: the clock
  MaxAsked,   \* bound: requests asked
  MaxFaults   \* bound: failed queries and cache calls

Endpoints == {"overview", "cost", "timeseries", "compare", "cost-filters"}
Groupings == {"model", "feature", "project"}
Never == -1

ASSUME AnalyticsAssumption ==
  /\ Hour \in Nat \ {0} /\ Day \in Nat \ {0} /\ Week \in Nat \ {0}
  /\ Top \in Nat \ {0} /\ Limit \in Nat \ {0}
  /\ MaxLatency \in Nat /\ MaxRows \in Nat /\ MaxTime \in Nat
  /\ MaxAsked \in Nat /\ MaxFaults \in Nat
  /\ \A e \in Endpoints : CacheTTL[e] \in Nat \ {0}
  /\ IsFiniteSet(Events) /\ \A e \in Events : Attr[e].time \in Int
  /\ \A q \in Questions :
       /\ q.endpoint \in Endpoints /\ q.groupBy \in Groupings \union {""} /\ q.period # ""
       /\ q.endpoint # "compare" => Period[q.period] \in Nat
  /\ \A w \in DOMAIN Compared : Compared[w].current[2] - Compared[w].current[1]
                                 = Compared[w].previous[2] - Compared[w].previous[1]

VARIABLES
  now,       \* the clock
  inserted,  \* how often each event was inserted
  since,     \* when it was first inserted
  cache,     \* Redis entries of answers
  req,       \* requests: question, window, queries left, what the others read
  asked,     \* requests asked so far
  faults     \* failed calls so far

vars == <<now, inserted, since, cache, req, asked, faults>>

(***************************************************************************)
(* Rows and sums.  The views add up every inserted row, FINAL reads one    *)
(* row of an event.                                                        *)
(***************************************************************************)
Stored == {e \in Events : inserted[e] > 0}
Every(es) == [e \in es |-> inserted[e]]
Once(es) == [e \in es |-> 1]
Cost(bag) == MapThenSumSet(LAMBDA e : bag[e] * Attr[e].cost, DOMAIN bag)
Count(bag) == MapThenSumSet(LAMBDA e : bag[e], DOMAIN bag)

Only(S) == CHOOSE x \in S : TRUE
Start(t, unit) == t - (t % unit)

\* org_id, and project_id when the question names a project (the v2 views).
Mine(q) == {e \in Stored : Attr[e].org = q.org /\ q.project \in {"", Attr[e].project}}

\* Mutant: the end of the window belongs to it.
HourRowsClosed(q, from, to) ==
  {e \in Mine(q) : from <= Start(Attr[e].time, Hour) /\ Start(Attr[e].time, Hour) <= to}

\* mv_cost_hourly: half-open in hours; the daily views: whole days, both ends.
HourRows(q, from, to) ==
  {e \in Mine(q) : from <= Start(Attr[e].time, Hour) /\ Start(Attr[e].time, Hour) < to}
DayRows(q, from, to) ==
  {e \in Mine(q) : Start(from, Day) <= Start(Attr[e].time, Day)
                   /\ Start(Attr[e].time, Day) <= Start(to, Day)}

modelFilter(q, es) == {e \in es : q.model \in {"", Attr[e].model}}
providerFilter(q, es) == {e \in es : q.provider \in {"", Attr[e].provider}}
featureFilter(q, es) == {e \in es : q.feature \in {"", Attr[e].feature}}
tagged(es) == {e \in es : Attr[e].feature # ""}

\* events FINAL with every filter of the question.
RawRows(q, from, to) ==
  featureFilter(q, providerFilter(q, modelFilter(q,
    {e \in Mine(q) : from <= Attr[e].time /\ Attr[e].time <= to})))

\* GROUP BY: a row for each value of the key.
GroupBy(bag, key(_)) ==
  {[group |-> g, sum |-> [e \in {d \in DOMAIN bag : key(d) = g} |-> bag[e]]] :
     g \in {key(e) : e \in DOMAIN bag}}

\* ORDER BY cost DESC LIMIT n, ties in any order.
Largest(rows, n) ==
  {S \in SUBSET rows :
     /\ Cardinality(S) = IF Cardinality(rows) < n THEN Cardinality(rows) ELSE n
     /\ \A x \in S, y \in rows \ S : Cost(x.sum) >= Cost(y.sum)}

Groups(results) == {{row.group : row \in rows} : rows \in results}

ByModel(e) == Attr[e].model
ByModelAndProvider(e) == <<Attr[e].model, Attr[e].provider>>
ByFeature(e) == Attr[e].feature
ByProject(e) == Attr[e].project

(***************************************************************************)
(* GetCostBreakdown.                                                       *)
(***************************************************************************)
needsCrossDimensional(q) ==
  \/ q.groupBy = "model" /\ q.feature # ""
  \/ q.groupBy = "feature" /\ (q.model # "" \/ q.provider # "")

getCostCrossDimensional(q, from, to, n) ==
  LET rows == RawRows(q, from, to)
  IN Largest(IF q.groupBy = "feature" THEN GroupBy(Once(tagged(rows)), ByFeature)
             ELSE GroupBy(Once(rows), ByModel), n)

getCostByModel(q, from, to, n) ==
  Largest(GroupBy(Every(providerFilter(q, modelFilter(q, DayRows(q, from, to)))),
                  ByModelAndProvider), n)

getCostByTag(q, from, to, n) ==
  Largest(GroupBy(Every(tagged(DayRows(q, from, to))), ByFeature), n)

\* No filter applies, that of the project included.
getCostByProject(q, from, to, n) ==
  Largest(GroupBy(Every(DayRows([q EXCEPT !.project = ""], from, to)), ByProject), n)

GetCostBreakdown(q, from, to, n) ==
  CASE needsCrossDimensional(q) -> getCostCrossDimensional(q, from, to, n)
    [] ~needsCrossDimensional(q) /\ q.groupBy = "feature" -> getCostByTag(q, from, to, n)
    [] ~needsCrossDimensional(q) /\ q.groupBy = "project" -> getCostByProject(q, from, to, n)
    [] OTHER -> getCostByModel(q, from, to, n)

(***************************************************************************)
(* GetCostTimeseries.                                                      *)
(***************************************************************************)
granularityForPeriod(p) == CASE p = "1d" -> "hour" [] p = "90d" -> "week" [] OTHER -> "day"

\* The start of the point of an event; the daily views know no hours.
Unit(q) ==
  CASE granularityForPeriod(q.period) = "week" -> Week
    [] granularityForPeriod(q.period) = "hour" /\ q.groupBy # "model" -> Hour
    [] OTHER -> Day

SeriesRows(q, from, to) ==
  CASE q.groupBy = "feature" -> Once(tagged(RawRows(q, from, to)))
    [] q.groupBy = "" /\ Unit(q) = Hour -> Every(HourRows(q, from, to))
    [] OTHER -> Every(DayRows(q, from, to))

SeriesKey(q, e) ==
  CASE q.groupBy = "model" -> Attr[e].model
    [] q.groupBy = "feature" -> Attr[e].feature
    [] OTHER -> "_total"

\* The series shown by name: the most costly groups.
TopGroups(q, from, to) ==
  Groups(Largest(GroupBy(SeriesRows(q, from, to), LAMBDA e : SeriesKey(q, e)), Top))

\* The detail query: GROUP BY ts, group ORDER BY ts, rows of one time in any order.
PointKey(q, e) == <<Start(Attr[e].time, Unit(q)), SeriesKey(q, e)>>
DetailRows(q, from, to) ==
  {rows \in SetToSeqs(GroupBy(SeriesRows(q, from, to), LAMBDA e : PointKey(q, e))) :
     \A i, j \in DOMAIN rows : i < j => rows[i].group[1] <= rows[j].group[1]}

Merge(a, b) == [e \in DOMAIN a \union DOMAIN b |->
                  (IF e \in DOMAIN a THEN a[e] ELSE 0) + (IF e \in DOMAIN b THEN b[e] ELSE 0)]

\* Without groups there is one query, and its rows are the points.
getTimeseriesTotal(rows) ==
  {[group |-> "_total",
    points |-> [i \in DOMAIN rows |-> [ts |-> rows[i].group[1], sum |-> rows[i].sum]]]}

\* Mutant: a row takes the place of the point that has its time.
ReplaceRow(series, target, row) ==
  LET points == series[target]
      n == Len(points)
      same == n > 0 /\ points[n].ts = row.group[1]
  IN [series EXCEPT ![target] =
        IF same THEN [points EXCEPT ![n].sum = row.sum]
        ELSE Append(points, [ts |-> row.group[1], sum |-> row.sum])]

\* A detail row joins the last point of its series when the time is the
\* same, and starts a point otherwise.
AddRow(series, target, row) ==
  LET points == series[target]
      n == Len(points)
      same == n > 0 /\ points[n].ts = row.group[1]
  IN [series EXCEPT ![target] =
        IF same THEN [points EXCEPT ![n].sum = Merge(@, row.sum)]
        ELSE Append(points, [ts |-> row.group[1], sum |-> row.sum])]

\* The series of a row, and all series once the loop is past the last row.
Target(top, row) == IF row.group[2] \in top THEN row.group[2] ELSE "_other"
Series(top, rows) ==
  LET upTo[i \in 0..Len(rows)] ==
        IF i = 0 THEN [g \in top \union {"_other"} |-> <<>>]
        ELSE AddRow(upTo[i - 1], Target(top, rows[i]), rows[i])
  IN upTo[Len(rows)]

Bucket(top, rows) ==
  {[group |-> g, points |-> Series(top, rows)[g]] :
     g \in {h \in top \union {"_other"} : Series(top, rows)[h] # <<>>}}

(***************************************************************************)
(* The handlers: what each puts into its cache key, the queries it sends   *)
(* in order, and those of them it goes on without.  The timezone, a        *)
(* parameter of every key and of no query, is left out.                    *)
(***************************************************************************)
\* A parameter written into the hash: an empty one leaves no trace.
Written(p) == IF p = "" THEN <<>> ELSE <<p>>
Parameters(q) ==
  Written(q.project) \o Written(q.groupBy) \o Written(q.model) \o Written(q.provider) \o Written(q.feature)

HandleOverview(q) ==
  [key |-> Written(q.period) \o Written(q.project),
   queries |-> <<"current", "previous", "topModel", "topFeature">>,
   optional |-> {"previous", "topModel", "topFeature"}]

HandleCostBreakdown(q) ==
  [key |-> Written(q.period) \o Parameters(q), queries |-> <<"breakdown">>, optional |-> {}]

HandleCostTimeseries(q) ==
  [key |-> Written(q.period) \o Parameters(q),
   queries |-> IF q.groupBy = "" THEN <<"detail">> ELSE <<"top", "detail">>, optional |-> {}]

\* q.period stands for the four dates of a comparison.
HandleCostCompare(q) ==
  [key |-> Written(q.period) \o Parameters(q), queries |-> <<"current", "previous">>,
   optional |-> {}]

\* The period is parsed and not put into the key.
HandleCostFilters(q) ==
  [key |-> Written(q.project), queries |-> <<"models", "providers", "features">>, optional |-> {}]

Handler(q) ==
  CASE q.endpoint = "overview"     -> HandleOverview(q)
    [] q.endpoint = "cost"         -> HandleCostBreakdown(q)
    [] q.endpoint = "timeseries"   -> HandleCostTimeseries(q)
    [] q.endpoint = "compare"      -> HandleCostCompare(q)
    [] q.endpoint = "cost-filters" -> HandleCostFilters(q)

(***************************************************************************)
(* What a query may read.                                                  *)
(***************************************************************************)
GetOverviewKPIs(q, from, to) == {Every(HourRows(q, from, to))}

GetCostFilters(q, name, from, to) ==
  CASE name = "models"    -> {{Attr[e].model : e \in DayRows(q, from, to)}}
    [] name = "providers" -> {{Attr[e].provider : e \in DayRows(q, from, to)}}
    [] name = "features"  -> {{Attr[e].feature : e \in tagged(DayRows(q, from, to))}}

\* An overview compares with the period before, a comparison as it is asked.
Window(q, name, from, to) ==
  IF name # "previous" THEN <<from, to>>
  ELSE IF q.endpoint = "overview" THEN <<from - (to - from), from>>
  ELSE Compared[q.period].previous

Results(q, name, from, to) ==
  LET w == Window(q, name, from, to)
  IN CASE name = "detail" -> DetailRows(q, from, to)
       [] name = "top" -> TopGroups(q, from, to)
       [] name = "topModel" -> Groups(GetCostBreakdown([q EXCEPT !.groupBy = "model"], from, to, 1))
       [] name = "topFeature" -> Groups(GetCostBreakdown([q EXCEPT !.groupBy = "feature"], from, to, 1))
       [] q.endpoint = "cost-filters" -> GetCostFilters(q, name, from, to)
       [] q.endpoint = "overview" /\ name \in {"current", "previous"} -> GetOverviewKPIs(q, w[1], w[2])
       [] q.endpoint \in {"cost", "compare"} -> GetCostBreakdown(q, w[1], w[2], Limit)

\* Lists whose loop over the rows ends without looking at the error.
Unchecked == {"top", "models", "providers", "features"}

(***************************************************************************)
(* cacheKey: the parameters are written into the hash one after another,   *)
(* with nothing between them.  A value is one word here: that two values   *)
(* may spell the same text as two others, and that the hash is cut to 48   *)
(* bits, is left out.                                                      *)
(***************************************************************************)
\* Mutant: the organization is left out.
cacheKeyShared(q) == <<q.endpoint, Handler(q).key>>

cacheKey(q) == <<q.org, q.endpoint, Handler(q).key>>

\* Mutant: entries do not expire.
GetCachedForever(q) == {c.answer : c \in {d \in cache : d.key = cacheKey(q)}}

GetCached(q) == {c.answer : c \in {d \in cache : d.key = cacheKey(q) /\ now < d.until}}

\* Mutant: an entry does not take the place of an earlier one.
SetCachedBeside(q, answer) ==
  cache' = {c \in cache : now < c.until}
             \union {[key |-> cacheKey(q), until |-> now + CacheTTL[q.endpoint], answer |-> answer]}

SetCached(q, answer) ==
  cache' = {c \in cache : c.key # cacheKey(q) /\ now < c.until}
             \union {[key |-> cacheKey(q), until |-> now + CacheTTL[q.endpoint], answer |-> answer]}

(***************************************************************************)
(* Actions.                                                                *)
(***************************************************************************)
Idle == [pc |-> "idle"]
Active(r) == req[r].pc \in {"cache", "query", "fill"}

Init ==
  /\ now = 0
  /\ inserted = [e \in Events |-> 0]
  /\ since = [e \in Events |-> Never]
  /\ cache = {}
  /\ req = [r \in Requests |-> Idle]
  /\ asked = 0
  /\ faults = 0

Fault == faults < MaxFaults /\ faults' = faults + 1

Tick ==
  /\ now < MaxTime
  /\ \A r \in Requests : Active(r) => now < req[r].at + MaxLatency
  /\ now' = now + 1
  /\ UNCHANGED <<inserted, since, cache, req, asked, faults>>

\* The worker inserts a row of an event that has happened.
Insert(e) ==
  /\ Count(inserted) < MaxRows
  /\ Attr[e].time <= now
  /\ inserted' = [inserted EXCEPT ![e] = @ + 1]
  /\ since' = [since EXCEPT ![e] = IF @ = Never THEN now ELSE @]
  /\ UNCHANGED <<now, cache, req, asked, faults>>

\* parseDashboardParams: the window ends now, that of a comparison is asked.
Ask(r, q) ==
  /\ ~Active(r)
  /\ asked < MaxAsked
  /\ asked' = asked + 1
  /\ req' = [req EXCEPT ![r] =
       [pc |-> "cache", q |-> q, at |-> now,
        from |-> IF q.endpoint = "compare" THEN Compared[q.period].current[1] ELSE now - Period[q.period],
        to |-> IF q.endpoint = "compare" THEN Compared[q.period].current[2] ELSE now,
        left |-> Handler(q).queries, parts |-> <<>>]]
  /\ UNCHANGED <<now, inserted, since, cache, faults>>

Reply(request, answer) ==
  [pc |-> "done", q |-> request.q, at |-> request.at, from |-> request.from, answer |-> answer]

\* A hit is the whole answer; an error of Redis is a miss.
CheckCache(r) ==
  /\ req[r].pc = "cache"
  /\ req' = [req EXCEPT ![r] =
       IF GetCached(@.q) = {} THEN [@ EXCEPT !.pc = "query"] ELSE Reply(@, Only(GetCached(@.q)))]
  /\ UNCHANGED <<now, inserted, since, cache, asked, faults>>

CacheFails(r) ==
  /\ req[r].pc = "cache"
  /\ Fault
  /\ req' = [req EXCEPT ![r].pc = "query"]
  /\ UNCHANGED <<now, inserted, since, cache, asked>>

Remaining(request) ==
  [request EXCEPT !.left = Tail(@), !.pc = IF Len(request.left) = 1 THEN "fill" ELSE "query"]

With(parts, name, part) ==
  [n \in DOMAIN parts \union {name} |-> IF n = name THEN part ELSE parts[n]]

Received(request, name, part) ==
  [Remaining(request) EXCEPT !.parts = With(@, name, part)]

SendQuery(r) ==
  /\ req[r].pc = "query"
  /\ LET name == Head(req[r].left)
     IN \E part \in Results(req[r].q, name, req[r].from, req[r].to) :
          req' = [req EXCEPT ![r] = Received(@, name, part)]
  /\ UNCHANGED <<now, inserted, since, cache, asked, faults>>

QueryFails(r) ==
  /\ req[r].pc = "query"
  /\ Fault
  /\ req' = [req EXCEPT ![r] = IF Head(@.left) \in Handler(@.q).optional
                               THEN Remaining(@) ELSE Idle]
  /\ UNCHANGED <<now, inserted, since, cache, asked>>

\* The connection breaks while rows are read, and what was read stands.
RowsCutShort(r) ==
  /\ req[r].pc = "query"
  /\ LET name == Head(req[r].left)
     IN /\ name \in Unchecked
        /\ \E part \in Results(req[r].q, name, req[r].from, req[r].to) : \E read \in SUBSET part :
             req' = [req EXCEPT ![r] = Received(@, name, read)]
  /\ Fault
  /\ UNCHANGED <<now, inserted, since, cache, asked>>

\* What the handler makes of the parts.
Answer(request) ==
  LET parts == request.parts
  IN [q |-> request.q, at |-> request.at, from |-> request.from, to |-> request.to,
      parts |-> parts,
      series |-> CASE request.q.endpoint # "timeseries" -> {}
                   [] request.q.groupBy = "" -> getTimeseriesTotal(parts["detail"])
                   [] OTHER -> Bucket(parts["top"], parts["detail"])]

\* SetCached, whose error is only logged, and the answer.
Fill(r) ==
  /\ req[r].pc = "fill"
  /\ req' = [req EXCEPT ![r] = Reply(@, Answer(@))]
  /\ \/ SetCached(req[r].q, Answer(req[r])) /\ UNCHANGED faults
     \/ Fault /\ UNCHANGED cache
  /\ UNCHANGED <<now, inserted, since, asked>>

Next ==
  \/ Tick
  \/ \E e \in Events : Insert(e)
  \/ \E r \in Requests :
       \/ CheckCache(r) \/ CacheFails(r) \/ SendQuery(r) \/ QueryFails(r)
       \/ RowsCutShort(r) \/ Fill(r)
       \/ \E q \in Questions : Ask(r, q)

Spec == Init /\ [][Next]_vars

(***************************************************************************)
(* Properties of the answers a request ends with.                          *)
(***************************************************************************)
Done(r) == req[r].pc = "done"
Answered(endpoint) == {r \in Requests : Done(r) /\ req[r].answer.q.endpoint = endpoint}

\* Types of the clock, the rows, the cache and the requests.
TypeOK ==
  /\ now \in 0..MaxTime
  /\ inserted \in [Events -> Nat]
  /\ since \in [Events -> 0..MaxTime \union {Never}]
  /\ \A e \in Events : (since[e] = Never) <=> (inserted[e] = 0)
  /\ \A c, d \in cache : c.key = d.key => c = d
  /\ DOMAIN req = Requests
  /\ \A r \in Requests : req[r].pc \in {"idle", "cache", "query", "fill", "done"}
  /\ asked \in 0..MaxAsked /\ faults \in 0..MaxFaults

\* getTimeseriesByModel and getTimeseriesByFeature choose the named series
\* in one query and read the points in another; whatever is inserted in
\* between, each series has one point per time, in order, and each event the
\* second query read is counted, as often as there, in one point of one
\* series, which is of the event's time.
Partitions(series, rows) ==
  LET points == UNION {{[of |-> s.group, ts |-> p.ts, sum |-> p.sum] : p \in Range(s.points)} : s \in series}
  IN /\ \A s \in series : \A i, j \in DOMAIN s.points : i < j => s.points[i].ts < s.points[j].ts
     /\ \A row \in rows : \A e \in DOMAIN row.sum :
          \E p \in points : p.ts = row.group[1] /\ e \in DOMAIN p.sum
     /\ \A p \in points : \A e \in DOMAIN p.sum :
          /\ \E row \in rows :
               row.group[1] = p.ts /\ e \in DOMAIN row.sum /\ row.sum[e] = p.sum[e]
          /\ \A d \in points : e \in DOMAIN d.sum => d = p
SeriesPartition ==
  \A r \in Answered("timeseries") :
    Partitions(req[r].answer.series, Range(req[r].answer.parts["detail"]))

\* HandleOverview reads the two periods it compares one after the other:
\* no event is in both, and every event that was stored when the request
\* came, of an hour within the two periods, is in one of them.
PeriodsTile ==
  \A r \in Answered("overview") :
    LET a == req[r].answer
        current == DOMAIN a.parts["current"]
        previous == DOMAIN a.parts["previous"]
        hour(e) == Start(Attr[e].time, Hour)
    IN "previous" \in DOMAIN a.parts =>
         /\ current \intersect previous = {}
         /\ \A e \in Mine(a.q) :
              since[e] < a.at /\ a.from - (a.to - a.from) <= hour(e) /\ hour(e) < a.to =>
                e \in current \union previous

\* The rows of an answer that counts every row of its window.
Counted(a) ==
  IF a.q.endpoint = "overview" THEN DOMAIN a.parts["current"]
  ELSE UNION {UNION {DOMAIN p.sum : p \in Range(s.points)} : s \in a.series}

\* An answer may be old, by the life of its cache entry and the time the
\* request that filled it took, and no older: a row that was in the store
\* before that, in the window of the question answered, is counted.  The window
\* may have moved, by as long as a request takes: one that came later may fill
\* the entry before this one looks.
OldRowsAreCounted ==
  \A r \in Answered("overview") \union Answered("timeseries") :
    LET a == req[r].answer
    IN a.q.groupBy # "feature" =>
         \A e \in Mine(a.q) :
           /\ since[e] <= req[r].at - CacheTTL[a.q.endpoint] - MaxLatency
           /\ Start(Attr[e].time, Hour) >= req[r].from + MaxLatency
           => e \in Counted(a)

\* An answer from the cache is one to the question asked, for the caller's
\* organization, up to three things cacheKey cannot tell apart: the period of
\* cost-filters, a value moved to another parameter, and a value that is
\* named like a grouping.
Names(q) == {q.project, q.model, q.provider, q.feature} \ {""}
Words(q) == {q.project, q.groupBy, q.model, q.provider, q.feature} \ {""}
OwnAnswer ==
  \A r \in Requests : Done(r) =>
    LET q == req[r].q
        p == req[r].answer.q
    IN /\ p.org = q.org /\ p.endpoint = q.endpoint
       /\ q.endpoint # "cost-filters" => p.period = q.period
       /\ q.endpoint \in {"overview", "cost-filters"} => p.project = q.project
       /\ q.endpoint \notin {"overview", "cost-filters"} =>
            /\ Words(p) = Words(q)
            /\ (Names(p) \union Names(q)) \intersect Groupings = {} =>
                 p.groupBy = q.groupBy /\ Names(p) = Names(q)

(***************************************************************************)
(* The inductive invariant behind them: what a request has read, and what  *)
(* an answer was made of, is no less than what was stored when the request *)
(* came, and that remains true whatever is inserted later.                 *)
(***************************************************************************)
HappenedFirst == \A e \in Stored : Attr[e].time <= since[e]

\* x is a request or an answer.
Windowed(x) ==
  /\ x.q \in Questions /\ x.at \in 0..now
  /\ x.q.endpoint # "compare" => x.to = x.at /\ x.from = x.at - Period[x.q.period]

\* Rows that were there when x was asked.
There(x) == {e \in Mine(x.q) : since[e] < x.at}

HonestHours(x, bag, from, to) ==
  LET inside == {e \in Events : from <= Start(Attr[e].time, Hour) /\ Start(Attr[e].time, Hour) < to}
  IN DOMAIN bag \subseteq inside /\ There(x) \intersect inside \subseteq DOMAIN bag

Grouped(rows) ==
  /\ Len(rows) \in Nat /\ DOMAIN rows = 1..Len(rows)
  /\ \A i \in DOMAIN rows :
       /\ rows[i].group[1] \in Int
       /\ DOMAIN rows[i].sum \subseteq Events /\ rows[i].sum \in [DOMAIN rows[i].sum -> Nat]
  /\ \A i, j \in DOMAIN rows :
       /\ i < j => rows[i].group[1] <= rows[j].group[1]
       /\ i # j => DOMAIN rows[i].sum \intersect DOMAIN rows[j].sum = {}

HonestDetail(x, rows) ==
  /\ Grouped(rows)
  /\ x.q.groupBy = "" => \A i, j \in DOMAIN rows : i < j => rows[i].group[1] < rows[j].group[1]
  /\ x.q.groupBy # "feature" =>
       \A e \in There(x) : x.from <= Start(Attr[e].time, Hour) =>
         \E i \in DOMAIN rows : e \in DOMAIN rows[i].sum

Honest(x) ==
  /\ x.q.endpoint = "overview" =>
       /\ "current" \in DOMAIN x.parts => HonestHours(x, x.parts["current"], x.from, x.to)
       /\ "previous" \in DOMAIN x.parts =>
            HonestHours(x, x.parts["previous"], x.from - (x.to - x.from), x.from)
  /\ x.q.endpoint = "timeseries" /\ "detail" \in DOMAIN x.parts => HonestDetail(x, x.parts["detail"])

Needed(q) == {n \in Range(Handler(q).queries) : n \notin Handler(q).optional}

HonestRequest(x) ==
  /\ x = [pc |-> x.pc, q |-> x.q, at |-> x.at, from |-> x.from, to |-> x.to,
          left |-> x.left, parts |-> x.parts]
  /\ Windowed(x) /\ now <= x.at + MaxLatency
  /\ x.left \in Seq(Range(Handler(x.q).queries)) /\ (x.left = <<>> <=> x.pc = "fill")
  /\ Needed(x.q) \subseteq DOMAIN x.parts \union Range(x.left)
  /\ Honest(x)

HonestAnswer(a) ==
  /\ Windowed(a) /\ Honest(a)
  /\ Needed(a.q) \subseteq DOMAIN a.parts
  /\ a.q.endpoint = "timeseries" => Partitions(a.series, Range(a.parts["detail"]))

\* How old an answer in the cache is when it expires, and one given at most.
HonestEntry(c) ==
  /\ HonestAnswer(c.answer) /\ c.key = cacheKey(c.answer.q)
  /\ c.until \in Int /\ c.until <= c.answer.at + MaxLatency + CacheTTL[c.answer.q.endpoint]

HonestReply(x) ==
  /\ HonestAnswer(x.answer)
  /\ x.q \in Questions /\ cacheKey(x.q) = cacheKey(x.answer.q)
  /\ x.at \in 0..now /\ (x.q.endpoint # "compare" => x.from = x.at - Period[x.q.period])
  /\ x.answer.at <= x.at + MaxLatency
  /\ x.at < x.answer.at + MaxLatency + CacheTTL[x.answer.q.endpoint]

HonestRequests == \A r \in Requests : Active(r) => HonestRequest(req[r])
HonestCache == \A c \in cache : HonestEntry(c)
HonestReplies == \A r \in Requests : Done(r) => HonestReply(req[r])

IInv == TypeOK /\ HappenedFirst /\ HonestRequests /\ HonestCache /\ HonestReplies
=============================================================================
