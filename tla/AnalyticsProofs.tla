-------------------------- MODULE AnalyticsProofs --------------------------
(***************************************************************************)
(* For any events, questions, requests, windows and lives of cache         *)
(* entries, and any failures: an answer of the dashboard counts what was   *)
(* stored when its request came, once, and is one to the question asked.   *)
(***************************************************************************)
EXTENDS Analytics, FiniteSetTheorems, SequenceTheorems, SumTheorems, TLAPS

-----------------------------------------------------------------------------
(* Starts of hours and days *)

\* The start of a unit is a time, and not later.
LEMMA StartBelow ==
  ASSUME NEW a \in Int, NEW d \in Nat \ {0}
  PROVE  Start(a, d) \in Int /\ Start(a, d) <= a
BY DEF Start

\* A later time has no earlier start.
LEMMA StartMonotone ==
  ASSUME NEW a \in Int, NEW b \in Int, NEW d \in Nat \ {0}, a <= b
  PROVE  Start(a, d) <= Start(b, d)
BY DEF Start

-----------------------------------------------------------------------------
(* What a cache key tells apart *)

\* A concatenation has the members of both sequences.
LEMMA RangeConcat ==
  ASSUME NEW S, NEW s \in Seq(S), NEW t \in Seq(S)
  PROVE  s \o t \in Seq(S) /\ Range(s \o t) = Range(s) \union Range(t)
<1>1. s \o t \in Seq(S)
  OBVIOUS
<1>2. ASSUME NEW i \in DOMAIN (s \o t)
      PROVE  (s \o t)[i] \in Range(s) \union Range(t)
  <2>1. CASE i <= Len(s)
    BY <2>1 DEF Range
  <2>2. CASE i > Len(s)
    <3>1. i - Len(s) \in DOMAIN t /\ (s \o t)[i] = t[i - Len(s)]
      BY <2>2
    <3> QED BY <3>1 DEF Range
  <2> QED BY <2>1, <2>2
<1>3. ASSUME NEW i \in DOMAIN s
      PROVE  s[i] \in Range(s \o t)
  <2>1. i \in DOMAIN (s \o t) /\ (s \o t)[i] = s[i]
    OBVIOUS
  <2> QED BY <2>1 DEF Range
<1>4. ASSUME NEW i \in DOMAIN t
      PROVE  t[i] \in Range(s \o t)
  <2>1. Len(s) + i \in DOMAIN (s \o t) /\ (s \o t)[Len(s) + i] = t[i]
    OBVIOUS
  <2> QED BY <2>1 DEF Range
<1>5. Range(s \o t) \subseteq Range(s) \union Range(t)
  <2>1. ASSUME NEW x \in Range(s \o t)
        PROVE  x \in Range(s) \union Range(t)
    <3>1. PICK i \in DOMAIN (s \o t) : x = (s \o t)[i]
      BY DEF Range
    <3> QED BY <3>1, <1>2
  <2> QED BY <2>1
<1>6. Range(s) \subseteq Range(s \o t)
  BY <1>3 DEF Range
<1>7. Range(t) \subseteq Range(s \o t)
  BY <1>4 DEF Range
<1> QED BY <1>1, <1>5, <1>6, <1>7

\* An empty parameter leaves no trace.
LEMMA WrittenRange ==
  ASSUME NEW S, NEW p \in S
  PROVE  Written(p) \in Seq(S) /\ Range(Written(p)) = {p} \ {""}
<1>1. CASE p = ""
  <2>1. Written(p) = <<>>
    BY <1>1 DEF Written
  <2>2. <<>> \in Seq(S) /\ DOMAIN <<>> = {}
    OBVIOUS
  <2>3. Range(<<>>) = {}
    BY <2>2 DEF Range
  <2>4. {p} \ {""} = {}
    BY <1>1
  <2> QED BY <2>1, <2>2, <2>3, <2>4
<1>2. CASE p # ""
  <2>1. Written(p) = <<p>>
    BY <1>2 DEF Written
  <2>2. <<p>> \in Seq(S) /\ DOMAIN <<p>> = {1} /\ <<p>>[1] = p
    OBVIOUS
  <2>3. Range(<<p>>) = {p}
    BY <2>2 DEF Range
  <2>4. {p} \ {""} = {p}
    BY <1>2
  <2> QED BY <2>1, <2>2, <2>3, <2>4
<1> QED BY <1>1, <1>2

\* Two parameters of one trace are one.
LEMMA WrittenSame == \A p, q : Written(p) = Written(q) => p = q
<1> SUFFICES ASSUME NEW p, NEW q, Written(p) = Written(q)
             PROVE  p = q
  OBVIOUS
<1>1. Range(Written(p)) = {p} \ {""} /\ Range(Written(q)) = {q} \ {""}
  <2>1. p \in {p, q} /\ q \in {p, q}
    OBVIOUS
  <2>2. Range(Written(p)) = {p} \ {""}
    BY <2>1, WrittenRange
  <2>3. Range(Written(q)) = {q} \ {""}
    BY <2>1, WrittenRange
  <2> QED BY <2>2, <2>3
<1>2. {p} \ {""} = {q} \ {""}
  BY <1>1
<1>3. CASE p = ""
  <2>1. q \notin {q} \ {""}
    BY <1>2, <1>3
  <2> QED BY <1>3, <2>1
<1>4. CASE p # ""
  <2>1. p \in {q} \ {""}
    BY <1>2, <1>4
  <2> QED BY <2>1
<1> QED BY <1>3, <1>4

\* What the key of a breakdown, a time series or a comparison has of its
\* parameters, the period apart.
LEMMA ParametersRange ==
  \A q : \E S : /\ Written(q.project) \in Seq(S) /\ Parameters(q) \in Seq(S)
                /\ Range(Parameters(q)) = Words(q)
<1> SUFFICES ASSUME NEW q
             PROVE  \E S : /\ Written(q.project) \in Seq(S) /\ Parameters(q) \in Seq(S)
                           /\ Range(Parameters(q)) = Words(q)
  OBVIOUS
<1> DEFINE S == {q.project, q.groupBy, q.model, q.provider, q.feature}
<1>1. q.project \in S /\ q.groupBy \in S /\ q.model \in S /\ q.provider \in S /\ q.feature \in S
  OBVIOUS
<1> HIDE DEF S
<1>2. PICK a : a = Written(q.project) /\ a \in Seq(S) /\ Range(a) = {q.project} \ {""}
  BY <1>1, WrittenRange
<1>3. PICK b : b = Written(q.groupBy) /\ b \in Seq(S) /\ Range(b) = {q.groupBy} \ {""}
  BY <1>1, WrittenRange
<1>4. PICK c : c = Written(q.model) /\ c \in Seq(S) /\ Range(c) = {q.model} \ {""}
  BY <1>1, WrittenRange
<1>5. PICK d : d = Written(q.provider) /\ d \in Seq(S) /\ Range(d) = {q.provider} \ {""}
  BY <1>1, WrittenRange
<1>6. PICK e : e = Written(q.feature) /\ e \in Seq(S) /\ Range(e) = {q.feature} \ {""}
  BY <1>1, WrittenRange
<1>7. a \in Seq(S) /\ b \in Seq(S) /\ c \in Seq(S) /\ d \in Seq(S) /\ e \in Seq(S)
  BY <1>2, <1>3, <1>4, <1>5, <1>6
<1>8. PICK f : f \in Seq(S) /\ Range(f) = Range(a) \union Range(b) /\ f = a \o b
  BY <1>7, RangeConcat
<1>9. PICK g : g \in Seq(S) /\ Range(g) = Range(f) \union Range(c) /\ g = f \o c
  <2>1. f \in Seq(S)
    BY <1>8
  <2> QED BY <1>7, <2>1, RangeConcat
<1>10. PICK h : h \in Seq(S) /\ Range(h) = Range(g) \union Range(d) /\ h = g \o d
  <2>1. g \in Seq(S)
    BY <1>9
  <2> QED BY <1>7, <2>1, RangeConcat
<1>11. PICK k : k \in Seq(S) /\ Range(k) = Range(h) \union Range(e) /\ k = h \o e
  <2>1. h \in Seq(S)
    BY <1>10
  <2> QED BY <1>7, <2>1, RangeConcat
<1>12. k = Parameters(q)
  BY <1>2, <1>3, <1>4, <1>5, <1>6, <1>8, <1>9, <1>10, <1>11 DEF Parameters
<1>13. Range(k) = Words(q)
  BY <1>2, <1>3, <1>4, <1>5, <1>6, <1>8, <1>9, <1>10, <1>11 DEF Words
<1> QED BY <1>2, <1>11, <1>12, <1>13

\* Equal sequences have equal heads and equal tails.
LEMMA SameHead ==
  ASSUME NEW S, NEW s \in Seq(S), NEW T, NEW t \in Seq(T), NEW x, NEW y, <<x>> \o s = <<y>> \o t
  PROVE  x = y /\ s = t
<1>1. (<<x>> \o s)[1] = x /\ (<<y>> \o t)[1] = y
  OBVIOUS
<1>2. Tail(<<x>> \o s) = s /\ Tail(<<y>> \o t) = t
  OBVIOUS
<1> QED BY <1>1, <1>2

\* Questions with one key.
LEMMA SameKey ==
  ASSUME NEW p \in Questions, NEW q \in Questions, cacheKey(p) = cacheKey(q)
  PROVE  /\ p.org = q.org /\ p.endpoint = q.endpoint
         /\ q.endpoint # "cost-filters" => p.period = q.period
         /\ q.endpoint \in {"overview", "cost-filters"} => p.project = q.project
         /\ q.endpoint \notin {"overview", "cost-filters"} => Words(p) = Words(q)
<1>1. /\ p.period # "" /\ q.period # "" /\ q.endpoint \in Endpoints
  BY AnalyticsAssumption
<1>2. p.org = q.org /\ p.endpoint = q.endpoint /\ Handler(p).key = Handler(q).key
  BY DEF cacheKey
<1>3. CASE q.endpoint = "overview"
  <2>1. <<p.period>> \o Written(p.project) = <<q.period>> \o Written(q.project)
    BY <1>1, <1>2, <1>3 DEF Handler, HandleOverview, Written
  <2>2. PICK S : Written(p.project) \in Seq(S)
    BY ParametersRange
  <2>3. PICK T : Written(q.project) \in Seq(T)
    BY ParametersRange
  <2>4. p.period = q.period /\ Written(p.project) = Written(q.project)
    BY <2>1, <2>2, <2>3, SameHead
  <2> QED BY <1>2, <1>3, <2>4, WrittenSame
<1>4. CASE q.endpoint = "cost-filters"
  <2>1. Written(p.project) = Written(q.project)
    BY <1>2, <1>4 DEF Handler, HandleCostFilters
  <2> QED BY <1>2, <1>4, <2>1, WrittenSame
<1>5. CASE q.endpoint \notin {"overview", "cost-filters"}
  <2>1. q.endpoint \in {"cost", "timeseries", "compare"}
    BY <1>1, <1>5 DEF Endpoints
  <2>2. Written(p.period) \o Parameters(p) = Written(q.period) \o Parameters(q)
    BY <1>2, <2>1 DEF Handler, HandleCostBreakdown, HandleCostTimeseries, HandleCostCompare
  <2>3. <<p.period>> \o Parameters(p) = <<q.period>> \o Parameters(q)
    BY <1>1, <2>2 DEF Written
  <2>4. PICK S : Parameters(p) \in Seq(S) /\ Range(Parameters(p)) = Words(p)
    BY ParametersRange
  <2>5. PICK T : Parameters(q) \in Seq(T) /\ Range(Parameters(q)) = Words(q)
    BY ParametersRange
  <2>6. p.period = q.period /\ Parameters(p) = Parameters(q)
    BY <2>3, <2>4, <2>5, SameHead
  <2> QED BY <1>2, <1>5, <2>4, <2>5, <2>6
<1> QED BY <1>3, <1>4, <1>5

-----------------------------------------------------------------------------
(* What the detail query reads *)

RowOf(q, bag, d) ==
  [group |-> PointKey(q, d),
   sum |-> [e \in {c \in DOMAIN bag : PointKey(q, c) = PointKey(q, d)} |-> bag[e]]]

\* The rows of a series are events with counts.
LEMMA SeriesRowsType ==
  ASSUME TypeOK, NEW q, NEW from, NEW to
  PROVE  /\ DOMAIN SeriesRows(q, from, to) \subseteq Events
         /\ SeriesRows(q, from, to) \in [DOMAIN SeriesRows(q, from, to) -> Nat]
<1> DEFINE F == tagged(RawRows(q, from, to))
           H == HourRows(q, from, to)
           D == DayRows(q, from, to)
<1>1. F \subseteq Events /\ H \subseteq Events /\ D \subseteq Events
  BY DEF tagged, RawRows, featureFilter, providerFilter, modelFilter, Mine, Stored, HourRows, DayRows
<1>2. SeriesRows(q, from, to) \in {Once(F), Every(H), Every(D)}
  BY DEF SeriesRows
<1>3. \A S \in SUBSET Events :
        /\ DOMAIN Once(S) = S /\ Once(S) \in [S -> Nat]
        /\ DOMAIN Every(S) = S /\ Every(S) \in [S -> Nat]
  BY DEF Once, Every, TypeOK
<1> HIDE DEF F, H, D
<1> QED BY <1>1, <1>2, <1>3

\* GROUP BY time and series: the row of each event.
LEMMA DetailGroups ==
  ASSUME NEW q, NEW bag
  PROVE  GroupBy(bag, LAMBDA e : PointKey(q, e)) = {RowOf(q, bag, d) : d \in DOMAIN bag}
BY DEF GroupBy, RowOf

\* Finitely many events have finitely many rows.
LEMMA DetailFinite ==
  ASSUME NEW q, NEW bag, IsFiniteSet(DOMAIN bag)
  PROVE  IsFiniteSet({RowOf(q, bag, d) : d \in DOMAIN bag})
<1> DEFINE G == {RowOf(q, bag, d) : d \in DOMAIN bag}
           f == [d \in DOMAIN bag |-> RowOf(q, bag, d)]
<1>1. f \in Surjection(DOMAIN bag, G)
  BY DEF Surjection
<1> HIDE DEF f, G
<1>2. IsFiniteSet(G)
  BY <1>1, FS_Surjection
<1> QED BY <1>2 DEF G

\* An ordering of a finite set has every member of it, once.
LEMMA OrderingOfAll ==
  ASSUME NEW S, IsFiniteSet(S), NEW s \in SetToSeqs(S)
  PROVE  /\ Cardinality(S) \in Nat /\ s \in [1..Cardinality(S) -> S]
         /\ \A i, j \in 1..Cardinality(S) : i # j => s[i] # s[j]
         /\ \A x \in S : \E i \in 1..Cardinality(S) : s[i] = x
<1>1. Cardinality(S) \in Nat
  BY FS_CardinalityType
<1>2. s \in [1..Cardinality(S) -> S] /\ \A i, j \in 1..Cardinality(S) : i # j => s[i] # s[j]
  BY DEF SetToSeqs
<1>3. PICK n \in Nat : n = Cardinality(S)
  BY <1>1
<1>4. s \in Injection(1..n, S)
  <2>1. s \in [1..n -> S]
    BY <1>2, <1>3
  <2>2. \A i, j \in 1..n : s[i] = s[j] => i = j
    BY <1>2, <1>3
  <2> QED BY <2>1, <2>2 DEF Injection, IsInjective
<1>5. Cardinality(1..n) = n
  BY <1>3, FS_Interval
<1>6. s \in Surjection(1..n, S)
  BY <1>3, <1>4, <1>5, FS_Injection
<1>7. \A x \in S : \E i \in 1..n : s[i] = x
  BY <1>6 DEF Surjection
<1> QED BY <1>1, <1>2, <1>3, <1>7

\* The rows of the detail query: sorted by time, without an event in two.
LEMMA DetailRead ==
  ASSUME TypeOK, NEW q, NEW from, NEW to, NEW rows \in DetailRows(q, from, to)
  PROVE  /\ Grouped(rows)
         /\ q.groupBy = "" => \A i, j \in DOMAIN rows : i < j => rows[i].group[1] < rows[j].group[1]
         /\ \A e \in DOMAIN SeriesRows(q, from, to) : \E i \in DOMAIN rows : e \in DOMAIN rows[i].sum
<1>1. PICK bag : bag = SeriesRows(q, from, to)
  OBVIOUS
<1>2. DOMAIN bag \subseteq Events /\ bag \in [DOMAIN bag -> Nat]
  BY <1>1, SeriesRowsType
<1>3. PICK D : D = DOMAIN bag
  OBVIOUS
<1> DEFINE G == {RowOf(q, bag, d) : d \in D}
<1>4. IsFiniteSet(D)
  BY <1>2, <1>3, FS_Subset, AnalyticsAssumption
<1>5. IsFiniteSet(G)
  BY <1>3, <1>4, DetailFinite
<1>6. rows \in SetToSeqs(G) /\ \A i, j \in DOMAIN rows : i < j => rows[i].group[1] <= rows[j].group[1]
  <2>1. GroupBy(bag, LAMBDA e : PointKey(q, e)) = G
    BY <1>3, DetailGroups
  <2>2. rows \in DetailRows(q, from, to)
    OBVIOUS
  <2> HIDE DEF G
  <2>3. rows \in {z \in SetToSeqs(GroupBy(bag, LAMBDA e : PointKey(q, e))) :
                   \A i, j \in DOMAIN z : i < j => z[i].group[1] <= z[j].group[1]}
    BY <1>1, <2>2 DEF DetailRows
  <2> QED BY <2>1, <2>3
<1>7. PICK n : n = Cardinality(G)
  OBVIOUS
<1>8. /\ n \in Nat /\ rows \in [1..n -> G]
      /\ \A i, j \in 1..n : i # j => rows[i] # rows[j]
      /\ \A x \in G : \E i \in 1..n : rows[i] = x
  <2> HIDE DEF G
  <2> QED BY <1>5, <1>6, <1>7, OrderingOfAll
<1>9. DOMAIN rows = 1..n /\ Len(rows) = n
  <2>1. rows \in Seq(G) /\ DOMAIN rows = 1..n
    <3> HIDE DEF G
    <3> QED BY <1>8
  <2> HIDE DEF G
  <2> QED BY <1>8, <2>1
<1>10. \A i \in 1..n : \E d \in D : rows[i] = RowOf(q, bag, d)
  BY <1>8
<1>11. ASSUME NEW d \in D
       PROVE  /\ RowOf(q, bag, d).group = PointKey(q, d)
              /\ DOMAIN RowOf(q, bag, d).sum = {c \in D : PointKey(q, c) = PointKey(q, d)}
              /\ \A c \in DOMAIN RowOf(q, bag, d).sum : RowOf(q, bag, d).sum[c] = bag[c]
              /\ RowOf(q, bag, d).sum \in [DOMAIN RowOf(q, bag, d).sum -> Nat]
  BY <1>2, <1>3 DEF RowOf
<1>12. \A d \in D : PointKey(q, d)[1] \in Int /\ PointKey(q, d)[2] = SeriesKey(q, d)
  <2>1. Unit(q) \in Nat \ {0}
    BY AnalyticsAssumption DEF Unit
  <2>2. \A d \in D : Attr[d].time \in Int
    BY <1>2, <1>3, AnalyticsAssumption
  <2> QED BY <2>1, <2>2, StartBelow DEF PointKey
<1>13. ASSUME NEW i \in 1..n
       PROVE  /\ rows[i].group[1] \in Int
              /\ DOMAIN rows[i].sum \subseteq Events /\ rows[i].sum \in [DOMAIN rows[i].sum -> Nat]
  <2>1. PICK d \in D : rows[i] = RowOf(q, bag, d)
    BY <1>10
  <2> QED BY <1>2, <1>3, <1>11, <1>12, <2>1
<1>14. ASSUME NEW i \in 1..n, NEW j \in 1..n, i # j
       PROVE  /\ rows[i].group # rows[j].group
              /\ DOMAIN rows[i].sum \intersect DOMAIN rows[j].sum = {}
  <2>1. PICK d \in D : rows[i] = RowOf(q, bag, d)
    BY <1>10
  <2>2. PICK c \in D : rows[j] = RowOf(q, bag, c)
    BY <1>10
  <2>3. rows[i] # rows[j]
    BY <1>8, <1>14
  <2>4. PointKey(q, d) # PointKey(q, c)
    BY <2>1, <2>2, <2>3 DEF RowOf
  <2> QED BY <1>11, <2>1, <2>2, <2>4
<1>15. Grouped(rows)
  BY <1>6, <1>8, <1>9, <1>13, <1>14 DEF Grouped
<1>16. ASSUME q.groupBy = "", NEW i \in 1..n, NEW j \in 1..n, i < j
       PROVE  rows[i].group[1] < rows[j].group[1]
  <2>1. PICK d \in D : rows[i] = RowOf(q, bag, d)
    BY <1>10
  <2>2. PICK c \in D : rows[j] = RowOf(q, bag, c)
    BY <1>10
  <2>3. SeriesKey(q, d) = SeriesKey(q, c)
    BY <1>16 DEF SeriesKey
  <2>4. rows[i].group = PointKey(q, d) /\ rows[j].group = PointKey(q, c)
    BY <1>11, <2>1, <2>2
  <2>5. PointKey(q, d)[1] # PointKey(q, c)[1]
    <3>1. rows[i].group # rows[j].group
      <4>1. n \in Nat
        BY <1>8
      <4>2. i < j
        BY <1>16
      <4>3. i # j
        BY <4>1, <4>2
      <4> QED BY <1>14, <4>3
    <3> QED BY <2>3, <2>4, <3>1 DEF PointKey
  <2>6. rows[i].group[1] <= rows[j].group[1] /\ rows[i].group[1] \in Int /\ rows[j].group[1] \in Int
    BY <1>6, <1>9, <1>13, <1>16
  <2> QED BY <2>4, <2>5, <2>6
<1>17. ASSUME NEW e \in D
       PROVE  \E i \in 1..n : e \in DOMAIN rows[i].sum
  <2>1. PICK i \in 1..n : rows[i] = RowOf(q, bag, e)
    BY <1>8
  <2> QED BY <1>11, <2>1
<1> QED BY <1>1, <1>3, <1>9, <1>15, <1>16, <1>17


\* A row of the window that was there when the request came is one of those
\* the series are made of, when these are not restricted to a feature.
LEMMA SeriesRead ==
  ASSUME TypeOK, HappenedFirst, NEW x, Windowed(x), x.q.endpoint # "compare",
         x.q.groupBy # "feature", NEW e \in There(x), x.from <= Start(Attr[e].time, Hour)
  PROVE  e \in DOMAIN SeriesRows(x.q, x.from, x.to)
<1>1. e \in Mine(x.q) /\ since[e] < x.at
  BY DEF There
<1>2. e \in Stored /\ e \in Events
  BY <1>1 DEF Mine, Stored
<1>3. /\ Attr[e].time \in Int /\ Hour \in Nat \ {0} /\ Day \in Nat \ {0}
  BY <1>2, AnalyticsAssumption
<1>4. x.at \in Int /\ x.to = x.at /\ x.from \in Int
  <2>1. x.q \in Questions /\ x.to = x.at /\ x.from = x.at - Period[x.q.period] /\ x.at \in 0..now
    BY DEF Windowed
  <2>2. Period[x.q.period] \in Nat
    BY <2>1, AnalyticsAssumption
  <2>3. now \in Int
    BY DEF TypeOK
  <2> QED BY <2>1, <2>2, <2>3
<1>5. since[e] \in Int /\ Attr[e].time <= since[e]
  BY <1>2, <1>3, <1>4 DEF TypeOK, HappenedFirst, Never
<1>6. Start(Attr[e].time, Hour) \in Int /\ Start(Attr[e].time, Hour) <= Attr[e].time
  BY <1>3, <1>4, StartBelow
<1>7. Start(Attr[e].time, Hour) < x.to /\ x.from <= Attr[e].time /\ Attr[e].time <= x.to
  BY <1>1, <1>3, <1>4, <1>5, <1>6
<1>8. e \in HourRows(x.q, x.from, x.to)
  BY <1>1, <1>7 DEF HourRows
<1>9. e \in DayRows(x.q, x.from, x.to)
  <2>1. Start(x.from, Day) <= Start(Attr[e].time, Day)
    BY <1>3, <1>4, <1>7, StartMonotone
  <2>2. Start(Attr[e].time, Day) <= Start(x.to, Day)
    BY <1>3, <1>4, <1>7, StartMonotone
  <2> QED BY <1>1, <2>1, <2>2 DEF DayRows
<1>10. \/ SeriesRows(x.q, x.from, x.to) = Every(HourRows(x.q, x.from, x.to))
      \/ SeriesRows(x.q, x.from, x.to) = Every(DayRows(x.q, x.from, x.to))
  BY DEF SeriesRows
<1>11. \A S : DOMAIN Every(S) = S
  BY DEF Every
<1> QED BY <1>8, <1>9, <1>10, <1>11

\* The hours of a period of an overview are read to the end.
LEMMA HoursRead ==
  ASSUME NEW x, NEW from, NEW to
  PROVE  HonestHours(x, Every(HourRows(x.q, from, to)), from, to)
<1>1. DOMAIN Every(HourRows(x.q, from, to)) = HourRows(x.q, from, to)
  BY DEF Every
<1> QED BY <1>1 DEF HonestHours, HourRows, There, Mine, Stored

-----------------------------------------------------------------------------
(* What the loop makes of the rows *)

Sums == UNION {[D -> Nat] : D \in SUBSET Events}
Points == [ts : Int, sum : Sums]

\* The function the loop builds up.
Steps(s, top, rows) ==
  /\ s[0] = [g \in top \union {"_other"} |-> <<>>]
  /\ \A i \in 1..Len(rows) : s[i] = AddRow(s[i - 1], Target(top, rows[i]), rows[i])

\* There is such a function, and the series are its last value.
LEMMA SeriesLoop ==
  ASSUME NEW top, NEW rows, Len(rows) \in Nat
  PROVE  \E s : Steps(s, top, rows) /\ Series(top, rows) = s[Len(rows)]
<1> DEFINE start == [g \in top \union {"_other"} |-> <<>>]
           IsUpTo(k, u) == u = [i \in 0..k |-> IF i = 0 THEN start
                                  ELSE AddRow(u[i - 1], Target(top, rows[i]), rows[i])]
           Good == {k \in Nat : \E u : IsUpTo(k, u)}
<1>1. 0 \in Good
  <2>1. IsUpTo(0, [i \in 0..0 |-> start])
    <3> HIDE DEF start
    <3> QED OBVIOUS
  <2> QED BY <2>1
<1>2. ASSUME NEW k \in Nat, k \in Good
      PROVE  k + 1 \in Good
  <2>1. PICK u : IsUpTo(k, u)
    BY <1>2
  <2> DEFINE last == AddRow(u[k], Target(top, rows[k + 1]), rows[k + 1])
             t == [i \in 0..(k + 1) |-> IF i = k + 1 THEN last ELSE u[i]]
  <2>2. ASSUME NEW i \in 0..(k + 1)
        PROVE  t[i] = IF i = 0 THEN start ELSE AddRow(t[i - 1], Target(top, rows[i]), rows[i])
    <3>1. CASE i = k + 1
      <4>1. t[i] = last /\ t[i - 1] = u[k] /\ i # 0
        <5> HIDE DEF last
        <5> QED BY <3>1
      <4> QED BY <3>1, <4>1
    <3>2. CASE i # k + 1
      <4>1. i \in 0..k /\ t[i] = u[i]
        BY <3>2
      <4>2. u[i] = IF i = 0 THEN start ELSE AddRow(u[i - 1], Target(top, rows[i]), rows[i])
        <5> HIDE DEF start
        <5> QED BY <2>1, <4>1
      <4>3. i # 0 => t[i - 1] = u[i - 1]
        <5> HIDE DEF last
        <5> QED BY <4>1
      <4> HIDE DEF start, last, t
      <4> QED BY <4>1, <4>2, <4>3
    <3> QED BY <3>1, <3>2
  <2>3. IsUpTo(k + 1, t)
    <3> DEFINE val(i) == IF i = 0 THEN start ELSE AddRow(t[i - 1], Target(top, rows[i]), rows[i])
    <3>1. t = [i \in 0..(k + 1) |-> t[i]]
      OBVIOUS
    <3>2. \A i \in 0..(k + 1) : t[i] = val(i)
      BY <2>2
    <3>3. t = [i \in 0..(k + 1) |-> val(i)]
      <4> HIDE DEF t, val
      <4> QED BY <3>1, <3>2
    <3>4. IsUpTo(k + 1, t) <=> t = [i \in 0..(k + 1) |-> val(i)]
      <4> HIDE DEF t, start
      <4> QED BY Zenon DEF val
    <3> HIDE DEF IsUpTo, t, val
    <3> QED BY <3>3, <3>4
  <2>4. k + 1 \in Nat
    OBVIOUS
  <2> HIDE DEF IsUpTo, t
  <2> QED BY <2>3, <2>4
<1>3. Len(rows) \in Good
  <2>1. Nat \subseteq Good
    <3> HIDE DEF Good
    <3> QED BY <1>1, <1>2, SetInduction
  <2> QED BY <2>1
<1>4. PICK n \in Nat : n = Len(rows)
  OBVIOUS
<1>5. PICK u : IsUpTo(n, u) /\ Series(top, rows) = u[n]
  BY <1>3, <1>4 DEF Series
<1>6. \A i \in 0..n : u[i] = IF i = 0 THEN start ELSE AddRow(u[i - 1], Target(top, rows[i]), rows[i])
  <2> HIDE DEF start
  <2> QED BY <1>5
<1>7. u[0] = start
  BY <1>4, <1>6
<1>8. ASSUME NEW i \in 1..n
      PROVE  u[i] = AddRow(u[i - 1], Target(top, rows[i]), rows[i])
  <2>1. i \in 0..n /\ i # 0
    BY <1>4
  <2> HIDE DEF start
  <2> QED BY <1>6, <2>1
<1> QED BY <1>4, <1>5, <1>7, <1>8 DEF Steps


\* The sum of a row or a point is a bag of events.
LEMMA SumsType ==
  ASSUME NEW a \in Sums
  PROVE  /\ DOMAIN a \subseteq Events /\ a \in [DOMAIN a -> Nat]
         /\ \A e \in DOMAIN a : a[e] \in Nat
<1>1. PICK D \in SUBSET Events : a \in [D -> Nat]
  BY DEF Sums
<1> QED BY <1>1

\* Sums without a common event are merged without loss.
LEMMA MergeDisjoint ==
  ASSUME NEW a \in Sums, NEW b \in Sums, DOMAIN a \intersect DOMAIN b = {}
  PROVE  /\ Merge(a, b) \in Sums /\ DOMAIN Merge(a, b) = DOMAIN a \union DOMAIN b
         /\ \A e \in DOMAIN a : Merge(a, b)[e] = a[e]
         /\ \A e \in DOMAIN b : Merge(a, b)[e] = b[e]
<1> DEFINE D == DOMAIN a \union DOMAIN b
<1>1. DOMAIN a \subseteq Events /\ \A e \in DOMAIN a : a[e] \in Nat
  BY SumsType
<1>2. DOMAIN b \subseteq Events /\ \A e \in DOMAIN b : b[e] \in Nat
  BY SumsType
<1>3. \A e \in DOMAIN a : e \in D /\ e \notin DOMAIN b
  OBVIOUS
<1>4. \A e \in DOMAIN b : e \in D /\ e \notin DOMAIN a
  OBVIOUS
<1>5. DOMAIN Merge(a, b) = D
  BY DEF Merge
<1>6. ASSUME NEW e \in DOMAIN a
      PROVE  Merge(a, b)[e] = a[e]
  BY <1>1, <1>3 DEF Merge
<1>7. ASSUME NEW e \in DOMAIN b
      PROVE  Merge(a, b)[e] = b[e]
  BY <1>2, <1>4 DEF Merge
<1>8. Merge(a, b) \in [D -> Nat]
  <2>1. \A e \in D : Merge(a, b)[e] \in Nat
    BY <1>1, <1>2, <1>6, <1>7
  <2>2. Merge(a, b) = [e \in D |-> Merge(a, b)[e]]
    BY DEF Merge
  <2> HIDE DEF D
  <2> QED BY <2>1, <2>2
<1>9. Merge(a, b) \in Sums
  <2>1. D \in SUBSET Events
    BY <1>1, <1>2
  <2> HIDE DEF D
  <2> QED BY <1>8, <2>1 DEF Sums
<1> QED BY <1>5, <1>6, <1>7, <1>9

\* A row changes the last point of a series: it joins that point when it has
\* its time, and becomes that point otherwise.
LastChanged(p, u, row) ==
  \E m \in Nat :
    /\ DOMAIN u = 1..m /\ m \in DOMAIN u /\ DOMAIN p \subseteq DOMAIN u
    /\ \A i \in DOMAIN u : i # m => i \in DOMAIN p /\ u[i] = p[i] /\ p[i].ts < row.group[1]
    /\ u[m].ts = row.group[1] /\ DOMAIN row.sum \subseteq DOMAIN u[m].sum
    /\ m \in DOMAIN p => p[m].ts = row.group[1] /\ DOMAIN p[m].sum \subseteq DOMAIN u[m].sum
    /\ \A e \in DOMAIN u[m].sum :
         \/ e \in DOMAIN row.sum /\ row.sum[e] = u[m].sum[e]
         \/ m \in DOMAIN p /\ e \in DOMAIN p[m].sum /\ p[m].sum[e] = u[m].sum[e]

\* AddRow changes the series of the row, at its last point only.
LEMMA AddRowSeries ==
  ASSUME NEW T, NEW v \in [T -> Seq(Points)], NEW g \in T, NEW row,
         row.group[1] \in Int, row.sum \in Sums,
         \A i \in DOMAIN v[g] : v[g][i].ts <= row.group[1],
         \A i \in DOMAIN v[g] : DOMAIN v[g][i].sum \intersect DOMAIN row.sum = {},
         \A i, j \in DOMAIN v[g] : i < j => v[g][i].ts < v[g][j].ts
  PROVE  /\ \A h \in T : h # g => AddRow(v, g, row)[h] = v[h]
         /\ AddRow(v, g, row) \in [T -> Seq(Points)]
         /\ LastChanged(v[g], AddRow(v, g, row)[g], row)
<1>1. PICK p : p = v[g]
  OBVIOUS
<1>2. PICK n \in Nat : n = Len(p) /\ DOMAIN p = 1..n /\ p \in Seq(Points)
  BY <1>1
<1>3. \A i \in 1..n : p[i].ts <= row.group[1] /\ DOMAIN p[i].sum \intersect DOMAIN row.sum = {}
  BY <1>1, <1>2
<1>4. \A i \in 1..n : p[i].ts \in Int /\ p[i].sum \in Sums /\ p[i] = [ts |-> p[i].ts, sum |-> p[i].sum]
  <2>1. \A i \in 1..n : p[i] \in Points
    BY <1>2
  <2> QED BY <2>1 DEF Points
<1>5. \A i, j \in 1..n : i < j => p[i].ts < p[j].ts
  BY <1>1, <1>2
<1> DEFINE same == n > 0 /\ p[n].ts = row.group[1]
           joined == [p EXCEPT ![n].sum = Merge(@, row.sum)]
           added == Append(p, [ts |-> row.group[1], sum |-> row.sum])
           new == IF same THEN joined ELSE added
<1>6. AddRow(v, g, row) = [v EXCEPT ![g] = new]
  BY <1>1, <1>2 DEF AddRow
<1>7. CASE same
  <2>1. n \in 1..n
    BY <1>7
  <2>2. PICK m : /\ m = Merge(p[n].sum, row.sum) /\ m \in Sums
                 /\ DOMAIN m = DOMAIN p[n].sum \union DOMAIN row.sum
                 /\ \A e \in DOMAIN p[n].sum : m[e] = p[n].sum[e]
                 /\ \A e \in DOMAIN row.sum : m[e] = row.sum[e]
    <3>1. PICK a \in Sums : a = p[n].sum /\ DOMAIN a \intersect DOMAIN row.sum = {}
      BY <1>3, <1>4, <2>1
    <3>2. PICK b \in Sums : b = row.sum /\ DOMAIN a \intersect DOMAIN b = {}
      BY <3>1
    <3>3. /\ Merge(a, b) \in Sums /\ DOMAIN Merge(a, b) = DOMAIN a \union DOMAIN b
          /\ \A e \in DOMAIN a : Merge(a, b)[e] = a[e]
          /\ \A e \in DOMAIN b : Merge(a, b)[e] = b[e]
      BY <3>2, MergeDisjoint
    <3> QED BY <3>1, <3>2, <3>3
  <2>3. /\ DOMAIN joined = 1..n
        /\ \A i \in 1..n : i # n => joined[i] = p[i]
        /\ joined[n] = [ts |-> row.group[1], sum |-> m]
    <3>1. joined = [p EXCEPT ![n] = [p[n] EXCEPT !.sum = m]]
      BY <1>2, <2>1, <2>2
    <3>2. [p[n] EXCEPT !.sum = m] = [ts |-> row.group[1], sum |-> m]
      <4>1. PICK a, b : p[n] = [ts |-> a, sum |-> b] /\ a = row.group[1]
        BY <1>4, <1>7, <2>1
      <4> QED BY <4>1
    <3> HIDE DEF joined
    <3> QED BY <1>2, <2>1, <3>1, <3>2
  <2>4. joined \in Seq(Points)
    <3>1. [ts |-> row.group[1], sum |-> m] \in Points
      BY <2>2 DEF Points
    <3>2. \A i \in 1..n : p[i] \in Points
      BY <1>2
    <3>3. \A i \in 1..n : joined[i] \in Points
      <4> HIDE DEF joined
      <4> QED BY <2>3, <3>1, <3>2
    <3>4. joined = [i \in 1..n |-> joined[i]]
      BY <1>2
    <3>5. joined \in [1..n -> Points]
      <4> HIDE DEF joined
      <4> QED BY <3>3, <3>4
    <3> HIDE DEF joined
    <3> QED BY <1>2, <3>5
  <2>5. LastChanged(p, joined, row)
    <3>1. joined[n].ts = row.group[1] /\ joined[n].sum = m
      <4> HIDE DEF joined
      <4> QED BY <2>3
    <3>2. \A i \in 1..n : i # n => p[i].ts < row.group[1]
      <4> TAKE i \in 1..n
      <4>1. i # n => i < n
        OBVIOUS
      <4> QED BY <1>5, <1>7, <2>1, <4>1
    <3> HIDE DEF joined
    <3>3. /\ DOMAIN joined = 1..n /\ n \in DOMAIN joined /\ DOMAIN p \subseteq DOMAIN joined
          /\ \A i \in DOMAIN joined : i # n => i \in DOMAIN p /\ joined[i] = p[i] /\ p[i].ts < row.group[1]
      BY <1>2, <2>1, <2>3, <3>2
    <3>4. /\ joined[n].ts = row.group[1] /\ DOMAIN row.sum \subseteq DOMAIN joined[n].sum
          /\ p[n].ts = row.group[1] /\ DOMAIN p[n].sum \subseteq DOMAIN joined[n].sum
      BY <1>7, <2>2, <3>1
    <3>5. \A e \in DOMAIN joined[n].sum :
            \/ e \in DOMAIN row.sum /\ row.sum[e] = joined[n].sum[e]
            \/ n \in DOMAIN p /\ e \in DOMAIN p[n].sum /\ p[n].sum[e] = joined[n].sum[e]
      BY <1>2, <2>1, <2>2, <3>1
    <3> QED BY <3>3, <3>4, <3>5 DEF LastChanged
  <2>6. AddRow(v, g, row) = [v EXCEPT ![g] = joined]
    BY <1>6, <1>7
  <2> HIDE DEF joined
  <2> QED BY <1>1, <2>4, <2>5, <2>6
<1>8. CASE ~same
  <2>1. PICK a : a = [ts |-> row.group[1], sum |-> row.sum] /\ a \in Points
    <3>1. [ts |-> row.group[1], sum |-> row.sum] \in Points
      BY DEF Points
    <3> QED BY <3>1
  <2>2. /\ added \in Seq(Points) /\ DOMAIN added = 1..(n + 1)
        /\ \A i \in 1..n : added[i] = p[i]
        /\ added[n + 1] = a
    BY <1>2, <2>1
  <2>3. \A i \in 1..n : p[i].ts < row.group[1]
    <3> TAKE i \in 1..n
    <3>1. n \in 1..n
      OBVIOUS
    <3>2. p[n].ts # row.group[1] /\ p[n].ts <= row.group[1]
      BY <1>3, <1>8, <3>1
    <3>3. i = n \/ i < n
      OBVIOUS
    <3>4. i < n => p[i].ts < p[n].ts
      BY <1>5, <3>1
    <3>5. p[i].ts \in Int /\ p[n].ts \in Int
      BY <1>4, <3>1
    <3>6. p[n].ts < row.group[1]
      BY <3>2, <3>5
    <3> QED BY <3>3, <3>4, <3>5, <3>6
  <2>4. LastChanged(p, added, row)
    <3> HIDE DEF added
    <3>1. added[n + 1].ts = row.group[1] /\ added[n + 1].sum = row.sum
      BY <2>1, <2>2
    <3>2. \A i \in 1..(n + 1) : i # n + 1 => i \in 1..n
      OBVIOUS
    <3>3. /\ n + 1 \in Nat /\ DOMAIN added = 1..(n + 1) /\ n + 1 \in DOMAIN added
          /\ DOMAIN p \subseteq DOMAIN added /\ n + 1 \notin DOMAIN p
      BY <1>2, <2>2
    <3>4. \A i \in DOMAIN added :
            i # n + 1 => i \in DOMAIN p /\ added[i] = p[i] /\ p[i].ts < row.group[1]
      BY <1>2, <2>2, <2>3, <3>2
    <3> QED BY <3>1, <3>3, <3>4 DEF LastChanged
  <2>5. AddRow(v, g, row) = [v EXCEPT ![g] = added]
    BY <1>6, <1>8
  <2> HIDE DEF added
  <2> QED BY <1>1, <2>2, <2>4, <2>5
<1> QED BY <1>7, <1>8

\* What the loop has made of the rows 1..k: the points of a series are of
\* increasing times, each the time of a row, ...
Ordered(v, T) == \A g \in T : \A i, j \in DOMAIN v[g] : i < j => v[g][i].ts < v[g][j].ts
Timed(v, T, rows, k) ==
  \A g \in T : \A i \in DOMAIN v[g] : \E j \in 1..k : v[g][i].ts = rows[j].group[1]

\* ... each event of a row is in a point of the row's series and time, ...
PutIn(v, to, rows, k) ==
  \A j \in 1..k : \A e \in DOMAIN rows[j].sum :
    \E i \in DOMAIN v[to[j]] : v[to[j]][i].ts = rows[j].group[1] /\ e \in DOMAIN v[to[j]][i].sum

\* ... and a point has no event that does not come from such a row.
TakenFrom(v, T, to, rows, k) ==
  \A g \in T : \A i \in DOMAIN v[g] : \A e \in DOMAIN v[g][i].sum :
    \E j \in 1..k : /\ to[j] = g /\ rows[j].group[1] = v[g][i].ts
                    /\ e \in DOMAIN rows[j].sum /\ rows[j].sum[e] = v[g][i].sum[e]

Joined(v, T, to, rows, k) ==
  /\ v \in [T -> Seq(Points)]
  /\ Ordered(v, T) /\ Timed(v, T, rows, k) /\ PutIn(v, to, rows, k) /\ TakenFrom(v, T, to, rows, k)

\* The time and the sum of a row.
LEMMA GroupedRow ==
  ASSUME NEW rows, Grouped(rows), NEW i \in DOMAIN rows
  PROVE  rows[i].group[1] \in Int /\ rows[i].sum \in Sums
<1>1. DOMAIN rows[i].sum \subseteq Events /\ rows[i].sum \in [DOMAIN rows[i].sum -> Nat]
  BY DEF Grouped
<1>2. DOMAIN rows[i].sum \in SUBSET Events
  BY <1>1
<1>3. rows[i].sum \in Sums
  BY <1>1, <1>2 DEF Sums
<1> QED BY <1>3 DEF Grouped

\* One more row is joined as the others were.
LEMMA JoinRow ==
  ASSUME NEW rows, Grouped(rows), NEW T, NEW to \in [DOMAIN rows -> T],
         NEW k \in Nat, k + 1 \in DOMAIN rows, NEW v, Joined(v, T, to, rows, k)
  PROVE  Joined(AddRow(v, to[k + 1], rows[k + 1]), T, to, rows, k + 1)
<1>1. PICK row : row = rows[k + 1]
  OBVIOUS
<1>2. PICK g \in T : g = to[k + 1]
  OBVIOUS
<1>3. PICK w : w = AddRow(v, g, row)
  OBVIOUS
<1>4. PICK p : p = v[g]
  OBVIOUS
<1>5. row.group[1] \in Int /\ row.sum \in Sums
  BY <1>1, GroupedRow
<1>6. v \in [T -> Seq(Points)] /\ Ordered(v, T) /\ Timed(v, T, rows, k)
      /\ PutIn(v, to, rows, k) /\ TakenFrom(v, T, to, rows, k)
  BY DEF Joined
<1>7. 1..(k + 1) \subseteq DOMAIN rows /\ \A j \in 1..k : j < k + 1 /\ j \in 1..(k + 1)
  BY DEF Grouped
<1>8. \A j \in 1..k : DOMAIN rows[j].sum \intersect DOMAIN row.sum = {}
  <2> TAKE j \in 1..k
  <2>1. j \in DOMAIN rows /\ j # k + 1
    BY <1>7
  <2> QED BY <1>1, <2>1 DEF Grouped
<1>9. \A i \in DOMAIN p : DOMAIN p[i].sum \intersect DOMAIN row.sum = {}
  BY <1>4, <1>6, <1>8 DEF TakenFrom
<1>10. \A i \in DOMAIN p : p[i].ts <= row.group[1]
  <2> TAKE i \in DOMAIN p
  <2>1. PICK j \in 1..k : p[i].ts = rows[j].group[1]
    BY <1>4, <1>6 DEF Timed
  <2>2. j \in DOMAIN rows /\ j < k + 1
    BY <1>7
  <2>3. rows[j].group[1] <= row.group[1]
    BY <1>1, <2>2 DEF Grouped
  <2> QED BY <2>1, <2>3
<1>11. \A i, j \in DOMAIN p : i < j => p[i].ts < p[j].ts
  BY <1>4, <1>6 DEF Ordered
<1>12. /\ \A h \in T : h # g => w[h] = v[h]
       /\ w \in [T -> Seq(Points)]
       /\ LastChanged(p, w[g], row)
  <2>1. v \in [T -> Seq(Points)]
    BY <1>6
  <2>2. /\ \A i \in DOMAIN v[g] : v[g][i].ts <= row.group[1]
        /\ \A i \in DOMAIN v[g] : DOMAIN v[g][i].sum \intersect DOMAIN row.sum = {}
        /\ \A i, j \in DOMAIN v[g] : i < j => v[g][i].ts < v[g][j].ts
    BY <1>4, <1>9, <1>10, <1>11
  <2>3. /\ \A h \in T : h # g => AddRow(v, g, row)[h] = v[h]
        /\ AddRow(v, g, row) \in [T -> Seq(Points)]
        /\ LastChanged(v[g], AddRow(v, g, row)[g], row)
    BY <1>5, <2>1, <2>2, AddRowSeries
  <2> QED BY <1>3, <1>4, <2>3
<1>13. PICK u : u = w[g]
  OBVIOUS
<1>14. PICK m \in Nat :
         /\ DOMAIN u = 1..m /\ m \in DOMAIN u /\ DOMAIN p \subseteq DOMAIN u
         /\ \A i \in DOMAIN u : i # m => i \in DOMAIN p /\ u[i] = p[i] /\ p[i].ts < row.group[1]
         /\ u[m].ts = row.group[1] /\ DOMAIN row.sum \subseteq DOMAIN u[m].sum
         /\ m \in DOMAIN p => p[m].ts = row.group[1] /\ DOMAIN p[m].sum \subseteq DOMAIN u[m].sum
         /\ \A e \in DOMAIN u[m].sum :
              \/ e \in DOMAIN row.sum /\ row.sum[e] = u[m].sum[e]
              \/ m \in DOMAIN p /\ e \in DOMAIN p[m].sum /\ p[m].sum[e] = u[m].sum[e]
  BY <1>12, <1>13 DEF LastChanged
<1>15. Ordered(w, T)
  <2> SUFFICES ASSUME NEW h \in T, NEW i \in DOMAIN w[h], NEW j \in DOMAIN w[h], i < j
               PROVE  w[h][i].ts < w[h][j].ts
    BY DEF Ordered
  <2>1. CASE h # g
    <3>1. w[h] = v[h]
      BY <1>12, <2>1
    <3> QED BY <1>6, <3>1 DEF Ordered
  <2>2. CASE h = g
    <3>1. i \in DOMAIN u /\ j \in DOMAIN u /\ i \in 1..m /\ j \in 1..m /\ w[h] = u
      BY <1>13, <1>14, <2>2
    <3>2. i # m
      BY <3>1
    <3>3. CASE j = m
      BY <1>14, <3>1, <3>2, <3>3
    <3>4. CASE j # m
      BY <1>11, <1>14, <3>1, <3>2, <3>4
    <3> QED BY <3>3, <3>4
  <2> QED BY <2>1, <2>2
<1>16. Timed(w, T, rows, k + 1)
  <2> SUFFICES ASSUME NEW h \in T, NEW i \in DOMAIN w[h]
               PROVE  \E j \in 1..(k + 1) : w[h][i].ts = rows[j].group[1]
    BY DEF Timed
  <2>1. CASE h = g /\ i = m
    <3>1. w[h][i].ts = rows[k + 1].group[1]
      BY <1>1, <1>13, <1>14, <2>1
    <3> QED BY <3>1
  <2>2. CASE ~(h = g /\ i = m)
    <3>1. i \in DOMAIN v[h] /\ w[h][i] = v[h][i]
      BY <1>4, <1>12, <1>13, <1>14, <2>2
    <3> QED BY <1>6, <1>7, <3>1 DEF Timed
  <2> QED BY <2>1, <2>2
<1>17. PutIn(w, to, rows, k + 1)
  <2> SUFFICES ASSUME NEW j \in 1..(k + 1), NEW e \in DOMAIN rows[j].sum
               PROVE  \E i \in DOMAIN w[to[j]] :
                        w[to[j]][i].ts = rows[j].group[1] /\ e \in DOMAIN w[to[j]][i].sum
    BY DEF PutIn
  <2>1. CASE j = k + 1
    <3>1. to[j] = g /\ rows[j] = row /\ w[to[j]] = u
      BY <1>1, <1>2, <1>13, <2>1
    <3> QED BY <1>14, <3>1
  <2>2. CASE j # k + 1
    <3>1. j \in 1..k /\ to[j] \in T
      BY <1>7, <2>2
    <3>2. PICK i \in DOMAIN v[to[j]] : v[to[j]][i].ts = rows[j].group[1] /\ e \in DOMAIN v[to[j]][i].sum
      BY <1>6, <3>1 DEF PutIn
    <3>3. CASE to[j] # g
      BY <1>12, <3>1, <3>2, <3>3
    <3>4. CASE to[j] = g
      <4>1. i \in DOMAIN p /\ i \in DOMAIN u /\ w[to[j]] = u /\ v[to[j]] = p
        BY <1>4, <1>13, <1>14, <3>2, <3>4
      <4>2. CASE i = m
        BY <1>14, <3>2, <4>1, <4>2
      <4>3. CASE i # m
        BY <1>14, <3>2, <4>1, <4>3
      <4> QED BY <4>2, <4>3
    <3> QED BY <3>3, <3>4
  <2> QED BY <2>1, <2>2
<1>18. TakenFrom(w, T, to, rows, k + 1)
  <2> SUFFICES ASSUME NEW h \in T, NEW i \in DOMAIN w[h], NEW e \in DOMAIN w[h][i].sum
               PROVE  \E j \in 1..(k + 1) :
                        /\ to[j] = h /\ rows[j].group[1] = w[h][i].ts
                        /\ e \in DOMAIN rows[j].sum /\ rows[j].sum[e] = w[h][i].sum[e]
    BY DEF TakenFrom
  <2>1. ASSUME i \in DOMAIN v[h], v[h][i].ts = w[h][i].ts,
               e \in DOMAIN v[h][i].sum, v[h][i].sum[e] = w[h][i].sum[e]
        PROVE  \E j \in 1..(k + 1) :
                 /\ to[j] = h /\ rows[j].group[1] = w[h][i].ts
                 /\ e \in DOMAIN rows[j].sum /\ rows[j].sum[e] = w[h][i].sum[e]
    <3>1. PICK j \in 1..k : /\ to[j] = h /\ rows[j].group[1] = v[h][i].ts
                            /\ e \in DOMAIN rows[j].sum /\ rows[j].sum[e] = v[h][i].sum[e]
      BY <1>6, <2>1 DEF TakenFrom
    <3>2. j \in 1..(k + 1)
      BY <1>7
    <3> QED BY <2>1, <3>1, <3>2
  <2>2. CASE h = g /\ i = m
    <3>1. w[h] = u /\ v[h] = p /\ e \in DOMAIN u[m].sum
      BY <1>4, <1>13, <2>2
    <3>2. CASE e \in DOMAIN row.sum /\ row.sum[e] = u[m].sum[e]
      <4>1. /\ to[k + 1] = h /\ rows[k + 1].group[1] = w[h][i].ts
            /\ e \in DOMAIN rows[k + 1].sum /\ rows[k + 1].sum[e] = w[h][i].sum[e]
        BY <1>1, <1>2, <1>14, <2>2, <3>1, <3>2
      <4> QED BY <4>1
    <3>3. CASE m \in DOMAIN p /\ e \in DOMAIN p[m].sum /\ p[m].sum[e] = u[m].sum[e]
      <4>1. p[m].ts = u[m].ts
        BY <1>14, <3>3
      <4> QED BY <2>1, <2>2, <3>1, <3>3, <4>1
    <3> QED BY <1>14, <3>1, <3>2, <3>3
  <2>3. CASE ~(h = g /\ i = m)
    <3>1. i \in DOMAIN v[h] /\ w[h][i] = v[h][i]
      BY <1>4, <1>12, <1>13, <1>14, <2>3
    <3> QED BY <2>1, <3>1
  <2> QED BY <2>2, <2>3
<1> QED BY <1>1, <1>2, <1>3, <1>12, <1>15, <1>16, <1>17, <1>18 DEF Joined


\* All rows are joined when the loop ends.
LEMMA SeriesJoined ==
  ASSUME NEW rows, Grouped(rows), NEW top, NEW to,
         to = [j \in DOMAIN rows |-> Target(top, rows[j])]
  PROVE  Joined(Series(top, rows), top \union {"_other"}, to, rows, Len(rows))
<1>1. PICK T : T = top \union {"_other"}
  OBVIOUS
<1>2. PICK n \in Nat : n = Len(rows) /\ DOMAIN rows = 1..n
  BY DEF Grouped
<1>3. PICK s : Steps(s, top, rows) /\ Series(top, rows) = s[Len(rows)]
  BY <1>2, SeriesLoop
<1>4. to \in [DOMAIN rows -> T]
  <2>1. \A j \in DOMAIN rows : Target(top, rows[j]) \in T
    BY <1>1 DEF Target
  <2> QED BY <2>1
<1> DEFINE Good == {k \in Nat : k <= n => Joined(s[k], T, to, rows, k)}
<1>5. 0 \in Good
  <2>1. PICK v : v = s[0] /\ v = [g \in T |-> <<>>]
    BY <1>1, <1>3 DEF Steps
  <2>2. <<>> \in Seq(Points) /\ DOMAIN <<>> = {}
    OBVIOUS
  <2>3. v \in [T -> Seq(Points)] /\ \A g \in T : DOMAIN v[g] = {}
    BY <2>1, <2>2
  <2>4. Ordered(v, T) /\ Timed(v, T, rows, 0) /\ TakenFrom(v, T, to, rows, 0)
    BY <2>3 DEF Ordered, Timed, TakenFrom
  <2>5. PutIn(v, to, rows, 0)
    BY DEF PutIn
  <2> QED BY <2>1, <2>3, <2>4, <2>5 DEF Joined
<1>6. ASSUME NEW k \in Nat, k \in Good
      PROVE  k + 1 \in Good
  <2> SUFFICES ASSUME k + 1 <= n
               PROVE  Joined(s[k + 1], T, to, rows, k + 1)
    OBVIOUS
  <2>1. k + 1 \in DOMAIN rows /\ k + 1 \in 1..n
    BY <1>2
  <2>2. Joined(s[k], T, to, rows, k)
    BY <1>6
  <2>3. Joined(AddRow(s[k], to[k + 1], rows[k + 1]), T, to, rows, k + 1)
    BY <1>4, <2>1, <2>2, JoinRow
  <2>4. s[k + 1] = AddRow(s[(k + 1) - 1], Target(top, rows[k + 1]), rows[k + 1])
    BY <1>2, <1>3, <2>1 DEF Steps
  <2>5. (k + 1) - 1 = k /\ to[k + 1] = Target(top, rows[k + 1])
    BY <2>1
  <2> QED BY <2>3, <2>4, <2>5
<1>7. n \in Good
  <2>1. Nat \subseteq Good
    <3> HIDE DEF Good
    <3> QED BY <1>5, <1>6, SetInduction
  <2> QED BY <2>1
<1> QED BY <1>1, <1>2, <1>3, <1>7

\* The series of joined rows, those without points left out or not, have
\* every event of the rows in one point, of its time.
LEMMA JoinedPartitions ==
  ASSUME NEW rows, Grouped(rows), NEW T, NEW to \in [DOMAIN rows -> T],
         NEW v, Joined(v, T, to, rows, Len(rows)),
         NEW shown \in SUBSET T, \A g \in T : g \notin shown => v[g] = <<>>
  PROVE  Partitions({[group |-> g, points |-> v[g]] : g \in shown}, Range(rows))
<1>1. PICK n \in Nat : n = Len(rows) /\ DOMAIN rows = 1..n
  BY DEF Grouped
<1>2. /\ v \in [T -> Seq(Points)]
      /\ Ordered(v, T) /\ PutIn(v, to, rows, n) /\ TakenFrom(v, T, to, rows, n)
  BY <1>1 DEF Joined
<1> DEFINE series == {[group |-> g, points |-> v[g]] : g \in shown}
           points == UNION {{[of |-> s.group, ts |-> p.ts, sum |-> p.sum] : p \in Range(s.points)} : s \in series}
<1>3. ASSUME NEW s \in series, NEW i \in DOMAIN s.points, NEW j \in DOMAIN s.points, i < j
      PROVE  s.points[i].ts < s.points[j].ts
  <2>1. PICK g \in shown : s = [group |-> g, points |-> v[g]]
    OBVIOUS
  <2>2. s.points = v[g] /\ g \in T
    BY <2>1
  <2> HIDE DEF series
  <2>3. i \in DOMAIN v[g] /\ j \in DOMAIN v[g]
    BY <2>2
  <2> QED BY <1>2, <1>3, <2>2, <2>3 DEF Ordered
<1>4. ASSUME NEW g \in shown, NEW i \in DOMAIN v[g]
      PROVE  [of |-> g, ts |-> v[g][i].ts, sum |-> v[g][i].sum] \in points
  <2>1. PICK s \in series : s.group = g /\ s.points = v[g]
    <3>1. [group |-> g, points |-> v[g]] \in series
      OBVIOUS
    <3> HIDE DEF series
    <3> QED BY <3>1
  <2>2. v[g][i] \in Range(s.points)
    BY <2>1 DEF Range
  <2> HIDE DEF series
  <2> QED BY <2>1, <2>2
<1>5. ASSUME NEW p \in points
      PROVE  \E g \in shown : \E i \in DOMAIN v[g] :
               p = [of |-> g, ts |-> v[g][i].ts, sum |-> v[g][i].sum]
  <2>1. PICK s \in series : p \in {[of |-> s.group, ts |-> x.ts, sum |-> x.sum] : x \in Range(s.points)}
    <3> HIDE DEF series
    <3> QED OBVIOUS
  <2>2. PICK g \in shown : s = [group |-> g, points |-> v[g]]
    OBVIOUS
  <2>3. s.group = g /\ s.points = v[g]
    BY <2>2
  <2> HIDE DEF series
  <2>4. PICK x \in Range(v[g]) : p = [of |-> g, ts |-> x.ts, sum |-> x.sum]
    BY <2>1, <2>3
  <2>5. PICK i \in DOMAIN v[g] : x = v[g][i]
    BY DEF Range
  <2> QED BY <2>4, <2>5
<1>6. ASSUME NEW row \in Range(rows), NEW e \in DOMAIN row.sum
      PROVE  \E p \in points : p.ts = row.group[1] /\ e \in DOMAIN p.sum
  <2>1. PICK j \in 1..n : row = rows[j]
    BY <1>1 DEF Range
  <2>2. to[j] \in T
    BY <1>1
  <2>3. PICK i \in DOMAIN v[to[j]] : v[to[j]][i].ts = rows[j].group[1] /\ e \in DOMAIN v[to[j]][i].sum
    BY <1>2, <2>1 DEF PutIn
  <2>4. to[j] \in shown
    <3>1. DOMAIN <<>> = {}
      OBVIOUS
    <3> QED BY <2>2, <2>3, <3>1
  <2>5. [of |-> to[j], ts |-> v[to[j]][i].ts, sum |-> v[to[j]][i].sum] \in points
    BY <1>4, <2>4
  <2> HIDE DEF points
  <2> QED BY <2>1, <2>3, <2>5
<1>7. ASSUME NEW p \in points, NEW e \in DOMAIN p.sum
      PROVE  \E j \in 1..n : \E i \in DOMAIN v[to[j]] :
               /\ p = [of |-> to[j], ts |-> v[to[j]][i].ts, sum |-> v[to[j]][i].sum]
               /\ rows[j].group[1] = p.ts /\ e \in DOMAIN rows[j].sum /\ rows[j].sum[e] = p.sum[e]
  <2>1. PICK g \in shown : \E i \in DOMAIN v[g] :
          p = [of |-> g, ts |-> v[g][i].ts, sum |-> v[g][i].sum]
    BY <1>5
  <2>2. PICK i \in DOMAIN v[g] : p = [of |-> g, ts |-> v[g][i].ts, sum |-> v[g][i].sum]
    BY <2>1
  <2> HIDE DEF points
  <2>3. e \in DOMAIN v[g][i].sum /\ g \in T /\ p.ts = v[g][i].ts /\ p.sum = v[g][i].sum
    BY <2>2
  <2>4. PICK j \in 1..n : /\ to[j] = g /\ rows[j].group[1] = v[g][i].ts
                          /\ e \in DOMAIN rows[j].sum /\ rows[j].sum[e] = v[g][i].sum[e]
    BY <1>2, <2>3 DEF TakenFrom
  <2> QED BY <2>2, <2>3, <2>4
<1>8. ASSUME NEW p \in points, NEW e \in DOMAIN p.sum
      PROVE  \E row \in Range(rows) :
               row.group[1] = p.ts /\ e \in DOMAIN row.sum /\ row.sum[e] = p.sum[e]
  <2>1. PICK j \in 1..n : rows[j].group[1] = p.ts /\ e \in DOMAIN rows[j].sum /\ rows[j].sum[e] = p.sum[e]
    BY <1>7
  <2>2. rows[j] \in Range(rows)
    BY <1>1 DEF Range
  <2> QED BY <2>1, <2>2
<1>9. ASSUME NEW p \in points, NEW d \in points, NEW e \in DOMAIN p.sum, e \in DOMAIN d.sum
      PROVE  d = p
  <2>1. PICK j \in 1..n : \E i \in DOMAIN v[to[j]] :
          /\ p = [of |-> to[j], ts |-> v[to[j]][i].ts, sum |-> v[to[j]][i].sum]
          /\ rows[j].group[1] = p.ts /\ e \in DOMAIN rows[j].sum
    BY <1>7
  <2>2. PICK i \in DOMAIN v[to[j]] :
          /\ p = [of |-> to[j], ts |-> v[to[j]][i].ts, sum |-> v[to[j]][i].sum]
          /\ rows[j].group[1] = p.ts /\ e \in DOMAIN rows[j].sum
    BY <2>1
  <2>3. PICK l \in 1..n : \E m \in DOMAIN v[to[l]] :
          /\ d = [of |-> to[l], ts |-> v[to[l]][m].ts, sum |-> v[to[l]][m].sum]
          /\ rows[l].group[1] = d.ts /\ e \in DOMAIN rows[l].sum
    BY <1>7, <1>9
  <2>4. PICK m \in DOMAIN v[to[l]] :
          /\ d = [of |-> to[l], ts |-> v[to[l]][m].ts, sum |-> v[to[l]][m].sum]
          /\ rows[l].group[1] = d.ts /\ e \in DOMAIN rows[l].sum
    BY <2>3
  <2> HIDE DEF points
  <2>5. j = l
    BY <1>1, <2>2, <2>4 DEF Grouped
  <2>6. p.ts = d.ts /\ p.ts = v[to[j]][i].ts /\ d.ts = v[to[j]][m].ts /\ m \in DOMAIN v[to[j]]
    BY <2>2, <2>4, <2>5
  <2>7. p.ts \in Int
    BY <1>1, <2>2 DEF Grouped
  <2>8. to[j] \in T /\ v[to[j]] \in Seq(Points)
    BY <1>1, <1>2
  <2>9. i \in Nat /\ m \in Nat
    BY <2>6, <2>8
  <2>10. ~(i < m) /\ ~(m < i)
    <3>1. i < m => v[to[j]][i].ts < v[to[j]][m].ts
      BY <1>2, <2>6, <2>8 DEF Ordered
    <3>2. m < i => v[to[j]][m].ts < v[to[j]][i].ts
      BY <1>2, <2>6, <2>8 DEF Ordered
    <3>3. PICK t \in Int : t = v[to[j]][i].ts /\ t = v[to[j]][m].ts
      BY <2>6, <2>7
    <3>4. ~(v[to[j]][i].ts < v[to[j]][m].ts) /\ ~(v[to[j]][m].ts < v[to[j]][i].ts)
      BY <3>3
    <3> QED BY <3>1, <3>2, <3>4
  <2>11. i = m
    BY <2>9, <2>10
  <2> QED BY <2>2, <2>4, <2>5, <2>11
<1> HIDE DEF series, points
<1>10. /\ \A s \in series : \A i, j \in DOMAIN s.points : i < j => s.points[i].ts < s.points[j].ts
       /\ \A row \in Range(rows) : \A e \in DOMAIN row.sum :
            \E p \in points : p.ts = row.group[1] /\ e \in DOMAIN p.sum
       /\ \A p \in points : \A e \in DOMAIN p.sum :
            /\ \E row \in Range(rows) :
                 row.group[1] = p.ts /\ e \in DOMAIN row.sum /\ row.sum[e] = p.sum[e]
            /\ \A d \in points : e \in DOMAIN d.sum => d = p
  BY <1>3, <1>6, <1>8, <1>9
<1>11. points = UNION {{[of |-> s.group, ts |-> p.ts, sum |-> p.sum] : p \in Range(s.points)} : s \in series}
  BY DEF points
<1>12. Partitions(series, Range(rows))
  BY <1>10, <1>11 DEF Partitions
<1> QED BY <1>12 DEF series


\* Named series: whatever groups the first query chose.
LEMMA BucketIsPartition ==
  ASSUME NEW rows, Grouped(rows), NEW top
  PROVE  Partitions(Bucket(top, rows), Range(rows))
<1>1. PICK T : T = top \union {"_other"}
  OBVIOUS
<1>2. PICK v : v = Series(top, rows)
  OBVIOUS
<1>3. PICK to : to = [j \in DOMAIN rows |-> Target(top, rows[j])]
  OBVIOUS
<1>4. Joined(v, T, to, rows, Len(rows))
  BY <1>1, <1>2, <1>3, SeriesJoined
<1>5. to \in [DOMAIN rows -> T]
  <2>1. \A j \in DOMAIN rows : Target(top, rows[j]) \in T
    BY <1>1 DEF Target
  <2> QED BY <1>3, <2>1
<1>6. PICK shown \in SUBSET T : shown = {h \in T : v[h] # <<>>}
  OBVIOUS
<1>7. Partitions({[group |-> g, points |-> v[g]] : g \in shown}, Range(rows))
  <2>1. \A g \in T : g \notin shown => v[g] = <<>>
    BY <1>6
  <2> QED BY <1>4, <1>5, <2>1, JoinedPartitions
<1>8. Bucket(top, rows) = {[group |-> g, points |-> v[g]] : g \in shown}
  BY <1>1, <1>2, <1>6, Zenon DEF Bucket
<1> QED BY <1>7, <1>8

\* One series without groups: its rows have different times.
LEMMA TotalIsPartition ==
  ASSUME NEW rows, Grouped(rows),
         \A i, j \in DOMAIN rows : i < j => rows[i].group[1] < rows[j].group[1]
  PROVE  Partitions(getTimeseriesTotal(rows), Range(rows))
<1>1. PICK n \in Nat : n = Len(rows) /\ DOMAIN rows = 1..n
  BY DEF Grouped
<1>2. PICK pts : pts = [i \in 1..n |-> [ts |-> rows[i].group[1], sum |-> rows[i].sum]]
  OBVIOUS
<1>3. DOMAIN pts = 1..n /\ \A i \in 1..n : pts[i].ts = rows[i].group[1] /\ pts[i].sum = rows[i].sum
  BY <1>2
<1>4. pts \in Seq(Points)
  <2>1. \A i \in 1..n : [ts |-> rows[i].group[1], sum |-> rows[i].sum] \in Points
    <3> TAKE i \in 1..n
    <3>1. rows[i].group[1] \in Int /\ rows[i].sum \in Sums
      BY <1>1, GroupedRow
    <3> QED BY <3>1 DEF Points
  <2>2. pts \in [1..n -> Points]
    BY <1>2, <2>1
  <2> QED BY <2>2
<1>5. PICK T : T = {"_total"}
  OBVIOUS
<1>6. PICK v : v = [g \in T |-> pts]
  OBVIOUS
<1>7. PICK to : to = [j \in DOMAIN rows |-> "_total"]
  OBVIOUS
<1>8. to \in [DOMAIN rows -> T] /\ v \in [T -> Seq(Points)] /\ \A g \in T : v[g] = pts /\ g = "_total"
  BY <1>4, <1>5, <1>6, <1>7
<1>9. Ordered(v, T)
  BY <1>1, <1>3, <1>8 DEF Ordered
<1>10. Timed(v, T, rows, n)
  BY <1>3, <1>8 DEF Timed
<1>11. \A j \in 1..n : to[j] \in T /\ to[j] = "_total"
  BY <1>1, <1>5, <1>7
<1>12. PutIn(v, to, rows, n)
  BY <1>3, <1>8, <1>11 DEF PutIn
<1>13. TakenFrom(v, T, to, rows, n)
  BY <1>3, <1>8, <1>11 DEF TakenFrom
<1>14. Joined(v, T, to, rows, Len(rows))
  BY <1>1, <1>8, <1>9, <1>10, <1>12, <1>13 DEF Joined
<1>15. Partitions({[group |-> g, points |-> v[g]] : g \in T}, Range(rows))
  <2>1. PICK shown \in SUBSET T : shown = T
    OBVIOUS
  <2>2. \A g \in T : g \notin shown => v[g] = <<>>
    BY <2>1
  <2>3. to \in [DOMAIN rows -> T]
    BY <1>8
  <2>4. Partitions({[group |-> g, points |-> v[g]] : g \in shown}, Range(rows))
    BY <1>14, <2>2, <2>3, JoinedPartitions
  <2> QED BY <2>1, <2>4
<1>16. getTimeseriesTotal(rows) = {[group |-> "_total", points |-> pts]}
  BY <1>1, <1>2 DEF getTimeseriesTotal
<1>17. {[group |-> g, points |-> v[g]] : g \in T} = {[group |-> "_total", points |-> pts]}
  BY <1>5, <1>8
<1> QED BY <1>15, <1>16, <1>17


-----------------------------------------------------------------------------
(* What is stored later changes no answer *)

\* The clock goes on, and a row that comes now was not there before.
Later ==
  /\ now \in Int /\ now' \in Int /\ now <= now'
  /\ \A x : x.at \in 0..now => There(x)' \subseteq There(x)

\* Every step goes on so.
LEMMA NextLater ==
  ASSUME TypeOK, Next
  PROVE  Later
<1>1. now \in Int /\ \A e \in Events : since[e] \in Int
  BY DEF TypeOK, Never
<1>2. CASE UNCHANGED <<now, inserted, since>>
  BY <1>1, <1>2 DEF Later, There, Mine, Stored
<1>3. CASE Tick
  BY <1>1, <1>3 DEF Tick, Later, There, Mine, Stored
<1>4. ASSUME NEW d \in Events, Insert(d)
      PROVE  Later
  <2>1. /\ now' = now /\ inserted' = [inserted EXCEPT ![d] = @ + 1]
        /\ since' = [since EXCEPT ![d] = IF @ = Never THEN now ELSE @]
    BY <1>4 DEF Insert
  <2>2. ASSUME NEW x, x.at \in 0..now, NEW e \in There(x)'
        PROVE  e \in There(x)
    <3>1. /\ e \in Events /\ inserted'[e] > 0 /\ since'[e] < x.at
          /\ Attr[e].org = x.q.org /\ x.q.project \in {"", Attr[e].project}
      BY DEF There, Mine, Stored
    <3>2. CASE since[e] = Never /\ e = d
      <4>1. since'[e] = now
        BY <2>1, <3>1, <3>2 DEF TypeOK
      <4>2. now < x.at
        BY <3>1, <4>1
      <4>3. x.at <= now /\ x.at \in Int
        BY <1>1, <2>2
      <4> QED BY <1>1, <4>2, <4>3
    <3>3. CASE since[e] # Never
      <4>1. since'[e] = since[e]
        BY <2>1, <3>1, <3>3 DEF TypeOK
      <4>2. inserted[e] > 0
        <5>1. inserted[e] # 0 /\ inserted[e] \in Nat
          BY <3>1, <3>3 DEF TypeOK
        <5> QED BY <5>1
      <4> QED BY <3>1, <4>1, <4>2 DEF There, Mine, Stored
    <3>4. CASE e # d
      <4>1. since'[e] = since[e] /\ inserted'[e] = inserted[e]
        BY <2>1, <3>1, <3>4 DEF TypeOK
      <4> QED BY <3>1, <4>1 DEF There, Mine, Stored
    <3> QED BY <3>2, <3>3, <3>4
  <2>3. \A x : x.at \in 0..now => There(x)' \subseteq There(x)
    BY <2>2
  <2> QED BY <1>1, <2>1, <2>3 DEF Later
<1>5. ASSUME NEW r \in Requests,
             \/ CheckCache(r) \/ CacheFails(r) \/ SendQuery(r) \/ QueryFails(r)
             \/ RowsCutShort(r) \/ Fill(r)
             \/ \E q \in Questions : Ask(r, q)
      PROVE  UNCHANGED <<now, inserted, since>>
  BY <1>5 DEF CheckCache, CacheFails, SendQuery, QueryFails, RowsCutShort, Fill, Ask
<1> QED BY <1>2, <1>3, <1>4, <1>5 DEF Next

\* What was read of a period stays all there was in it.
LEMMA HonestHoursStable ==
  ASSUME NEW x, NEW bag, NEW from, NEW to, HonestHours(x, bag, from, to), There(x)' \subseteq There(x)
  PROVE  HonestHours(x, bag, from, to)'
BY DEF HonestHours

\* The same of the detail rows ...
LEMMA HonestDetailStable ==
  ASSUME NEW x, NEW rows, HonestDetail(x, rows), There(x)' \subseteq There(x)
  PROVE  HonestDetail(x, rows)'
BY DEF HonestDetail, Grouped

\* ... and of all that a request has read.
LEMMA HonestStable ==
  ASSUME NEW x, Honest(x), There(x)' \subseteq There(x)
  PROVE  Honest(x)'
<1>1. ASSUME x.q.endpoint = "overview", "current" \in DOMAIN x.parts
      PROVE  HonestHours(x, x.parts["current"], x.from, x.to)'
  <2>1. HonestHours(x, x.parts["current"], x.from, x.to)
    BY <1>1 DEF Honest
  <2> QED BY <2>1, HonestHoursStable
<1>2. ASSUME x.q.endpoint = "overview", "previous" \in DOMAIN x.parts
      PROVE  HonestHours(x, x.parts["previous"], x.from - (x.to - x.from), x.from)'
  <2>1. HonestHours(x, x.parts["previous"], x.from - (x.to - x.from), x.from)
    BY <1>2 DEF Honest
  <2> QED BY <2>1, HonestHoursStable
<1>3. ASSUME x.q.endpoint = "timeseries", "detail" \in DOMAIN x.parts
      PROVE  HonestDetail(x, x.parts["detail"])'
  <2>1. HonestDetail(x, x.parts["detail"])
    BY <1>3 DEF Honest
  <2> QED BY <2>1, HonestDetailStable
<1> QED BY <1>1, <1>2, <1>3 DEF Honest

\* The window of a question stays where it was.
LEMMA WindowedStable ==
  ASSUME Later, NEW x, Windowed(x)
  PROVE  Windowed(x)' /\ There(x)' \subseteq There(x)
BY DEF Later, Windowed

\* Such an answer remains what it is.
LEMMA AnswerStable ==
  ASSUME Later, NEW a, HonestAnswer(a)
  PROVE  HonestAnswer(a)'
<1>1. /\ Windowed(a) /\ Honest(a) /\ Needed(a.q) \subseteq DOMAIN a.parts
      /\ a.q.endpoint = "timeseries" => Partitions(a.series, Range(a.parts["detail"]))
  BY DEF HonestAnswer
<1>2. Windowed(a)' /\ There(a)' \subseteq There(a)
  BY <1>1, WindowedStable
<1>3. Honest(a)'
  BY <1>1, <1>2, HonestStable
<1> QED BY <1>1, <1>2, <1>3 DEF HonestAnswer

\* The same of an entry of the cache, ...
LEMMA EntryStable ==
  ASSUME Later, NEW c, HonestEntry(c)
  PROVE  HonestEntry(c)'
<1>1. HonestAnswer(c.answer)
  BY DEF HonestEntry
<1>2. HonestAnswer(c.answer)'
  BY <1>1, AnswerStable
<1> QED BY <1>2 DEF HonestEntry

\* ... of a request that is answered, ...
LEMMA ReplyStable ==
  ASSUME Later, NEW x, HonestReply(x)
  PROVE  HonestReply(x)'
<1>1. HonestAnswer(x.answer)
  BY DEF HonestReply
<1>2. HonestAnswer(x.answer)'
  BY <1>1, AnswerStable
<1>3. x.at \in 0..now'
  BY DEF HonestReply, Later
<1> QED BY <1>2, <1>3 DEF HonestReply

\* ... and of one that runs, until its time is over.
LEMMA RequestStable ==
  ASSUME Later, NEW x, HonestRequest(x), now' <= x.at + MaxLatency
  PROVE  HonestRequest(x)'
<1>1. Windowed(x) /\ Honest(x)
  BY DEF HonestRequest
<1>2. Windowed(x)' /\ There(x)' \subseteq There(x)
  BY <1>1, WindowedStable
<1>3. Honest(x)'
  BY <1>1, <1>2, HonestStable
<1> QED BY <1>2, <1>3 DEF HonestRequest


-----------------------------------------------------------------------------
(* What one request reads *)

\* The queries of a question, and those its answer cannot do without.
LEMMA QueriesOf ==
  ASSUME NEW q \in Questions
  PROVE  /\ Handler(q).queries \in Seq(Range(Handler(q).queries)) /\ Handler(q).queries # <<>>
         /\ q.endpoint = "overview" => "current" \in Needed(q)
         /\ q.endpoint = "timeseries" => "detail" \in Needed(q)
         /\ q.endpoint = "timeseries" /\ q.groupBy # "" => "top" \in Needed(q)
<1>1. q.endpoint \in Endpoints
  BY AnalyticsAssumption
<1>2. PICK s, o : s = Handler(q).queries /\ o = Handler(q).optional
  OBVIOUS
<1>3. Needed(q) = {n \in Range(s) : n \notin o}
  BY <1>2 DEF Needed
<1>4. Range(s) = {s[i] : i \in DOMAIN s}
  BY DEF Range
<1>5. CASE q.endpoint = "overview"
  <2>1. s = <<"current", "previous", "topModel", "topFeature">> /\ o = {"previous", "topModel", "topFeature"}
    BY <1>2, <1>5 DEF Handler, HandleOverview
  <2>2. s \in Seq({s[i] : i \in DOMAIN s}) /\ 1 \in DOMAIN s /\ s[1] = "current" /\ s # <<>>
    BY <2>1
  <2>3. "current" \in Range(s) /\ "current" \notin o
    BY <2>1, <2>2 DEF Range
  <2> QED BY <1>2, <1>3, <1>4, <1>5, <2>2, <2>3
<1>6. CASE q.endpoint = "timeseries" /\ q.groupBy = ""
  <2>1. s = <<"detail">> /\ o = {}
    BY <1>2, <1>6 DEF Handler, HandleCostTimeseries
  <2>2. s \in Seq({s[i] : i \in DOMAIN s}) /\ 1 \in DOMAIN s /\ s[1] = "detail" /\ s # <<>>
    BY <2>1
  <2>3. "detail" \in Range(s) /\ "detail" \notin o
    BY <2>1, <2>2 DEF Range
  <2> QED BY <1>2, <1>3, <1>4, <1>6, <2>2, <2>3
<1>7. CASE q.endpoint = "timeseries" /\ q.groupBy # ""
  <2>1. s = <<"top", "detail">> /\ o = {}
    BY <1>2, <1>7 DEF Handler, HandleCostTimeseries
  <2>2. s \in Seq({s[i] : i \in DOMAIN s}) /\ 1 \in DOMAIN s /\ 2 \in DOMAIN s /\ s[1] = "top" /\ s[2] = "detail" /\ s # <<>>
    BY <2>1
  <2>3. "detail" \in Range(s) /\ "top" \in Range(s) /\ "detail" \notin o /\ "top" \notin o
    BY <2>1, <2>2 DEF Range
  <2> QED BY <1>2, <1>3, <1>4, <1>7, <2>2, <2>3
<1>8. CASE q.endpoint \in {"cost", "compare", "cost-filters"}
  <2>1. \/ s = <<"breakdown">> \/ s = <<"current", "previous">> \/ s = <<"models", "providers", "features">>
    BY <1>2, <1>8 DEF Handler, HandleCostBreakdown, HandleCostCompare, HandleCostFilters
  <2>2. s \in Seq({s[i] : i \in DOMAIN s}) /\ s # <<>>
    BY <2>1
  <2> QED BY <1>2, <1>4, <1>8, <2>2
<1> QED BY <1>1, <1>5, <1>6, <1>7, <1>8 DEF Endpoints

\* Updates of a request.
RequestOf(pc, q, at, from, to, left, parts) ==
  [pc |-> pc, q |-> q, at |-> at, from |-> from, to |-> to, left |-> left, parts |-> parts]

\* Where a request is,
LEMMA ExceptPc ==
  \A a, b, c, d, e, f, g, h :
    [RequestOf(a, b, c, d, e, f, g) EXCEPT !.pc = h] = RequestOf(h, b, c, d, e, f, g)
BY DEF RequestOf

\* the queries it has left,
LEMMA ExceptLeft ==
  \A a, b, c, d, e, f, g, h :
    [RequestOf(a, b, c, d, e, f, g) EXCEPT !.left = h] = RequestOf(a, b, c, d, e, h, g)
BY DEF RequestOf

\* and what it has read.
LEMMA ExceptParts ==
  \A a, b, c, d, e, f, g, h :
    [RequestOf(a, b, c, d, e, f, g) EXCEPT !.parts = h] = RequestOf(a, b, c, d, e, f, h)
BY DEF RequestOf

\* A request that has one query less to send.
RequestWith(x, parts) ==
  RequestOf(IF Len(x.left) = 1 THEN "fill" ELSE "query", x.q, x.at, x.from, x.to, Tail(x.left), parts)

\* Remaining takes the first of the queries that are left.
LEMMA RemainingIs ==
  ASSUME NEW x, HonestRequest(x)
  PROVE  /\ Remaining(x) = RequestWith(x, x.parts)
         /\ \A parts : [Remaining(x) EXCEPT !.parts = parts] = RequestWith(x, parts)
<1>1. x = RequestOf(x.pc, x.q, x.at, x.from, x.to, x.left, x.parts)
  BY DEF HonestRequest, RequestOf
<1>2. PICK a, b, c, d, e, f, g :
        /\ x = RequestOf(a, b, c, d, e, f, g)
        /\ b = x.q /\ c = x.at /\ d = x.from /\ e = x.to /\ f = x.left /\ g = x.parts
  BY <1>1
<1>3. PICK pc, t : pc = (IF Len(x.left) = 1 THEN "fill" ELSE "query") /\ t = Tail(x.left)
  OBVIOUS
<1>4. [x EXCEPT !.left = t] = RequestOf(a, b, c, d, e, t, g)
  <2>1. [RequestOf(a, b, c, d, e, f, g) EXCEPT !.left = t] = RequestOf(a, b, c, d, e, t, g)
    BY ExceptLeft
  <2> QED BY <1>2, <2>1
<1>5. [[x EXCEPT !.left = t] EXCEPT !.pc = pc] = RequestOf(pc, b, c, d, e, t, g)
  <2>1. [RequestOf(a, b, c, d, e, t, g) EXCEPT !.pc = pc] = RequestOf(pc, b, c, d, e, t, g)
    BY ExceptPc
  <2> QED BY <1>4, <2>1
<1>6. Remaining(x) = RequestOf(pc, b, c, d, e, t, g)
  <2>1. Remaining(x) = [[x EXCEPT !.left = t] EXCEPT !.pc = pc]
    BY <1>3, <1>1 DEF Remaining
  <2> QED BY <1>5, <2>1
<1>7. \A parts : RequestWith(x, parts) = RequestOf(pc, b, c, d, e, t, parts)
  BY <1>2, <1>3 DEF RequestWith
<1>8. \A parts : [Remaining(x) EXCEPT !.parts = parts] = RequestOf(pc, b, c, d, e, t, parts)
  <2>1. \A parts : [RequestOf(pc, b, c, d, e, t, g) EXCEPT !.parts = parts]
                     = RequestOf(pc, b, c, d, e, t, parts)
    BY ExceptParts
  <2> QED BY <1>6, <2>1
<1> QED BY <1>2, <1>6, <1>7, <1>8

\* The names in a sequence are the first and those that follow.
LEMMA HeadAndTail ==
  ASSUME NEW S, NEW s \in Seq(S), s # <<>>
  PROVE  /\ Tail(s) \in Seq(S) /\ (Len(s) = 1 <=> Tail(s) = <<>>)
         /\ Range(s) \subseteq {Head(s)} \union Range(Tail(s))
<1>1. Tail(s) \in Seq(S) /\ Len(Tail(s)) = Len(s) - 1 /\ Len(s) \in Nat /\ Len(s) # 0
  OBVIOUS
<1>2. Len(s) = 1 <=> Tail(s) = <<>>
  <2>1. PICK t \in Seq(S) : t = Tail(s)
    BY <1>1
  <2>2. t = <<>> <=> Len(t) = 0
    OBVIOUS
  <2> QED BY <1>1, <2>1, <2>2
<1>3. ASSUME NEW i \in DOMAIN s
      PROVE  s[i] \in {Head(s)} \union Range(Tail(s))
  <2>1. CASE i = 1
    BY <2>1
  <2>2. CASE i # 1
    <3>1. i - 1 \in DOMAIN Tail(s) /\ Tail(s)[i - 1] = s[i]
      BY <2>2
    <3> QED BY <3>1 DEF Range
  <2> QED BY <2>1, <2>2
<1>4. Range(s) \subseteq {Head(s)} \union Range(Tail(s))
  BY <1>3 DEF Range
<1> QED BY <1>1, <1>2, <1>4

\* What it has read stays honest when a part is added that is.
LEMMA HonestWith ==
  ASSUME NEW x, Honest(x), NEW name, NEW part, NEW y,
         y.q = x.q, y.at = x.at, y.from = x.from, y.to = x.to,
         y.parts = With(x.parts, name, part),
         x.q.endpoint = "overview" /\ name = "current" => HonestHours(x, part, x.from, x.to),
         x.q.endpoint = "overview" /\ name = "previous" =>
           HonestHours(x, part, x.from - (x.to - x.from), x.from),
         x.q.endpoint = "timeseries" /\ name = "detail" => HonestDetail(x, part)
  PROVE  Honest(y)
<1>1. There(y) = There(x)
  BY DEF There
<1>2. /\ DOMAIN y.parts = DOMAIN x.parts \union {name} /\ y.parts[name] = part
      /\ \A n \in DOMAIN x.parts : n # name => y.parts[n] = x.parts[n]
  BY DEF With
<1>3. ASSUME NEW bag, NEW from, NEW to, HonestHours(x, bag, from, to)
      PROVE  HonestHours(y, bag, from, to)
  BY <1>1, <1>3 DEF HonestHours
<1>4. ASSUME NEW rows, HonestDetail(x, rows)
      PROVE  HonestDetail(y, rows)
  BY <1>1, <1>4 DEF HonestDetail
<1>5. ASSUME x.q.endpoint = "overview", "current" \in DOMAIN y.parts
      PROVE  HonestHours(y, y.parts["current"], y.from, y.to)
  <2>1. HonestHours(x, y.parts["current"], x.from, x.to)
    <3>1. CASE name = "current"
      BY <1>2, <1>5, <3>1
    <3>2. CASE name # "current"
      BY <1>2, <1>5, <3>2 DEF Honest
    <3> QED BY <3>1, <3>2
  <2> QED BY <1>3, <2>1
<1>6. ASSUME x.q.endpoint = "overview", "previous" \in DOMAIN y.parts
      PROVE  HonestHours(y, y.parts["previous"], y.from - (y.to - y.from), y.from)
  <2>1. HonestHours(x, y.parts["previous"], x.from - (x.to - x.from), x.from)
    <3>1. CASE name = "previous"
      BY <1>2, <1>6, <3>1
    <3>2. CASE name # "previous"
      BY <1>2, <1>6, <3>2 DEF Honest
    <3> QED BY <3>1, <3>2
  <2>2. HonestHours(y, y.parts["previous"], x.from - (x.to - x.from), x.from)
    BY <1>3, <2>1
  <2> QED BY <2>2
<1>7. ASSUME x.q.endpoint = "timeseries", "detail" \in DOMAIN y.parts
      PROVE  HonestDetail(y, y.parts["detail"])
  <2>1. HonestDetail(x, y.parts["detail"])
    <3>1. CASE name = "detail"
      BY <1>2, <1>7, <3>1
    <3>2. CASE name # "detail"
      BY <1>2, <1>7, <3>2 DEF Honest
    <3> QED BY <3>1, <3>2
  <2> QED BY <1>4, <2>1
<1> QED BY <1>5, <1>6, <1>7 DEF Honest

\* A request goes on after a query.
LEMMA GoesOn ==
  ASSUME NEW x, HonestRequest(x), x.pc = "query", NEW parts,
         Honest(RequestWith(x, parts)), DOMAIN x.parts \subseteq DOMAIN parts,
         Head(x.left) \in DOMAIN parts \/ Head(x.left) \notin Needed(x.q)
  PROVE  HonestRequest(RequestWith(x, parts)) /\ RequestWith(x, parts).pc \in {"query", "fill"}
<1>1. PICK y : y = RequestWith(x, parts)
  OBVIOUS
<1>2. /\ y.q = x.q /\ y.at = x.at /\ y.from = x.from /\ y.to = x.to
      /\ y.left = Tail(x.left) /\ y.parts = parts
      /\ y.pc = IF Len(x.left) = 1 THEN "fill" ELSE "query"
      /\ y = [pc |-> y.pc, q |-> y.q, at |-> y.at, from |-> y.from, to |-> y.to,
              left |-> y.left, parts |-> y.parts]
  BY <1>1 DEF RequestWith, RequestOf
<1>3. /\ Windowed(x) /\ now <= x.at + MaxLatency /\ x.left \in Seq(Range(Handler(x.q).queries)) /\ x.left # <<>>
      /\ Needed(x.q) \subseteq DOMAIN x.parts \union Range(x.left)
  BY DEF HonestRequest
<1>4. Windowed(y)
  BY <1>2, <1>3 DEF Windowed
<1>5. /\ Tail(x.left) \in Seq(Range(Handler(x.q).queries)) /\ (Len(x.left) = 1 <=> Tail(x.left) = <<>>)
      /\ Range(x.left) \subseteq {Head(x.left)} \union Range(Tail(x.left))
  BY <1>3, HeadAndTail
<1>6. Needed(y.q) \subseteq DOMAIN y.parts \union Range(y.left)
  BY <1>2, <1>3, <1>5
<1>7. y.left \in Seq(Range(Handler(y.q).queries)) /\ (y.left = <<>> <=> y.pc = "fill")
  BY <1>2, <1>5
<1>8. now <= y.at + MaxLatency /\ Honest(y)
  BY <1>1, <1>2, <1>3
<1>9. HonestRequest(y)
  BY <1>2, <1>4, <1>6, <1>7, <1>8 DEF HonestRequest
<1> QED BY <1>1, <1>2, <1>9


-----------------------------------------------------------------------------
(* The inductive invariant *)

\* A step of one request, which leaves the clock and the rows alone.
LEMMA RequestStep ==
  ASSUME IInv, Later, UNCHANGED <<now, inserted, since>>, NEW r \in Requests, NEW y,
         req' = [req EXCEPT ![r] = y], y.pc \in {"idle", "cache", "query", "fill", "done"},
         y.pc \in {"cache", "query", "fill"} => HonestRequest(y),
         y.pc = "done" => HonestReply(y),
         asked' \in 0..MaxAsked, faults' \in 0..MaxFaults,
         \A c, d \in cache' : c.key = d.key => c = d,
         \A c \in cache' : HonestEntry(c)
  PROVE  IInv'
<1>1. TypeOK /\ HappenedFirst /\ HonestRequests /\ HonestReplies
  BY DEF IInv
<1>2. /\ DOMAIN req' = Requests /\ req'[r] = y
      /\ \A s \in Requests : s # r => req'[s] = req[s]
  BY <1>1 DEF TypeOK
<1>3. TypeOK'
  BY <1>1, <1>2 DEF TypeOK
<1>4. HappenedFirst'
  BY <1>1 DEF HappenedFirst, Stored
<1>5. HonestRequests'
  <2>1. ASSUME NEW s \in Requests, Active(s)'
        PROVE  HonestRequest(req[s])'
    <3>1. PICK z : z = req'[s]
      OBVIOUS
    <3>2. HonestRequest(z)
      <4>1. CASE s = r
        BY <1>2, <2>1, <3>1, <4>1 DEF Active
      <4>2. CASE s # r
        <5>1. z = req[s] /\ Active(s)
          BY <1>2, <2>1, <3>1, <4>2 DEF Active
        <5> QED BY <1>1, <5>1 DEF HonestRequests
      <4> QED BY <4>1, <4>2
    <3>3. now' <= z.at + MaxLatency
      BY <3>2 DEF HonestRequest
    <3>4. HonestRequest(z)'
      BY <3>2, <3>3, RequestStable
    <3> QED BY <3>1, <3>4
  <2> QED BY <2>1 DEF HonestRequests
<1>6. HonestReplies'
  <2>1. ASSUME NEW s \in Requests, Done(s)'
        PROVE  HonestReply(req[s])'
    <3>1. PICK z : z = req'[s]
      OBVIOUS
    <3>2. HonestReply(z)
      <4>1. CASE s = r
        BY <1>2, <2>1, <3>1, <4>1 DEF Done
      <4>2. CASE s # r
        <5>1. z = req[s] /\ Done(s)
          BY <1>2, <2>1, <3>1, <4>2 DEF Done
        <5> QED BY <1>1, <5>1 DEF HonestReplies
      <4> QED BY <4>1, <4>2
    <3>3. HonestReply(z)'
      BY <3>2, ReplyStable
    <3> QED BY <3>1, <3>3
  <2> QED BY <2>1 DEF HonestReplies
<1>7. HonestCache'
  <2>1. ASSUME NEW c \in cache'
        PROVE  HonestEntry(c)'
    BY EntryStable
  <2> QED BY <2>1 DEF HonestCache
<1> QED BY <1>3, <1>4, <1>5, <1>6, <1>7 DEF IInv


\* What a request has read is what its answer is made of.
LEMMA HonestSame ==
  ASSUME NEW x, Honest(x), NEW y,
         y.q = x.q, y.at = x.at, y.from = x.from, y.to = x.to, y.parts = x.parts
  PROVE  Honest(y)
<1>1. There(y) = There(x)
  BY DEF There
<1>2. ASSUME NEW bag, NEW from, NEW to, HonestHours(x, bag, from, to)
      PROVE  HonestHours(y, bag, from, to)
  BY <1>1, <1>2 DEF HonestHours
<1>3. ASSUME NEW rows, HonestDetail(x, rows)
      PROVE  HonestDetail(y, rows)
  BY <1>1, <1>3 DEF HonestDetail
<1> QED BY <1>2, <1>3 DEF Honest

\* The answer of a request that has sent all its queries.
LEMMA AnswerIsHonest ==
  ASSUME NEW x, HonestRequest(x), x.pc = "fill"
  PROVE  HonestAnswer(Answer(x)) /\ Answer(x).q = x.q /\ Answer(x).at = x.at
<1>1. PICK a : a = Answer(x)
  OBVIOUS
<1>2. /\ a.q = x.q /\ a.at = x.at /\ a.from = x.from /\ a.to = x.to /\ a.parts = x.parts
      /\ a.series = CASE x.q.endpoint # "timeseries" -> {}
                      [] x.q.groupBy = "" -> getTimeseriesTotal(x.parts["detail"])
                      [] OTHER -> Bucket(x.parts["top"], x.parts["detail"])
  BY <1>1 DEF Answer
<1>3. /\ Windowed(x) /\ Honest(x) /\ x.left = <<>> /\ x.q \in Questions
      /\ Needed(x.q) \subseteq DOMAIN x.parts \union Range(x.left)
  BY DEF HonestRequest, Windowed
<1>4. Needed(x.q) \subseteq DOMAIN x.parts
  <2>1. Range(<<>>) = {}
    BY DEF Range
  <2> QED BY <1>3, <2>1
<1>5. Windowed(a)
  BY <1>2, <1>3 DEF Windowed
<1>6. Honest(a)
  BY <1>2, <1>3, HonestSame
<1>7. ASSUME x.q.endpoint = "timeseries"
      PROVE  Partitions(a.series, Range(a.parts["detail"]))
  <2>1. "detail" \in DOMAIN x.parts
    BY <1>3, <1>4, <1>7, QueriesOf
  <2>2. HonestDetail(x, x.parts["detail"])
    BY <1>3, <1>7, <2>1 DEF Honest
  <2>3. PICK rows : rows = x.parts["detail"]
    OBVIOUS
  <2>4. /\ Grouped(rows)
        /\ x.q.groupBy = "" => \A i, j \in DOMAIN rows : i < j => rows[i].group[1] < rows[j].group[1]
    BY <2>2, <2>3 DEF HonestDetail
  <2>5. CASE x.q.groupBy = ""
    <3>1. a.series = getTimeseriesTotal(rows)
      BY <1>2, <1>7, <2>3, <2>5
    <3>2. Partitions(getTimeseriesTotal(rows), Range(rows))
      BY <2>4, <2>5, TotalIsPartition
    <3> QED BY <1>2, <2>3, <3>1, <3>2
  <2>6. CASE x.q.groupBy # ""
    <3>1. a.series = Bucket(x.parts["top"], rows)
      BY <1>2, <1>7, <2>3, <2>6
    <3>2. PICK top : top = x.parts["top"]
      OBVIOUS
    <3>3. Partitions(Bucket(top, rows), Range(rows))
      BY <2>4, BucketIsPartition
    <3> QED BY <1>2, <2>3, <3>1, <3>2, <3>3
  <2> QED BY <2>5, <2>6
<1>8. HonestAnswer(a)
  BY <1>2, <1>4, <1>5, <1>6, <1>7 DEF HonestAnswer
<1> QED BY <1>1, <1>2, <1>8

\* No request, no row and no entry of the cache is there at first.
LEMMA IInvInit ==
  ASSUME Init
  PROVE  IInv
<1>1. \A r \in Requests : req[r].pc = "idle"
  BY DEF Init, Idle
<1>2. TypeOK
  <2>1. MaxTime \in Nat /\ MaxAsked \in Nat /\ MaxFaults \in Nat
    BY AnalyticsAssumption
  <2>2. now \in 0..MaxTime /\ asked \in 0..MaxAsked /\ faults \in 0..MaxFaults
    BY <2>1 DEF Init
  <2>3. inserted \in [Events -> Nat] /\ since \in [Events -> 0..MaxTime \union {Never}]
    BY DEF Init
  <2>4. \A e \in Events : (since[e] = Never) <=> (inserted[e] = 0)
    BY DEF Init
  <2> QED BY <1>1, <2>2, <2>3, <2>4 DEF Init, TypeOK
<1>3. HappenedFirst
  BY DEF Init, HappenedFirst, Stored
<1>4. HonestRequests /\ HonestReplies
  BY <1>1 DEF HonestRequests, HonestReplies, Active, Done
<1>5. HonestCache
  BY DEF Init, HonestCache
<1> QED BY <1>2, <1>3, <1>4, <1>5 DEF IInv

\* A request comes with the window of its question and has read nothing.
LEMMA AskStep ==
  ASSUME IInv, Later, NEW r \in Requests, NEW q \in Questions, Ask(r, q)
  PROVE  IInv'
<1>1. TypeOK /\ HonestCache
  BY DEF IInv
<1>2. PICK from, to :
        /\ from = IF q.endpoint = "compare" THEN Compared[q.period].current[1] ELSE now - Period[q.period]
        /\ to = IF q.endpoint = "compare" THEN Compared[q.period].current[2] ELSE now
  OBVIOUS
<1>3. PICK y : y = [pc |-> "cache", q |-> q, at |-> now, from |-> from, to |-> to,
                    left |-> Handler(q).queries, parts |-> <<>>]
  OBVIOUS
<1>4. /\ req' = [req EXCEPT ![r] = y] /\ UNCHANGED <<now, inserted, since>>
      /\ asked' \in 0..MaxAsked /\ faults' \in 0..MaxFaults /\ cache' = cache
  <2>1. req' = [req EXCEPT ![r] = y]
    BY <1>2, <1>3 DEF Ask
  <2>2. asked < MaxAsked /\ asked' = asked + 1 /\ UNCHANGED <<now, inserted, since, cache, faults>>
    BY DEF Ask
  <2>3. asked \in 0..MaxAsked /\ faults \in 0..MaxFaults /\ MaxAsked \in Nat
    BY <1>1, AnalyticsAssumption DEF TypeOK
  <2> QED BY <2>1, <2>2, <2>3
<1>5. /\ y.pc = "cache" /\ y.q = q /\ y.at = now /\ y.from = from /\ y.to = to
      /\ y.left = Handler(q).queries /\ y.parts = <<>>
  BY <1>3
<1>6. HonestRequest(y)
  <2>1. now \in 0..now /\ now <= now + MaxLatency
    <3>1. now \in Nat
      BY <1>1 DEF TypeOK
    <3>2. MaxLatency \in Nat
      BY AnalyticsAssumption
    <3> QED BY <3>1, <3>2
  <2>2. Windowed(y)
    BY <1>2, <1>5, <2>1 DEF Windowed
  <2>3. y.left \in Seq(Range(Handler(y.q).queries)) /\ y.left # <<>>
    BY <1>5, QueriesOf
  <2>4. DOMAIN y.parts = {}
    BY <1>5
  <2>5. Honest(y)
    BY <2>4 DEF Honest
  <2>6. Needed(y.q) \subseteq DOMAIN y.parts \union Range(y.left)
    BY <1>5 DEF Needed
  <2>7. y = [pc |-> y.pc, q |-> y.q, at |-> y.at, from |-> y.from, to |-> y.to,
             left |-> y.left, parts |-> y.parts]
    BY <1>3
  <2>8. now <= y.at + MaxLatency /\ (y.left = <<>> <=> y.pc = "fill")
    BY <1>5, <2>1, <2>3
  <2> QED BY <2>2, <2>3, <2>5, <2>6, <2>7, <2>8 DEF HonestRequest
<1>7. /\ \A c, d \in cache' : c.key = d.key => c = d
      /\ \A c \in cache' : HonestEntry(c)
  BY <1>1, <1>4 DEF TypeOK, HonestCache
<1> QED BY <1>4, <1>5, <1>6, <1>7, RequestStep


\* A step that leaves the requests and the cache alone.
LEMMA LaterStep ==
  ASSUME IInv, Later, UNCHANGED <<cache, req, asked, faults>>, TypeOK', HappenedFirst',
         \A r \in Requests : Active(r) => now' <= req[r].at + MaxLatency
  PROVE  IInv'
<1>1. HonestRequests /\ HonestCache /\ HonestReplies
  BY DEF IInv
<1>2. HonestRequests'
  <2>1. ASSUME NEW s \in Requests, Active(s)'
        PROVE  HonestRequest(req[s])'
    <3>1. PICK z : z = req'[s] /\ z = req[s]
      OBVIOUS
    <3>2. Active(s)
      BY <2>1 DEF Active
    <3>3. HonestRequest(z) /\ now' <= z.at + MaxLatency
      BY <1>1, <3>1, <3>2 DEF HonestRequests
    <3>4. HonestRequest(z)'
      BY <3>3, RequestStable
    <3> QED BY <3>1, <3>4
  <2> QED BY <2>1 DEF HonestRequests
<1>3. HonestReplies'
  <2>1. ASSUME NEW s \in Requests, Done(s)'
        PROVE  HonestReply(req[s])'
    <3>1. PICK z : z = req'[s] /\ z = req[s]
      OBVIOUS
    <3>2. Done(s)
      BY <2>1 DEF Done
    <3>3. HonestReply(z)
      BY <1>1, <3>1, <3>2 DEF HonestReplies
    <3>4. HonestReply(z)'
      BY <3>3, ReplyStable
    <3> QED BY <3>1, <3>4
  <2> QED BY <2>1 DEF HonestReplies
<1>4. HonestCache'
  <2>1. ASSUME NEW c \in cache
        PROVE  HonestEntry(c)'
    <3>1. HonestEntry(c)
      BY <1>1 DEF HonestCache
    <3> QED BY <3>1, EntryStable
  <2> QED BY <2>1 DEF HonestCache
<1> QED BY <1>2, <1>3, <1>4 DEF IInv

\* The clock waits for a request whose time is over.
LEMMA TickStep ==
  ASSUME IInv, Later, Tick
  PROVE  IInv'
<1>1. TypeOK /\ HappenedFirst /\ HonestRequests
  BY DEF IInv
<1>2. /\ now < MaxTime /\ now' = now + 1 /\ UNCHANGED <<inserted, since, cache, req, asked, faults>>
      /\ \A r \in Requests : Active(r) => now < req[r].at + MaxLatency
  BY DEF Tick
<1>3. now \in Nat /\ now' \in 0..MaxTime
  <2>1. now \in 0..MaxTime /\ MaxTime \in Nat
    BY <1>1, AnalyticsAssumption DEF TypeOK
  <2> QED BY <1>2, <2>1
<1>4. TypeOK'
  BY <1>1, <1>2, <1>3 DEF TypeOK
<1>5. HappenedFirst'
  BY <1>1, <1>2 DEF HappenedFirst, Stored
<1>6. ASSUME NEW r \in Requests, Active(r)
      PROVE  now' <= req[r].at + MaxLatency
  <2>1. req[r].at \in 0..now
    BY <1>1, <1>6 DEF HonestRequests, HonestRequest, Windowed
  <2>2. req[r].at + MaxLatency \in Int
    <3>1. MaxLatency \in Nat
      BY AnalyticsAssumption
    <3> QED BY <1>3, <2>1, <3>1
  <2>3. now < req[r].at + MaxLatency
    BY <1>2, <1>6
  <2> QED BY <1>2, <1>3, <2>2, <2>3
<1> QED BY <1>2, <1>4, <1>5, <1>6, LaterStep

\* A row that is inserted has happened before.
LEMMA InsertStep ==
  ASSUME IInv, Later, NEW e \in Events, Insert(e)
  PROVE  IInv'
<1>1. TypeOK /\ HappenedFirst /\ HonestRequests
  BY DEF IInv
<1>2. /\ Attr[e].time <= now /\ UNCHANGED <<now, cache, req, asked, faults>>
      /\ inserted' = [inserted EXCEPT ![e] = @ + 1]
      /\ since' = [since EXCEPT ![e] = IF @ = Never THEN now ELSE @]
  BY DEF Insert
<1>3. /\ inserted'[e] = inserted[e] + 1 /\ since'[e] = (IF since[e] = Never THEN now ELSE since[e])
      /\ \A d \in Events : d # e => inserted'[d] = inserted[d] /\ since'[d] = since[d]
      /\ inserted[e] \in Nat /\ now \in Nat /\ now # Never
  BY <1>1, <1>2 DEF TypeOK, Never
<1>4. TypeOK'
  <2>1. inserted' \in [Events -> Nat] /\ since' \in [Events -> 0..MaxTime \union {Never}]
    BY <1>1, <1>2 DEF TypeOK
  <2>2. ASSUME NEW d \in Events
        PROVE  (since'[d] = Never) <=> (inserted'[d] = 0)
    <3>1. CASE d = e
      BY <1>3, <3>1
    <3>2. CASE d # e
      BY <1>1, <1>3, <3>2 DEF TypeOK
    <3> QED BY <3>1, <3>2
  <2> QED BY <1>1, <1>2, <2>1, <2>2 DEF TypeOK
<1>5. HappenedFirst'
  <2>1. ASSUME NEW d \in Events, inserted'[d] > 0
        PROVE  Attr[d].time <= since'[d]
    <3>1. CASE d # e
      BY <1>1, <1>3, <2>1, <3>1 DEF HappenedFirst, Stored
    <3>2. CASE d = e /\ since[e] = Never
      BY <1>2, <1>3, <3>2
    <3>3. CASE d = e /\ since[e] # Never
      <4>1. inserted[e] > 0
        <5>1. inserted[e] # 0
          BY <1>1, <3>3 DEF TypeOK
        <5> QED BY <1>3, <5>1
      <4>2. Attr[e].time <= since[e]
        BY <1>1, <4>1 DEF HappenedFirst, Stored
      <4> QED BY <1>3, <3>3, <4>2
    <3> QED BY <3>1, <3>2, <3>3
  <2> QED BY <2>1 DEF HappenedFirst, Stored
<1>6. \A r \in Requests : Active(r) => now' <= req[r].at + MaxLatency
  BY <1>1, <1>2 DEF HonestRequests, HonestRequest
<1> QED BY <1>2, <1>4, <1>5, <1>6, LaterStep


\* A request that misses the cache, or does not reach it, sends its queries.
LEMMA Misses ==
  ASSUME NEW x, HonestRequest(x), x.pc = "cache"
  PROVE  HonestRequest([x EXCEPT !.pc = "query"]) /\ [x EXCEPT !.pc = "query"].pc = "query"
<1>1. x = RequestOf(x.pc, x.q, x.at, x.from, x.to, x.left, x.parts)
  BY DEF HonestRequest, RequestOf
<1>2. PICK a, b, c, d, e, f, g :
        /\ x = RequestOf(a, b, c, d, e, f, g)
        /\ b = x.q /\ c = x.at /\ d = x.from /\ e = x.to /\ f = x.left /\ g = x.parts
  BY <1>1
<1>3. PICK y : y = [x EXCEPT !.pc = "query"]
  OBVIOUS
<1>4. y = RequestOf("query", b, c, d, e, f, g)
  <2>1. [RequestOf(a, b, c, d, e, f, g) EXCEPT !.pc = "query"] = RequestOf("query", b, c, d, e, f, g)
    BY ExceptPc
  <2> QED BY <1>2, <1>3, <2>1
<1>5. /\ y.pc = "query" /\ y.q = x.q /\ y.at = x.at /\ y.from = x.from /\ y.to = x.to
      /\ y.left = x.left /\ y.parts = x.parts
      /\ y = [pc |-> y.pc, q |-> y.q, at |-> y.at, from |-> y.from, to |-> y.to,
              left |-> y.left, parts |-> y.parts]
  BY <1>2, <1>4 DEF RequestOf
<1>6. Windowed(y)
  BY <1>5 DEF HonestRequest, Windowed
<1>7. Honest(y)
  <2>1. Honest(x)
    BY DEF HonestRequest
  <2> QED BY <1>5, <2>1, HonestSame
<1>8. /\ now <= y.at + MaxLatency /\ y.left \in Seq(Range(Handler(y.q).queries))
      /\ (y.left = <<>> <=> y.pc = "fill")
      /\ Needed(y.q) \subseteq DOMAIN y.parts \union Range(y.left)
  BY <1>5 DEF HonestRequest
<1>9. HonestRequest(y)
  BY <1>5, <1>6, <1>7, <1>8 DEF HonestRequest
<1> QED BY <1>3, <1>5, <1>9

\* A hit is as old as its entry lives, at most.
LEMMA CheckCacheStep ==
  ASSUME IInv, Later, NEW r \in Requests, CheckCache(r)
  PROVE  IInv'
<1>1. TypeOK /\ HonestCache /\ HonestRequests
  BY DEF IInv
<1>2. PICK x : x = req[r]
  OBVIOUS
<1>3. PICK y : y = IF GetCached(x.q) = {} THEN [x EXCEPT !.pc = "query"]
                   ELSE Reply(x, Only(GetCached(x.q)))
  OBVIOUS
<1>4. /\ x.pc = "cache" /\ req' = [req EXCEPT ![r] = y]
      /\ UNCHANGED <<now, inserted, since, cache, asked, faults>>
  BY <1>2, <1>3 DEF CheckCache
<1>5. HonestRequest(x)
  BY <1>1, <1>2, <1>4 DEF HonestRequests, Active
<1>6. /\ y.pc \in {"query", "done"} /\ (y.pc = "query" => HonestRequest(y))
      /\ (y.pc = "done" => HonestReply(y))
  <2>1. CASE GetCached(x.q) = {}
    BY <1>3, <1>4, <1>5, <2>1, Misses
  <2>2. CASE GetCached(x.q) # {}
    <3>1. PICK a : a = Only(GetCached(x.q)) /\ a \in GetCached(x.q)
      BY <2>2 DEF Only
    <3>2. PICK c \in cache : c.key = cacheKey(x.q) /\ now < c.until /\ a = c.answer
      BY <3>1 DEF GetCached
    <3>3. /\ HonestAnswer(a) /\ c.key = cacheKey(a.q) /\ c.until \in Int
          /\ c.until <= a.at + MaxLatency + CacheTTL[a.q.endpoint]
      BY <1>1, <3>2 DEF HonestCache, HonestEntry
    <3>4. y.pc = "done" /\ y.q = x.q /\ y.at = x.at /\ y.from = x.from /\ y.answer = a
      BY <1>3, <2>2, <3>1 DEF Reply
    <3>5. /\ x.q \in Questions /\ x.at \in 0..now /\ now <= x.at + MaxLatency
          /\ (x.q.endpoint # "compare" => x.from = x.at - Period[x.q.period])
      BY <1>5 DEF HonestRequest, Windowed
    <3>6. a.at \in 0..now /\ a.q \in Questions
      BY <3>3 DEF HonestAnswer, Windowed
    <3>7. now \in Nat
      BY <1>1 DEF TypeOK
    <3>8. MaxLatency \in Nat /\ CacheTTL[a.q.endpoint] \in Nat
      BY <3>6, AnalyticsAssumption
    <3>9. a.at <= x.at + MaxLatency
      BY <3>5, <3>6, <3>7, <3>8
    <3>10. x.at < a.at + MaxLatency + CacheTTL[a.q.endpoint]
      <4>1. PICK u : u = a.at + MaxLatency + CacheTTL[a.q.endpoint] /\ u \in Int
        BY <3>6, <3>7, <3>8
      <4>2. c.until <= u /\ now < c.until /\ c.until \in Int
        BY <3>2, <3>3, <4>1
      <4>3. x.at <= now /\ x.at \in Int /\ now \in Int
        BY <3>5, <3>7
      <4> QED BY <4>1, <4>2, <4>3
    <3>11. cacheKey(y.q) = cacheKey(y.answer.q)
      BY <3>2, <3>3, <3>4
    <3>12. HonestReply(y)
      BY <3>3, <3>4, <3>5, <3>9, <3>10, <3>11 DEF HonestReply
    <3> QED BY <3>4, <3>12
  <2> QED BY <2>1, <2>2
<1>7. /\ \A c, d \in cache' : c.key = d.key => c = d
      /\ \A c \in cache' : HonestEntry(c)
      /\ asked' \in 0..MaxAsked /\ faults' \in 0..MaxFaults
  BY <1>1, <1>4 DEF TypeOK, HonestCache
<1> QED BY <1>4, <1>6, <1>7, RequestStep

\* A failure is counted, and the cache and the questions are as before.
LEMMA FaultType ==
  ASSUME IInv, Fault, UNCHANGED <<cache, asked>>
  PROVE  /\ \A c, d \in cache' : c.key = d.key => c = d
         /\ \A c \in cache' : HonestEntry(c)
         /\ asked' \in 0..MaxAsked /\ faults' \in 0..MaxFaults
<1>1. faults \in 0..MaxFaults /\ asked \in 0..MaxAsked
  BY DEF IInv, TypeOK
<1>2. MaxFaults \in Nat
  BY AnalyticsAssumption
<1>3. faults' \in 0..MaxFaults
  BY <1>1, <1>2 DEF Fault
<1> QED BY <1>1, <1>3 DEF IInv, TypeOK, HonestCache

\* An error of Redis is a miss.
LEMMA CacheFailsStep ==
  ASSUME IInv, Later, NEW r \in Requests, CacheFails(r)
  PROVE  IInv'
<1>1. HonestRequests
  BY DEF IInv
<1>2. PICK x : x = req[r]
  OBVIOUS
<1>3. PICK y : y = [x EXCEPT !.pc = "query"]
  OBVIOUS
<1>4. /\ x.pc = "cache" /\ req' = [req EXCEPT ![r] = y] /\ Fault
      /\ UNCHANGED <<now, inserted, since, cache, asked>>
  BY <1>2, <1>3 DEF CacheFails
<1>5. HonestRequest(x)
  BY <1>1, <1>2, <1>4 DEF HonestRequests, Active
<1>6. HonestRequest(y) /\ y.pc = "query"
  BY <1>3, <1>4, <1>5, Misses
<1>7. /\ \A c, d \in cache' : c.key = d.key => c = d
      /\ \A c \in cache' : HonestEntry(c)
      /\ asked' \in 0..MaxAsked /\ faults' \in 0..MaxFaults
  BY <1>4, FaultType
<1> QED BY <1>4, <1>6, <1>7, RequestStep


\* A query of a request that is answered: what it read joins the parts.
LEMMA SentIs ==
  ASSUME NEW x, HonestRequest(x), NEW name, NEW part
  PROVE  Received(x, name, part) = RequestWith(x, With(x.parts, name, part))
<1>1. PICK z : z = Remaining(x)
  OBVIOUS
<1>2. z.parts = x.parts
  BY <1>1, RemainingIs DEF RequestWith, RequestOf
<1>3. Received(x, name, part) = [z EXCEPT !.parts = With(x.parts, name, part)]
  BY <1>1, <1>2 DEF Received
<1>4. \A parts : [z EXCEPT !.parts = parts] = RequestWith(x, parts)
  BY <1>1, RemainingIs
<1> QED BY <1>3, <1>4

\* It goes on when what it read is honest.
LEMMA ReadsOn ==
  ASSUME NEW x, HonestRequest(x), x.pc = "query", Honest(x), NEW name, name = Head(x.left), NEW part,
         NEW parts, parts = With(x.parts, name, part), NEW y, y = RequestWith(x, parts),
         x.q.endpoint = "overview" /\ name = "current" => HonestHours(x, part, x.from, x.to),
         x.q.endpoint = "overview" /\ name = "previous" =>
           HonestHours(x, part, x.from - (x.to - x.from), x.from),
         x.q.endpoint = "timeseries" /\ name = "detail" => HonestDetail(x, part)
  PROVE  HonestRequest(y) /\ y.pc \in {"query", "fill"}
<1>1. y.q = x.q /\ y.at = x.at /\ y.from = x.from /\ y.to = x.to /\ y.parts = parts
  BY DEF RequestWith, RequestOf
<1>2. Honest(y)
  BY <1>1, HonestWith
<1>3. DOMAIN parts = DOMAIN x.parts \union {name}
  BY DEF With
<1> QED BY <1>2, <1>3, GoesOn


\* What a query of an overview or of a time series reads.
LEMMA ReadIsHonest ==
  ASSUME TypeOK, HappenedFirst, NEW x, Windowed(x), NEW name, NEW part,
         part \in Results(x.q, name, x.from, x.to)
  PROVE  /\ x.q.endpoint = "overview" /\ name = "current" => HonestHours(x, part, x.from, x.to)
         /\ x.q.endpoint = "overview" /\ name = "previous" =>
              HonestHours(x, part, x.from - (x.to - x.from), x.from)
         /\ x.q.endpoint = "timeseries" /\ name = "detail" => HonestDetail(x, part)
<1>1. ASSUME x.q.endpoint = "overview", name = "current"
      PROVE  HonestHours(x, part, x.from, x.to)
  <2>1. Results(x.q, name, x.from, x.to) = GetOverviewKPIs(x.q, x.from, x.to)
    <3>1. Window(x.q, name, x.from, x.to) = <<x.from, x.to>>
      BY <1>1 DEF Window
    <3>2. Results(x.q, name, x.from, x.to)
            = GetOverviewKPIs(x.q, Window(x.q, name, x.from, x.to)[1], Window(x.q, name, x.from, x.to)[2])
      BY <1>1 DEF Results
    <3> QED BY <3>1, <3>2
  <2>2. part = Every(HourRows(x.q, x.from, x.to))
    BY <2>1 DEF GetOverviewKPIs
  <2> QED BY <2>2, HoursRead
<1>2. ASSUME x.q.endpoint = "overview", name = "previous"
      PROVE  HonestHours(x, part, x.from - (x.to - x.from), x.from)
  <2>1. Results(x.q, name, x.from, x.to) = GetOverviewKPIs(x.q, x.from - (x.to - x.from), x.from)
    <3>1. Window(x.q, name, x.from, x.to) = <<x.from - (x.to - x.from), x.from>>
      BY <1>2 DEF Window
    <3>2. Results(x.q, name, x.from, x.to)
            = GetOverviewKPIs(x.q, Window(x.q, name, x.from, x.to)[1], Window(x.q, name, x.from, x.to)[2])
      BY <1>2 DEF Results
    <3> QED BY <3>1, <3>2
  <2>2. PICK start : start = x.from - (x.to - x.from)
    OBVIOUS
  <2>3. part = Every(HourRows(x.q, start, x.from))
    BY <2>1, <2>2 DEF GetOverviewKPIs
  <2>4. HonestHours(x, part, start, x.from)
    BY <2>3, HoursRead
  <2> QED BY <2>2, <2>4
<1>3. ASSUME x.q.endpoint = "timeseries", name = "detail"
      PROVE  HonestDetail(x, part)
  <2>1. part \in DetailRows(x.q, x.from, x.to)
    BY <1>3 DEF Results
  <2>2. /\ Grouped(part)
        /\ x.q.groupBy = "" => \A i, j \in DOMAIN part : i < j => part[i].group[1] < part[j].group[1]
        /\ \A e \in DOMAIN SeriesRows(x.q, x.from, x.to) : \E i \in DOMAIN part : e \in DOMAIN part[i].sum
    BY <2>1, DetailRead
  <2>3. ASSUME x.q.groupBy # "feature", NEW e \in There(x), x.from <= Start(Attr[e].time, Hour)
        PROVE  \E i \in DOMAIN part : e \in DOMAIN part[i].sum
    <3>1. e \in DOMAIN SeriesRows(x.q, x.from, x.to)
      BY <1>3, <2>3, SeriesRead
    <3> QED BY <2>2, <3>1
  <2> QED BY <2>2, <2>3 DEF HonestDetail
<1> QED BY <1>1, <1>2, <1>3

\* A query reads what is stored when it is sent.
LEMMA SendQueryStep ==
  ASSUME IInv, Later, NEW r \in Requests, SendQuery(r)
  PROVE  IInv'
<1>1. TypeOK /\ HappenedFirst /\ HonestCache /\ HonestRequests
  BY DEF IInv
<1>2. PICK x : x = req[r]
  OBVIOUS
<1>3. PICK name, part, z :
        /\ name = Head(x.left) /\ part \in Results(x.q, name, x.from, x.to)
        /\ z = Received(x, name, part) /\ req' = [req EXCEPT ![r] = z]
  <2>1. PICK part \in Results(req[r].q, Head(req[r].left), req[r].from, req[r].to) :
          req' = [req EXCEPT ![r] = Received(req[r], Head(req[r].left), part)]
    BY DEF SendQuery
  <2>2. PICK z : z = Received(x, Head(x.left), part)
    OBVIOUS
  <2>3. req' = [req EXCEPT ![r] = z]
    BY <1>2, <2>1, <2>2
  <2> QED BY <1>2, <2>1, <2>2, <2>3
<1>4. /\ x.pc = "query" /\ UNCHANGED <<now, inserted, since, cache, asked, faults>>
  BY <1>2 DEF SendQuery
<1>5. HonestRequest(x)
  BY <1>1, <1>2, <1>4 DEF HonestRequests, Active
<1>6. PICK parts : parts = With(x.parts, name, part)
  OBVIOUS
<1>7. PICK y : y = RequestWith(x, parts)
  OBVIOUS
<1>8. req' = [req EXCEPT ![r] = y]
  <2>1. z = y
    BY <1>3, <1>5, <1>6, <1>7, SentIs
  <2> QED BY <1>3, <2>1
<1>9. HonestRequest(y) /\ y.pc \in {"query", "fill"}
  <2>1. Windowed(x) /\ Honest(x)
    BY <1>5 DEF HonestRequest
  <2>2. /\ x.q.endpoint = "overview" /\ name = "current" => HonestHours(x, part, x.from, x.to)
        /\ x.q.endpoint = "overview" /\ name = "previous" =>
             HonestHours(x, part, x.from - (x.to - x.from), x.from)
        /\ x.q.endpoint = "timeseries" /\ name = "detail" => HonestDetail(x, part)
    BY <1>1, <1>3, <2>1, ReadIsHonest
  <2> QED BY <1>3, <1>4, <1>5, <1>6, <1>7, <2>1, <2>2, ReadsOn
<1>10. /\ \A c, d \in cache' : c.key = d.key => c = d
       /\ \A c \in cache' : HonestEntry(c)
       /\ asked' \in 0..MaxAsked /\ faults' \in 0..MaxFaults
  BY <1>1, <1>4 DEF TypeOK, HonestCache
<1> QED BY <1>4, <1>8, <1>9, <1>10, RequestStep

\* The connection breaks in a list that no property relies on.
LEMMA RowsCutShortStep ==
  ASSUME IInv, Later, NEW r \in Requests, RowsCutShort(r)
  PROVE  IInv'
<1>1. HonestRequests
  BY DEF IInv
<1>2. PICK x : x = req[r]
  OBVIOUS
<1>3. PICK name, part, z :
        /\ name = Head(x.left) /\ name \in Unchecked
        /\ z = Received(x, name, part) /\ req' = [req EXCEPT ![r] = z]
  <2>1. Head(req[r].left) \in Unchecked
    BY DEF RowsCutShort
  <2>2. PICK part :
          req' = [req EXCEPT ![r] = Received(req[r], Head(req[r].left), part)]
    BY DEF RowsCutShort
  <2>3. PICK z : z = Received(x, Head(x.left), part)
    OBVIOUS
  <2>4. req' = [req EXCEPT ![r] = z]
    BY <1>2, <2>2, <2>3
  <2> QED BY <1>2, <2>1, <2>3, <2>4
<1>4. /\ x.pc = "query" /\ Fault /\ UNCHANGED <<now, inserted, since, cache, asked>>
  BY <1>2 DEF RowsCutShort
<1>5. HonestRequest(x)
  BY <1>1, <1>2, <1>4 DEF HonestRequests, Active
<1>6. PICK parts : parts = With(x.parts, name, part)
  OBVIOUS
<1>7. PICK y : y = RequestWith(x, parts)
  OBVIOUS
<1>8. req' = [req EXCEPT ![r] = y]
  <2>1. z = y
    BY <1>3, <1>5, <1>6, <1>7, SentIs
  <2> QED BY <1>3, <2>1
<1>9. HonestRequest(y) /\ y.pc \in {"query", "fill"}
  <2>1. name \notin {"current", "previous", "detail"}
    BY <1>3 DEF Unchecked
  <2>2. Honest(x)
    BY <1>5 DEF HonestRequest
  <2> QED BY <1>3, <1>4, <1>5, <1>6, <1>7, <2>1, <2>2, ReadsOn
<1>10. /\ \A c, d \in cache' : c.key = d.key => c = d
       /\ \A c \in cache' : HonestEntry(c)
       /\ asked' \in 0..MaxAsked /\ faults' \in 0..MaxFaults
  BY <1>4, FaultType
<1> QED BY <1>4, <1>8, <1>9, <1>10, RequestStep

\* A query that fails is one the answer can do without, or ends the request.
LEMMA QueryFailsStep ==
  ASSUME IInv, Later, NEW r \in Requests, QueryFails(r)
  PROVE  IInv'
<1>1. HonestRequests
  BY DEF IInv
<1>2. PICK x : x = req[r]
  OBVIOUS
<1>3. PICK y : y = IF Head(x.left) \in Handler(x.q).optional THEN Remaining(x) ELSE Idle
  OBVIOUS
<1>4. /\ x.pc = "query" /\ Fault /\ req' = [req EXCEPT ![r] = y]
      /\ UNCHANGED <<now, inserted, since, cache, asked>>
  BY <1>2, <1>3 DEF QueryFails
<1>5. HonestRequest(x)
  BY <1>1, <1>2, <1>4 DEF HonestRequests, Active
<1>6. y.pc \in {"query", "fill", "idle"} /\ (y.pc \in {"query", "fill"} => HonestRequest(y))
  <2>1. CASE Head(x.left) \in Handler(x.q).optional
    <3>1. y = RequestWith(x, x.parts)
      BY <1>3, <1>5, <2>1, RemainingIs
    <3>2. Head(x.left) \notin Needed(x.q)
      BY <2>1 DEF Needed
    <3>3. Honest(RequestWith(x, x.parts))
      <4>1. Honest(x)
        BY <1>5 DEF HonestRequest
      <4>2. /\ y.q = x.q /\ y.at = x.at /\ y.from = x.from /\ y.to = x.to /\ y.parts = x.parts
        BY <3>1 DEF RequestWith, RequestOf
      <4>3. Honest(y)
        BY <4>1, <4>2, HonestSame
      <4> QED BY <3>1, <4>3
    <3>4. HonestRequest(RequestWith(x, x.parts)) /\ RequestWith(x, x.parts).pc \in {"query", "fill"}
      BY <1>4, <1>5, <3>2, <3>3, GoesOn
    <3> QED BY <3>1, <3>4
  <2>2. CASE Head(x.left) \notin Handler(x.q).optional
    BY <1>3, <2>2 DEF Idle
  <2> QED BY <2>1, <2>2
<1>7. /\ \A c, d \in cache' : c.key = d.key => c = d
      /\ \A c \in cache' : HonestEntry(c)
      /\ asked' \in 0..MaxAsked /\ faults' \in 0..MaxFaults
  BY <1>4, FaultType
<1> QED BY <1>4, <1>6, <1>7, RequestStep

\* The answer replaces the one of its key in the cache, or is not put there.
LEMMA FillStep ==
  ASSUME IInv, Later, NEW r \in Requests, Fill(r)
  PROVE  IInv'
<1>1. TypeOK /\ HonestCache /\ HonestRequests
  BY DEF IInv
<1>2. PICK x : x = req[r]
  OBVIOUS
<1>3. PICK a : a = Answer(x)
  OBVIOUS
<1>4. PICK y : y = Reply(x, a)
  OBVIOUS
<1>5. /\ x.pc = "fill" /\ req' = [req EXCEPT ![r] = y] /\ UNCHANGED <<now, inserted, since, asked>>
      /\ \/ SetCached(x.q, a) /\ UNCHANGED faults
         \/ Fault /\ UNCHANGED cache
  BY <1>2, <1>3, <1>4 DEF Fill
<1>6. HonestRequest(x)
  BY <1>1, <1>2, <1>5 DEF HonestRequests, Active
<1>7. HonestAnswer(a) /\ a.q = x.q /\ a.at = x.at
  BY <1>3, <1>5, <1>6, AnswerIsHonest
<1>8. /\ x.q \in Questions /\ x.at \in 0..now /\ now <= x.at + MaxLatency
      /\ (x.q.endpoint # "compare" => x.from = x.at - Period[x.q.period])
  BY <1>6 DEF HonestRequest, Windowed
<1>9. now \in Nat /\ MaxLatency \in Nat /\ CacheTTL[x.q.endpoint] \in Nat \ {0} /\ x.at \in Nat
  <2>1. now \in Nat
    BY <1>1 DEF TypeOK
  <2>2. MaxLatency \in Nat
    BY AnalyticsAssumption
  <2>3. CacheTTL[x.q.endpoint] \in Nat \ {0}
    BY <1>8, AnalyticsAssumption
  <2> QED BY <1>8, <2>1, <2>2, <2>3
<1>10. y.pc = "done" /\ HonestReply(y)
  <2>1. y.pc = "done" /\ y.q = x.q /\ y.at = x.at /\ y.from = x.from /\ y.answer = a
    BY <1>4 DEF Reply
  <2>2. a.at <= x.at + MaxLatency
    BY <1>7, <1>9
  <2>3. x.at < a.at + MaxLatency + CacheTTL[a.q.endpoint]
    BY <1>7, <1>9
  <2> QED BY <1>7, <1>8, <2>1, <2>2, <2>3 DEF HonestReply
<1>11. /\ \A c, d \in cache' : c.key = d.key => c = d
       /\ \A c \in cache' : HonestEntry(c)
       /\ asked' \in 0..MaxAsked /\ faults' \in 0..MaxFaults
  <2>1. CASE Fault /\ UNCHANGED cache
    BY <1>5, <2>1, FaultType
  <2>2. CASE SetCached(x.q, a) /\ UNCHANGED faults
    <3>1. PICK n : n = [key |-> cacheKey(x.q), until |-> now + CacheTTL[x.q.endpoint], answer |-> a]
      OBVIOUS
    <3>2. cache' = {c \in cache : c.key # cacheKey(x.q) /\ now < c.until} \union {n}
      BY <2>2, <3>1 DEF SetCached
    <3>3. n.key = cacheKey(x.q) /\ n.until = now + CacheTTL[x.q.endpoint] /\ n.answer = a
      BY <3>1
    <3>4. HonestEntry(n)
      <4>1. n.until \in Int /\ n.until <= a.at + MaxLatency + CacheTTL[a.q.endpoint]
        BY <1>7, <1>8, <1>9, <3>3
      <4> QED BY <1>7, <3>3, <4>1 DEF HonestEntry
    <3>5. \A c, d \in cache' : c.key = d.key => c = d
      BY <1>1, <3>2, <3>3 DEF TypeOK
    <3>6. \A c \in cache' : HonestEntry(c)
      BY <1>1, <3>2, <3>4 DEF HonestCache
    <3> QED BY <1>1, <1>5, <2>2, <3>5, <3>6 DEF TypeOK
  <2> QED BY <1>5, <2>1, <2>2
<1> QED BY <1>5, <1>10, <1>11, RequestStep


\* Every step keeps the inductive invariant.
LEMMA IInvStep ==
  ASSUME IInv, [Next]_vars
  PROVE  IInv'
<1>1. TypeOK /\ HappenedFirst /\ HonestRequests
  BY DEF IInv
<1>2. CASE UNCHANGED vars
  <2>1. UNCHANGED <<now, inserted, since>> /\ UNCHANGED <<cache, req, asked, faults>>
    BY <1>2 DEF vars
  <2>2. Later
    BY <1>1, <2>1 DEF TypeOK, Later, There, Mine, Stored
  <2>3. TypeOK'
    BY <1>1, <2>1 DEF TypeOK
  <2>4. HappenedFirst'
    BY <1>1, <2>1 DEF HappenedFirst, Stored
  <2>5. \A r \in Requests : Active(r) => now' <= req[r].at + MaxLatency
    BY <1>1, <2>1 DEF HonestRequests, HonestRequest
  <2> QED BY <2>1, <2>2, <2>3, <2>4, <2>5, LaterStep
<1>3. CASE Next
  <2>1. Later
    BY <1>1, <1>3, NextLater
  <2>2. CASE Tick
    BY <2>1, <2>2, TickStep
  <2>3. ASSUME NEW e \in Events, Insert(e)
        PROVE  IInv'
    BY <2>1, <2>3, InsertStep
  <2>4. ASSUME NEW r \in Requests, CheckCache(r)
        PROVE  IInv'
    BY <2>1, <2>4, CheckCacheStep
  <2>5. ASSUME NEW r \in Requests, CacheFails(r)
        PROVE  IInv'
    BY <2>1, <2>5, CacheFailsStep
  <2>6. ASSUME NEW r \in Requests, SendQuery(r)
        PROVE  IInv'
    BY <2>1, <2>6, SendQueryStep
  <2>7. ASSUME NEW r \in Requests, QueryFails(r)
        PROVE  IInv'
    BY <2>1, <2>7, QueryFailsStep
  <2>8. ASSUME NEW r \in Requests, RowsCutShort(r)
        PROVE  IInv'
    BY <2>1, <2>8, RowsCutShortStep
  <2>9. ASSUME NEW r \in Requests, Fill(r)
        PROVE  IInv'
    BY <2>1, <2>9, FillStep
  <2>10. ASSUME NEW r \in Requests, NEW q \in Questions, Ask(r, q)
         PROVE  IInv'
    BY <2>1, <2>10, AskStep
  <2> QED BY <1>3, <2>2, <2>3, <2>4, <2>5, <2>6, <2>7, <2>8, <2>9, <2>10 DEF Next
<1> QED BY <1>2, <1>3

\* It holds in every state.
LEMMA IInvAlways == Spec => []IInv
<1>1. Init => IInv
  BY IInvInit
<1>2. IInv /\ [Next]_vars => IInv'
  BY IInvStep
<1> QED BY <1>1, <1>2, PTL DEF Spec

-----------------------------------------------------------------------------
(* The theorems *)

\* The clock, the rows, the cache (one entry of a key) and the requests are
\* of their types.
THEOREM AnalyticsTypes == Spec => []TypeOK
<1>1. IInv => TypeOK
  BY DEF IInv
<1> QED BY <1>1, IInvAlways, PTL

\* getTimeseriesByModel and getTimeseriesByFeature (clickhouse.go): whatever
\* is inserted between the query that chooses the series and the one that
\* reads the points, a series has one point per time, in order, and each
\* event the second query read is in one point of one series.
THEOREM SeriesPartitioned == Spec => []SeriesPartition
<1>1. ASSUME IInv
      PROVE  SeriesPartition
  <2>1. ASSUME NEW r \in Answered("timeseries")
        PROVE  Partitions(req[r].answer.series, Range(req[r].answer.parts["detail"]))
    BY <1>1 DEF Answered, IInv, HonestReplies, HonestReply, HonestAnswer
  <2> QED BY <2>1 DEF SeriesPartition
<1> QED BY <1>1, IInvAlways, PTL

\* HandleOverview: the two periods it compares share no event, and miss none
\* that was stored when the request came.
THEOREM PeriodsTiled == Spec => []PeriodsTile
<1>1. ASSUME IInv, NEW r \in Answered("overview"), NEW a, a = req[r].answer,
             "previous" \in DOMAIN a.parts
      PROVE  /\ DOMAIN a.parts["current"] \intersect DOMAIN a.parts["previous"] = {}
             /\ \A e \in Mine(a.q) :
                  since[e] < a.at /\ a.from - (a.to - a.from) <= Start(Attr[e].time, Hour)
                    /\ Start(Attr[e].time, Hour) < a.to =>
                      e \in DOMAIN a.parts["current"] \union DOMAIN a.parts["previous"]
  <2>1. a.q.endpoint = "overview" /\ HonestAnswer(a)
    BY <1>1 DEF Answered, IInv, HonestReplies, HonestReply
  <2>2. Windowed(a) /\ Honest(a) /\ Needed(a.q) \subseteq DOMAIN a.parts /\ a.q \in Questions
    BY <2>1 DEF HonestAnswer, Windowed
  <2>3. "current" \in DOMAIN a.parts
    BY <2>1, <2>2, QueriesOf
  <2>4. PICK from, to, start : from = a.from /\ to = a.to /\ start = a.from - (a.to - a.from)
    OBVIOUS
  <2>5. PICK hour : hour = [e \in Events |-> Start(Attr[e].time, Hour)]
    OBVIOUS
  <2>6. \A e \in Events : hour[e] \in Int /\ hour[e] = Start(Attr[e].time, Hour)
    BY <2>5, StartBelow, AnalyticsAssumption
  <2>7. from \in Int
    <3>1. a.from = a.at - Period[a.q.period] /\ a.at \in 0..now
      BY <2>1, <2>2 DEF Windowed
    <3>2. Period[a.q.period] \in Nat
      BY <2>1, <2>2, AnalyticsAssumption
    <3> QED BY <2>4, <3>1, <3>2
  <2>8. PICK current, previous :
          /\ current = DOMAIN a.parts["current"] /\ previous = DOMAIN a.parts["previous"]
          /\ HonestHours(a, a.parts["current"], from, to)
          /\ HonestHours(a, a.parts["previous"], start, from)
    BY <1>1, <2>1, <2>2, <2>3, <2>4 DEF Honest
  <2>9. /\ \A e \in current : e \in Events /\ from <= hour[e] /\ hour[e] < to
        /\ \A e \in There(a) : e \in Events /\ from <= hour[e] /\ hour[e] < to => e \in current
    BY <2>6, <2>8 DEF HonestHours
  <2>10. /\ \A e \in previous : e \in Events /\ start <= hour[e] /\ hour[e] < from
         /\ \A e \in There(a) : e \in Events /\ start <= hour[e] /\ hour[e] < from => e \in previous
    BY <2>6, <2>8 DEF HonestHours
  <2>11. current \intersect previous = {}
    BY <2>6, <2>7, <2>9, <2>10
  <2>12. ASSUME NEW e \in Mine(a.q), since[e] < a.at, start <= hour[e], hour[e] < to
         PROVE  e \in current \union previous
    <3>1. e \in There(a) /\ e \in Events
      BY <2>12 DEF There, Mine, Stored
    <3>2. CASE from <= hour[e]
      BY <2>9, <2>12, <3>1, <3>2
    <3>3. CASE hour[e] < from
      BY <2>10, <2>12, <3>1, <3>3
    <3> QED BY <2>6, <2>7, <3>1, <3>2, <3>3
  <2>13. \A e \in Mine(a.q) : hour[e] = Start(Attr[e].time, Hour)
    BY <2>6 DEF Mine, Stored
  <2> QED BY <2>4, <2>8, <2>11, <2>12, <2>13
<1>2. ASSUME IInv
      PROVE  PeriodsTile
  BY <1>1, <1>2 DEF PeriodsTile
<1> QED BY <1>2, IInvAlways, PTL

\* An answer given now counts what was stored before the life of a cache
\* entry and the time of a request.
THEOREM OldRowsCounted == Spec => []OldRowsAreCounted
<1>1. ASSUME IInv, NEW r \in Answered("overview") \union Answered("timeseries"),
             NEW a, a = req[r].answer, a.q.groupBy # "feature", NEW e \in Mine(a.q),
             since[e] <= req[r].at - CacheTTL[a.q.endpoint] - MaxLatency,
             Start(Attr[e].time, Hour) >= req[r].from + MaxLatency
      PROVE  e \in Counted(a)
  <2>1. PICK x : x = req[r]
    OBVIOUS
  <2>2. a.q.endpoint \in {"overview", "timeseries"} /\ HonestReply(x) /\ a = x.answer
    BY <1>1, <2>1 DEF Answered, IInv, HonestReplies
  <2>3. /\ Windowed(a) /\ Honest(a) /\ Needed(a.q) \subseteq DOMAIN a.parts /\ a.q \in Questions
        /\ a.q.endpoint = "timeseries" => Partitions(a.series, Range(a.parts["detail"]))
    BY <2>2 DEF HonestReply, HonestAnswer, Windowed
  <2>4. /\ x.q \in Questions /\ cacheKey(x.q) = cacheKey(a.q) /\ x.at \in 0..now
        /\ (x.q.endpoint # "compare" => x.from = x.at - Period[x.q.period])
        /\ a.at <= x.at + MaxLatency
        /\ x.at < a.at + MaxLatency + CacheTTL[a.q.endpoint]
    BY <2>2 DEF HonestReply
  <2>5. x.q.endpoint = a.q.endpoint /\ x.q.period = a.q.period
    BY <2>2, <2>3, <2>4, SameKey
  <2>6. PICK ttl, length, late :
          /\ ttl = CacheTTL[a.q.endpoint] /\ length = Period[a.q.period] /\ late = MaxLatency
          /\ ttl \in Nat /\ length \in Nat /\ late \in Nat
    <3>1. CacheTTL[a.q.endpoint] \in Nat /\ Period[a.q.period] \in Nat
      BY <2>2, <2>3, AnalyticsAssumption
    <3>2. MaxLatency \in Nat
      BY AnalyticsAssumption
    <3> QED BY <3>1, <3>2
  <2>7. /\ e \in Events /\ e \in Stored /\ now \in Int /\ since[e] \in Int /\ Attr[e].time <= since[e]
        /\ Attr[e].time \in Int /\ Hour \in Nat \ {0}
    <3>1. e \in Events /\ e \in Stored
      BY DEF Mine, Stored
    <3>2. TypeOK /\ HappenedFirst
      BY <1>1 DEF IInv
    <3>3. Attr[e].time \in Int /\ Hour \in Nat \ {0}
      BY <3>1, AnalyticsAssumption
    <3> QED BY <3>1, <3>2, <3>3 DEF TypeOK, HappenedFirst, Never
  <2>8. a.at \in Int /\ x.at \in Int /\ a.to = a.at /\ a.from = a.at - length /\ x.from = x.at - length
    BY <2>2, <2>3, <2>4, <2>5, <2>6, <2>7 DEF Windowed
  <2>9. since[e] < a.at
    BY <1>1, <2>1, <2>4, <2>6, <2>7, <2>8
  <2>10. e \in There(a)
    BY <2>9 DEF There
  <2>11. PICK hour \in Int : hour = Start(Attr[e].time, Hour) /\ hour <= Attr[e].time
    BY <2>7, StartBelow
  <2>12. a.from <= hour /\ hour < a.to
    BY <1>1, <2>1, <2>4, <2>6, <2>7, <2>8, <2>9, <2>11
  <2>13. CASE a.q.endpoint = "overview"
    <3>1. "current" \in DOMAIN a.parts
      BY <2>3, <2>13, QueriesOf
    <3>2. HonestHours(a, a.parts["current"], a.from, a.to)
      BY <2>3, <2>13, <3>1 DEF Honest
    <3>3. e \in DOMAIN a.parts["current"]
      BY <2>7, <2>10, <2>11, <2>12, <3>2 DEF HonestHours
    <3> QED BY <2>13, <3>3 DEF Counted
  <2>14. CASE a.q.endpoint = "timeseries"
    <3>1. "detail" \in DOMAIN a.parts
      BY <2>3, <2>14, QueriesOf
    <3>2. PICK rows : rows = a.parts["detail"]
      OBVIOUS
    <3>3. HonestDetail(a, rows)
      BY <2>3, <2>14, <3>1, <3>2 DEF Honest
    <3>4. PICK i \in DOMAIN rows : e \in DOMAIN rows[i].sum
      BY <1>1, <2>10, <2>11, <2>12, <3>3 DEF HonestDetail
    <3>5. PICK row \in Range(rows) : e \in DOMAIN row.sum
      BY <3>4 DEF Range
    <3>6. PICK s \in a.series : \E p \in Range(s.points) : e \in DOMAIN p.sum
      <4>1. Partitions(a.series, Range(rows))
        BY <2>3, <2>14, <3>2
      <4>2. PICK p \in UNION {{[of |-> s.group, ts |-> y.ts, sum |-> y.sum] : y \in Range(s.points)} :
                              s \in a.series} : e \in DOMAIN p.sum
        BY <3>5, <4>1 DEF Partitions
      <4>3. PICK s \in a.series : p \in {[of |-> s.group, ts |-> y.ts, sum |-> y.sum] : y \in Range(s.points)}
        OBVIOUS
      <4>4. PICK y \in Range(s.points) : p = [of |-> s.group, ts |-> y.ts, sum |-> y.sum]
        BY <4>3
      <4>5. e \in DOMAIN y.sum
        BY <4>2, <4>4
      <4> QED BY <4>5
    <3>7. e \in UNION {DOMAIN p.sum : p \in Range(s.points)}
      BY <3>6
    <3>8. Counted(a) = UNION {UNION {DOMAIN p.sum : p \in Range(z.points)} : z \in a.series}
      BY <2>14 DEF Counted
    <3> QED BY <3>7, <3>8
  <2> QED BY <2>2, <2>13, <2>14
<1>2. ASSUME IInv
      PROVE  OldRowsAreCounted
  BY <1>1, <1>2 DEF OldRowsAreCounted
<1> QED BY <1>2, IInvAlways, PTL

\* cacheKey and GetCached: an answer from the cache is one to the question
\* asked, for the caller's organization, as far as the key can tell.
THEOREM OwnAnswers == Spec => []OwnAnswer
<1>1. ASSUME NEW p \in Questions, NEW q \in Questions, Words(p) = Words(q),
             (Names(p) \union Names(q)) \intersect Groupings = {}
      PROVE  p.groupBy = q.groupBy /\ Names(p) = Names(q)
  <2>1. p.groupBy \in Groupings \union {""} /\ q.groupBy \in Groupings \union {""}
    BY AnalyticsAssumption
  <2>2. "" \notin Groupings
    BY DEF Groupings
  <2>3. /\ Words(p) = Names(p) \union ({p.groupBy} \ {""})
        /\ Words(q) = Names(q) \union ({q.groupBy} \ {""})
    BY DEF Words, Names
  <2> QED BY <1>1, <2>1, <2>2, <2>3
<1>2. ASSUME IInv
      PROVE  OwnAnswer
  <2>1. ASSUME NEW r \in Requests, Done(r), NEW q, q = req[r].q, NEW p, p = req[r].answer.q
        PROVE  /\ p.org = q.org /\ p.endpoint = q.endpoint
               /\ q.endpoint # "cost-filters" => p.period = q.period
               /\ q.endpoint \in {"overview", "cost-filters"} => p.project = q.project
               /\ q.endpoint \notin {"overview", "cost-filters"} =>
                    /\ Words(p) = Words(q)
                    /\ (Names(p) \union Names(q)) \intersect Groupings = {} =>
                         p.groupBy = q.groupBy /\ Names(p) = Names(q)
    <3>1. p \in Questions /\ q \in Questions /\ cacheKey(p) = cacheKey(q)
      BY <1>2, <2>1 DEF IInv, HonestReplies, HonestReply, HonestAnswer, Windowed
    <3>2. /\ p.org = q.org /\ p.endpoint = q.endpoint
          /\ q.endpoint # "cost-filters" => p.period = q.period
          /\ q.endpoint \in {"overview", "cost-filters"} => p.project = q.project
          /\ q.endpoint \notin {"overview", "cost-filters"} => Words(p) = Words(q)
      BY <3>1, SameKey
    <3> QED BY <1>1, <3>1, <3>2
  <2> QED BY <2>1 DEF OwnAnswer
<1> QED BY <1>2, IInvAlways, PTL
=============================================================================
