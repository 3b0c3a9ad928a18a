---------------------------- MODULE MCAnalytics ----------------------------
(***************************************************************************)
(* A small instance of Analytics for TLC: a tick is half an hour, a day    *)
(* has two hours and a week two days.                                      *)
(***************************************************************************)
EXTENDS Analytics

Row(org, project, time, model, provider, feature, cost) ==
  [org |-> org, project |-> project, time |-> time, model |-> model,
   provider |-> provider, feature |-> feature, cost |-> cost]

Rows == <<
  Row("a", "p", -2, "m1", "x", "f", 2),
  Row("a", "",  -3, "x",  "y", "g", 3),
  Row("b", "",   0, "m1", "x", "",  1)>>

Ask0 == [endpoint |-> "overview", org |-> "a", project |-> "", period |-> "1d",
         groupBy |-> "", model |-> "", provider |-> "", feature |-> ""]
Cost0 == [Ask0 EXCEPT !.endpoint = "cost", !.period = "7d", !.groupBy = "model"]
Series0 == [Ask0 EXCEPT !.endpoint = "timeseries"]

AllQuestions == {
  Ask0, [Ask0 EXCEPT !.org = "b"], [Ask0 EXCEPT !.project = "p"],
  [Cost0 EXCEPT !.model = "x"], [Cost0 EXCEPT !.provider = "x"],
  [Cost0 EXCEPT !.groupBy = "feature", !.provider = "x"],
  [Cost0 EXCEPT !.groupBy = "project", !.project = "p"],
  Series0, [Series0 EXCEPT !.period = "7d", !.groupBy = "model"],
  [Series0 EXCEPT !.period = "90d", !.groupBy = "feature"],
  [Cost0 EXCEPT !.endpoint = "compare", !.period = "adjacent"],
  [Ask0 EXCEPT !.endpoint = "cost-filters"],
  [Ask0 EXCEPT !.endpoint = "cost-filters", !.period = "7d"]}

Lengths == [p \in {"1d", "7d", "90d"} |-> CASE p = "1d" -> 4 [] p = "7d" -> 8 [] OTHER -> 16]
Adjacent == [p \in {"adjacent"} |-> [current |-> <<-3, 0>>, previous |-> <<-6, -3>>]]
Lives == [e \in Endpoints |-> IF e = "cost-filters" THEN 2 ELSE 1]
\* Requests whose cache keys differ share nothing and are explored apart.
Keys == {cacheKey(req[r].q) : r \in {s \in Requests : req[s].pc # "idle"}} \union {c.key : c \in cache}
Apart == Cardinality(Keys) <= 1

Interchangeable == Permutations(Requests)
=============================================================================
