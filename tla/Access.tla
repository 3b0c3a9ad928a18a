------------------------------- MODULE Access -------------------------------
(***************************************************************************)
(* API keys and rate limits in front of the ingestion handlers: the        *)
(* middleware chain IPRateLimit, Auth (Redis cache, then PostgreSQL, then  *)
(* the cache fill), OrgRateLimit, run by concurrent requests, against      *)
(* HandleCreate and HandleRevoke of the dashboard.  Redis and PostgreSQL   *)
(* calls may fail.  One client address and one organization.               *)
(***************************************************************************)
EXTENDS Integers, FiniteSets

CONSTANTS
  Keys,        \* API keys
  Requests,    \* HTTP requests to the ingestion server
  CacheTTL,    \* cacheTTL of AuthMiddleware (5 minutes)
  Tier,        \* the organization's tier
  TierLimit,   \* requests per window of each known tier
  IPLimit,     \* requests per window of an address (200)
  Window,      \* rate limit windows (a minute for "ip", a second for "org")
  MaxLatency,  \* longest time a request takes in the middleware
  MaxTime,     \* bound: the clock
  MaxFaults    \* bound: failed Redis and PostgreSQL calls

Counters == {"ip", "org"}
Never == -1

ASSUME AccessAssumption ==
  /\ Keys # {}
  /\ CacheTTL \in Nat \ {0}
  /\ MaxLatency \in Nat
  /\ MaxTime \in Nat /\ MaxFaults \in Nat
  /\ Window \in [Counters -> Nat \ {0}]
  /\ IPLimit \in Nat
  /\ "free" \in DOMAIN TierLimit /\ \A t \in DOMAIN TierLimit : TierLimit[t] \in Nat

VARIABLES
  now,        \* the clock
  created,    \* rows of api_keys
  revokedAt,  \* their revoked_at
  cache,      \* Redis entries of keys: what they say, and until when
  counter,    \* Redis rate limit counters and their expiry
  pc,         \* control state of each request
  key,        \* its API key
  at,         \* its arrival
  got,        \* the apiKey value it holds
  asked,      \* when it was checked against each counter
  waved,      \* counters it was let through by after a Redis error
  revoker,    \* the request running HandleRevoke
  faults      \* failed calls so far

db == <<created, revokedAt>>
request == <<pc, key, at, got, asked, waved>>
vars == <<now, db, cache, counter, request, revoker, faults>>

Control == {"new", "ip", "cache", "store", "fill", "verdict", "org",
            "accepted", "limited", "refused", "failed"}
Active == {"ip", "cache", "store", "fill", "verdict", "org"}
NoEntry == [says |-> "none", until |-> 0]
NoCount == [count |-> 0, until |-> 0]
Idle == [pc |-> "idle", key |-> CHOOSE k \in Keys : TRUE, found |-> {}]

\* RateLimitForTier, whose default is the limit of the free tier.
RateLimitForTier(tier) ==
  TierLimit[IF tier \in DOMAIN TierLimit THEN tier ELSE "free"]
Limit(c) == IF c = "ip" THEN IPLimit ELSE RateLimitForTier(Tier)

\* A key's plaintext is stored as its hash; its row has an id of its own.
HashKey(k) == <<"hash", k>>
Id(k) == <<"id", k>>

Revoked(k) == revokedAt[k] # Never

\* GetAPIKeyByHash: the rows with that hash, revoked or not.
GetAPIKeyByHash(hash) == {k \in created : HashKey(k) = hash}

\* Mutant: an expired entry still counts.
GetExpiredToo(k) == cache[k].says

\* GetCachedAPIKey: an entry that has not expired.
GetCachedAPIKey(k) == IF now < cache[k].until THEN cache[k].says ELSE "none"

Init ==
  /\ now = 0
  /\ created = {}
  /\ revokedAt = [k \in Keys |-> Never]
  /\ cache = [k \in Keys |-> NoEntry]
  /\ counter = [c \in Counters |-> NoCount]
  /\ pc = [r \in Requests |-> "new"]
  /\ key \in [Requests -> Keys]
  /\ at = [r \in Requests |-> 0]
  /\ got = [r \in Requests |-> "none"]
  /\ asked = [r \in Requests |-> [c \in Counters |-> Never]]
  /\ waved = [r \in Requests |-> {}]
  /\ revoker = Idle
  /\ faults = 0

Fault == faults < MaxFaults /\ faults' = faults + 1
Goto(r, label) == pc' = [pc EXCEPT ![r] = label]

Arrive(r) ==
  /\ pc[r] = "new"
  /\ Goto(r, "ip")
  /\ at' = [at EXCEPT ![r] = now]
  /\ UNCHANGED <<now, db, cache, counter, key, got, asked, waved, revoker, faults>>

(***************************************************************************)
(* IPRateLimitMiddleware and OrgRateLimitMiddleware: checkRateLimit sends  *)
(* INCR and EXPIRE in one pipeline; an error lets the request through.     *)
(***************************************************************************)
\* Mutants: the window ends too early, or never.
IncrEarlyReset(c) ==
  IF counter[c].count > 0 /\ now < counter[c].until - 1 THEN counter[c].count + 1 ELSE 1
IncrForever(c) == counter[c].count + 1

Incr(c) == IF counter[c].count > 0 /\ (counter[c].until = Never \/ now < counter[c].until)
           THEN counter[c].count + 1 ELSE 1

AfterLimit(c) == IF c = "ip" THEN "cache" ELSE "accepted"

checkRateLimit(r, c) ==
  /\ pc[r] = c
  /\ asked' = [asked EXCEPT ![r][c] = now]
  /\ counter' = [counter EXCEPT ![c] = [count |-> Incr(c), until |-> now + Window[c]]]
  /\ Goto(r, IF Incr(c) <= Limit(c) THEN AfterLimit(c) ELSE "limited")
  /\ UNCHANGED <<now, db, cache, key, at, got, waved, revoker, faults>>

\* The pipeline failed: before the server, after INCR alone (a new counter
\* then has no expiry), or after both.
RateLimitError(r, c) ==
  /\ pc[r] = c
  /\ Fault
  /\ \/ UNCHANGED counter
     \/ counter' = [counter EXCEPT ![c] =
          [count |-> Incr(c), until |-> IF Incr(c) = 1 THEN Never ELSE @.until]]
     \/ counter' = [counter EXCEPT ![c] =
          [count |-> Incr(c), until |-> now + Window[c]]]
  /\ asked' = [asked EXCEPT ![r][c] = now]
  /\ waved' = [waved EXCEPT ![r] = @ \cup {c}]
  /\ Goto(r, AfterLimit(c))
  /\ UNCHANGED <<now, db, cache, key, at, got, revoker>>

(***************************************************************************)
(* AuthMiddleware.                                                         *)
(***************************************************************************)
\* Mutant: a Redis error refuses the request.
LookUpRefusing(r) ==
  /\ pc[r] = "cache"
  /\ \/ /\ got' = [got EXCEPT ![r] = GetCachedAPIKey(key[r])]
        /\ Goto(r, IF GetCachedAPIKey(key[r]) = "none" THEN "store" ELSE "verdict")
        /\ UNCHANGED faults
     \/ Fault /\ Goto(r, "refused") /\ UNCHANGED got
  /\ UNCHANGED <<now, db, cache, counter, key, at, asked, waved, revoker>>

\* A Redis error counts as a miss.
LookUp(r) ==
  /\ pc[r] = "cache"
  /\ \/ /\ got' = [got EXCEPT ![r] = GetCachedAPIKey(key[r])]
        /\ Goto(r, IF GetCachedAPIKey(key[r]) = "none" THEN "store" ELSE "verdict")
        /\ UNCHANGED faults
     \/ Fault /\ Goto(r, "store") /\ UNCHANGED got
  /\ UNCHANGED <<now, db, cache, counter, key, at, asked, waved, revoker>>

\* PostgreSQL: 500 on an error, 401 without a row.
Load(r) ==
  LET k == key[r]
  IN  /\ pc[r] = "store"
      /\ \/ /\ GetAPIKeyByHash(HashKey(k)) = {}
            /\ Goto(r, "refused")
            /\ UNCHANGED <<got, faults>>
         \/ /\ k \in GetAPIKeyByHash(HashKey(k))
            /\ got' = [got EXCEPT ![r] = IF Revoked(k) THEN "revoked" ELSE "live"]
            /\ Goto(r, "fill")
            /\ UNCHANGED faults
         \/ Fault /\ Goto(r, "failed") /\ UNCHANGED got
      /\ UNCHANGED <<now, db, cache, counter, key, at, asked, waved, revoker>>

\* Mutant: the life of an entry is given in the wrong unit.
SetCachedForMinutes(k, value) ==
  cache' = [cache EXCEPT ![k] = [says |-> value, until |-> now + 60 * CacheTTL]]

SetCachedAPIKey(k, value) ==
  cache' = [cache EXCEPT ![k] = [says |-> value, until |-> now + CacheTTL]]

\* The fill does not look at what happened to the key since it was loaded.
Fill(r) ==
  /\ pc[r] = "fill"
  /\ \/ SetCachedAPIKey(key[r], got[r]) /\ UNCHANGED faults
     \/ Fault /\ UNCHANGED cache
  /\ Goto(r, "verdict")
  /\ UNCHANGED <<now, db, counter, key, at, got, asked, waved, revoker>>

\* IsRevoked; every key is created with the write scope that is checked next.
Verdict(r) ==
  /\ pc[r] = "verdict"
  /\ Goto(r, IF got[r] = "revoked" THEN "refused" ELSE "org")
  /\ UNCHANGED <<now, db, cache, counter, key, at, got, asked, waved, revoker, faults>>

(***************************************************************************)
(* The dashboard's key management.                                         *)
(***************************************************************************)
HandleCreate(k) ==
  /\ k \notin created
  /\ created' = created \cup {k}
  /\ UNCHANGED <<now, revokedAt, cache, counter, request, revoker, faults>>

\* HandleRevoke asks for the key "to find hash for cache invalidation", but
\* passes the id; an error is only logged.
RevokeFind(k) ==
  /\ revoker.pc = "idle"
  /\ k \in created
  /\ \/ /\ revoker' = [pc |-> "update", key |-> k, found |-> GetAPIKeyByHash(Id(k))]
        /\ UNCHANGED faults
     \/ /\ Fault
        /\ revoker' = [pc |-> "update", key |-> k, found |-> {}]
  /\ UNCHANGED <<now, db, cache, counter, request>>

\* RevokeAPIKey; no row updated, or an error, is answered 404.
RevokeUpdate ==
  /\ revoker.pc = "update"
  /\ \/ /\ ~Revoked(revoker.key)
        /\ revokedAt' = [revokedAt EXCEPT ![revoker.key] = now]
        /\ revoker' = [revoker EXCEPT !.pc = "invalidate"]
        /\ UNCHANGED faults
     \/ /\ Revoked(revoker.key)
        /\ revoker' = Idle
        /\ UNCHANGED <<revokedAt, faults>>
     \/ Fault /\ revoker' = Idle /\ UNCHANGED revokedAt
  /\ UNCHANGED <<now, created, cache, counter, request>>

\* DeleteCachedAPIKey, if the key was found; then the answer.
RevokeInvalidate ==
  /\ revoker.pc = "invalidate"
  /\ \/ /\ cache' = [k \in Keys |-> IF k \in revoker.found THEN NoEntry ELSE cache[k]]
        /\ UNCHANGED faults
     \/ revoker.found # {} /\ Fault /\ UNCHANGED cache
  /\ revoker' = Idle
  /\ UNCHANGED <<now, db, counter, request>>

\* Time passes, but no request is in the middleware longer than MaxLatency.
Tick ==
  /\ now < MaxTime
  /\ \A r \in Requests : pc[r] \in Active => now < at[r] + MaxLatency
  /\ now' = now + 1
  /\ UNCHANGED <<db, cache, counter, request, revoker, faults>>

Step(r) ==
  \/ Arrive(r)
  \/ \E c \in Counters : checkRateLimit(r, c) \/ RateLimitError(r, c)
  \/ LookUp(r) \/ Load(r) \/ Fill(r) \/ Verdict(r)

Manage == \/ \E k \in Keys : HandleCreate(k) \/ RevokeFind(k)
          \/ RevokeUpdate \/ RevokeInvalidate

Next == Tick \/ Manage \/ \E r \in Requests : Step(r)

Spec == Init /\ [][Next]_vars

(***************************************************************************)
(* Properties.                                                             *)
(***************************************************************************)
Says == {"none", "live", "revoked"}
TypeOK ==
  /\ now \in Nat
  /\ created \subseteq Keys
  /\ revokedAt \in [Keys -> 0..now \cup {Never}]
  /\ cache \in [Keys -> [says: Says, until: 0..(now + CacheTTL)]]
  /\ counter \in [Counters -> [count: Nat, until: Nat \cup {Never}]]
  /\ pc \in [Requests -> Control]
  /\ key \in [Requests -> Keys]
  /\ at \in [Requests -> 0..now]
  /\ got \in [Requests -> Says]
  /\ asked \in [Requests -> [Counters -> 0..now \cup {Never}]]
  /\ waved \in [Requests -> SUBSET Counters]
  /\ revoker \in [pc: {"idle", "update", "invalidate"}, key: Keys, found: SUBSET Keys]
  /\ faults \in Nat

\* Although nothing invalidates the cache, a revoked key ages out: a request
\* that arrives CacheTTL after the revocation, and the time a request may
\* sit between its load and its cache fill, is never accepted with it.
RevokedKeyAgesOut ==
  \A r \in Requests : pc[r] = "accepted" =>
    \/ ~Revoked(key[r])
    \/ at[r] < revokedAt[key[r]] + MaxLatency + CacheTTL

\* A key that exists and is not revoked is never answered 401, whatever the
\* cache holds: neither a miss nor a cached refusal outlives its reason.
RefusalIsRight ==
  [][\A r \in Requests : pc[r] # "refused" /\ pc'[r] = "refused" =>
        key[r] \notin created \/ Revoked(key[r])]_vars

\* The inductive invariant behind both: what is held or cached says of the
\* key what was true when it was loaded, and the clock bounds how long ago.
HeldIsKnown ==
  \A r \in Requests :
    /\ pc[r] \in {"fill", "verdict"} => got[r] # "none"
    /\ pc[r] \in {"org", "accepted"} => got[r] = "live"
RevokedStaysRevoked ==
  /\ \A r \in Requests : got[r] = "revoked" => Revoked(key[r])
  /\ \A k \in Keys : cache[k].says = "revoked" => Revoked(k)
InTime == \A r \in Requests : pc[r] \in Active => now <= at[r] + MaxLatency
LoadedBefore ==
  \A r \in Requests : pc[r] = "fill" /\ got[r] = "live" /\ Revoked(key[r]) =>
    at[r] <= revokedAt[key[r]]
EntryAges ==
  \A k \in Keys : cache[k].says = "live" /\ Revoked(k) =>
    cache[k].until <= revokedAt[k] + MaxLatency + CacheTTL
HeldAges ==
  \A r \in Requests : pc[r] \in {"verdict", "org", "accepted"} /\ got[r] = "live" /\ Revoked(key[r]) =>
    at[r] < revokedAt[key[r]] + MaxLatency + CacheTTL
IInv == TypeOK /\ HeldIsKnown /\ RevokedStaysRevoked /\ InTime /\ LoadedBefore /\ EntryAges /\ HeldAges

\* Requests a working limiter let pass at a counter.
Admitted(r, c) ==
  /\ asked[r][c] # Never
  /\ c \notin waved[r]
  /\ ~(pc[r] = "limited" /\ (c = "org" \/ asked[r]["org"] = Never))

\* Those of them that asked in the window from t.
Within(c, t) == {r \in Requests : Admitted(r, c) /\ asked[r][c] \in t..(t + Window[c] - 1)}

\* "sliding window counter": no interval as long as the window sees more
\* requests admitted than the limit, wherever it starts.
SlidingLimit ==
  \A c \in Counters : \A t \in 0..now : Cardinality(Within(c, t)) <= Limit(c)

\* A request is answered 429 only if another one asked within the window
\* before it; but a counter that lost its expiry (INCR applied, EXPIRE lost)
\* may refuse the first request after any length of silence.
QuietIsAdmitted ==
  [][\A r \in Requests, c \in Counters :
       pc[r] = c /\ pc'[r] = "limited" =>
         \/ Limit(c) = 0
         \/ counter[c].until = Never
         \/ \E q \in Requests \ {r} :
              asked[q][c] # Never /\ now - asked[q][c] < Window[c]]_vars

\* What HandleRevoke's comment says: "Invalidate Redis cache for this key".
\* When it answers, without a failed call, no entry says the key is live.
RevokeInvalidates ==
  [][revoker.pc = "invalidate" /\ faults' = faults /\ revoker'.pc = "idle" =>
       cache'[revoker.key].says # "live"]_vars
=============================================================================
