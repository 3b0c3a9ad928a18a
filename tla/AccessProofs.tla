---------------------------- MODULE AccessProofs ----------------------------
(***************************************************************************)
(* The types of Access, RevokedKeyAgesOut, RefusalIsRight and the two      *)
(* properties of the rate limits, for any keys and requests, any life of a *)
(* cache entry, any limits and windows, and any number of failures.        *)
(***************************************************************************)
EXTENDS Access, FiniteSetTheorems, TLAPS

\* The inductive invariant holds at the start.
LEMMA IInvInit == Init => IInv
<1> SUFFICES ASSUME Init PROVE IInv
  OBVIOUS
<1>1. (CHOOSE k \in Keys : TRUE) \in Keys
  BY AccessAssumption
<1>2. TypeOK
  BY <1>1, AccessAssumption
  DEF Init, TypeOK, Control, Counters, Says, NoEntry, NoCount, Idle, Never
<1> QED
  BY <1>2, AccessAssumption
  DEF Init, IInv, HeldIsKnown, RevokedStaysRevoked, InTime, LoadedBefore, EntryAges, HeldAges,
      Active, Revoked, NoEntry, Never

\* What a rate limiter's counter becomes is a count.
LEMMA IncrType == ASSUME TypeOK, NEW c \in Counters PROVE Incr(c) \in Nat \ {0}
BY DEF TypeOK, Incr

\* The label after a counter: a limiter never leads into the middle of
\* AuthMiddleware.
LEMMA AfterLimitLabel ==
  ASSUME NEW c \in Counters
  PROVE /\ AfterLimit(c) \in {"cache", "accepted"}
        /\ c = "ip" => AfterLimit(c) = "cache"
BY DEF AfterLimit, Counters

\* No step of a request's way through a limiter breaks the invariant.
LEMMA LimitStep ==
  ASSUME IInv, NEW r \in Requests, NEW c \in Counters,
         checkRateLimit(r, c) \/ RateLimitError(r, c)
  PROVE IInv'
<1> USE AccessAssumption DEF IInv, Counters, Goto, Fault, db, request
<1>1. /\ pc[r] = c
      /\ pc' \in {[pc EXCEPT ![r] = l] : l \in {AfterLimit(c), "limited"}}
      /\ UNCHANGED <<now, created, revokedAt, cache, key, at, got, revoker>>
  BY DEF checkRateLimit, RateLimitError
<1>2. counter' \in [Counters -> [count: Nat, until: Nat \cup {Never}]]
  <2> DEFINE To(n, u) == [counter EXCEPT ![c] = [count |-> n, until |-> u]]
  <2>1. \A n \in Nat, u \in Nat \cup {Never} :
          To(n, u) \in [Counters -> [count: Nat, until: Nat \cup {Never}]]
    BY DEF TypeOK
  <2>2. /\ now + Window[c] \in Nat
        /\ Incr(c) \in Nat
        /\ counter[c].until \in Nat \cup {Never}
    BY IncrType DEF TypeOK
  <2>3. \/ counter' = counter
        \/ \E u \in Nat \cup {Never} : counter' = To(Incr(c), u)
    BY <2>2 DEF checkRateLimit, RateLimitError
  <2> QED
    BY <2>1, <2>2, <2>3 DEF TypeOK
<1>3. /\ asked' \in [Requests -> [Counters -> 0..now \cup {Never}]]
      /\ waved' \in [Requests -> SUBSET Counters]
      /\ faults' \in Nat
  <2>1. asked' = [asked EXCEPT ![r][c] = now] /\ now \in 0..now
    BY DEF checkRateLimit, RateLimitError, TypeOK
  <2>2. waved' \in {waved, [waved EXCEPT ![r] = @ \cup {c}]} /\ faults' \in {faults, faults + 1}
    BY DEF checkRateLimit, RateLimitError
  <2>3. asked[r] \in [Counters -> 0..now \cup {Never}] /\ waved[r] \in SUBSET Counters
    BY DEF TypeOK
  <2>4. asked' \in [Requests -> [Counters -> 0..now \cup {Never}]]
    BY <2>1, <2>3 DEF TypeOK
  <2>5. [waved EXCEPT ![r] = @ \cup {c}] \in [Requests -> SUBSET Counters]
    BY <2>3 DEF TypeOK
  <2>6. waved' \in [Requests -> SUBSET Counters]
    BY <2>2, <2>5 DEF TypeOK
  <2>7. faults' \in Nat
    BY <2>2 DEF TypeOK
  <2> QED
    BY <2>4, <2>6, <2>7
<1>4. TypeOK'
  <2>1. AfterLimit(c) \in Control /\ "limited" \in Control
    BY AfterLimitLabel DEF Control
  <2>2. \A l \in Control : [pc EXCEPT ![r] = l] \in [Requests -> Control]
    BY DEF TypeOK
  <2>3. pc' \in [Requests -> Control]
    BY <1>1, <2>1, <2>2
  <2> QED
    BY <1>1, <1>2, <1>3, <2>3 DEF TypeOK
<1> QED
  BY <1>1, <1>4, AfterLimitLabel
  DEF TypeOK, HeldIsKnown, RevokedStaysRevoked, InTime, LoadedBefore, EntryAges, HeldAges,
      Active, Revoked

\* No step of AuthMiddleware breaks the invariant: an entry is live only if
\* the key was not revoked when it was loaded, at most MaxLatency before.
LEMMA AuthStep ==
  ASSUME IInv, NEW r \in Requests, LookUp(r) \/ Load(r) \/ Fill(r) \/ Verdict(r)
  PROVE IInv'
<1> USE AccessAssumption DEF IInv, Goto, Fault, db, request
<1>1. CASE LookUp(r)
  <2>1. /\ pc[r] = "cache"
        /\ UNCHANGED <<now, created, revokedAt, cache, counter, key, at, asked, waved, revoker>>
        /\ faults' \in Nat
    BY <1>1 DEF LookUp, TypeOK
  <2>2. CASE pc' = [pc EXCEPT ![r] = "store"] /\ got' \in {got, [got EXCEPT ![r] = "none"]}
    <3>1. pc' \in [Requests -> Control] /\ got' \in [Requests -> Says]
      BY <2>2 DEF TypeOK, Control, Says
    <3>2. TypeOK'
      BY <2>1, <3>1 DEF TypeOK
    <3> QED
      BY <2>1, <2>2, <3>2 DEF TypeOK, HeldIsKnown, RevokedStaysRevoked, InTime, LoadedBefore,
                              EntryAges, HeldAges, Active, Revoked
  <2>3. CASE /\ pc' = [pc EXCEPT ![r] = "verdict"]
             /\ got' = [got EXCEPT ![r] = cache[key[r]].says]
             /\ cache[key[r]].says # "none"
             /\ now < cache[key[r]].until
    <3>1. /\ key[r] \in Keys /\ cache[key[r]].says \in {"live", "revoked"}
          /\ at[r] \in 0..now /\ now \in Nat /\ cache[key[r]].until \in Nat
      BY <2>3 DEF TypeOK, Says
    <3>2. pc' \in [Requests -> Control] /\ got' \in [Requests -> Says]
      BY <2>3, <3>1 DEF TypeOK, Control, Says
    <3>3. TypeOK'
      BY <2>1, <3>2 DEF TypeOK
    <3>4. HeldIsKnown' /\ RevokedStaysRevoked' /\ InTime' /\ LoadedBefore' /\ EntryAges'
      BY <2>1, <2>3, <3>1 DEF TypeOK, HeldIsKnown, RevokedStaysRevoked, InTime, LoadedBefore,
                              EntryAges, Active, Revoked
    <3>5. HeldAges'
      <4> SUFFICES ASSUME NEW q \in Requests, pc'[q] \in {"verdict", "org", "accepted"},
                          got'[q] = "live", Revoked(key[q])
                   PROVE at[q] < revokedAt[key[q]] + MaxLatency + CacheTTL
        BY <2>1 DEF HeldAges, Revoked
      <4>1. CASE q = r
        BY <2>3, <3>1, <4>1 DEF TypeOK, EntryAges, Revoked
      <4>2. CASE q # r
        BY <2>3, <4>2 DEF TypeOK, HeldAges
      <4> QED
        BY <4>1, <4>2
    <3> QED
      BY <3>3, <3>4, <3>5
  <2> QED
    BY <1>1, <2>2, <2>3 DEF LookUp, GetCachedAPIKey
<1>2. CASE Load(r)
  <2>1. /\ pc[r] = "store"
        /\ UNCHANGED <<now, created, revokedAt, cache, counter, key, at, asked, waved, revoker>>
        /\ faults' \in Nat
    BY <1>2 DEF Load, TypeOK
  <2>2. CASE pc' \in {[pc EXCEPT ![r] = l] : l \in {"refused", "failed"}} /\ got' = got
    <3>1. pc' \in [Requests -> Control]
      BY <2>2 DEF TypeOK, Control
    <3>2. TypeOK'
      BY <2>1, <2>2, <3>1 DEF TypeOK
    <3> QED
      BY <2>1, <2>2, <3>2 DEF TypeOK, HeldIsKnown, RevokedStaysRevoked, InTime, LoadedBefore,
                              EntryAges, HeldAges, Active, Revoked
  <2>3. CASE /\ pc' = [pc EXCEPT ![r] = "fill"]
             /\ got' = [got EXCEPT ![r] = IF Revoked(key[r]) THEN "revoked" ELSE "live"]
    <3>1. pc' \in [Requests -> Control] /\ got' \in [Requests -> Says]
      BY <2>3 DEF TypeOK, Control, Says
    <3>2. TypeOK'
      BY <2>1, <3>1 DEF TypeOK
    <3> QED
      BY <2>1, <2>3, <3>2 DEF TypeOK, HeldIsKnown, RevokedStaysRevoked, InTime, LoadedBefore,
                              EntryAges, HeldAges, Active, Revoked
  <2> QED
    BY <1>2, <2>2, <2>3 DEF Load
<1>3. CASE Fill(r)
  <2>1. /\ pc[r] = "fill" /\ pc' = [pc EXCEPT ![r] = "verdict"]
        /\ UNCHANGED <<now, created, revokedAt, counter, key, at, got, asked, waved, revoker>>
        /\ faults' \in Nat
    BY <1>3 DEF Fill, TypeOK
  <2>2. cache' \in {cache, [cache EXCEPT ![key[r]] = [says |-> got[r], until |-> now + CacheTTL]]}
    BY <1>3 DEF Fill, SetCachedAPIKey
  <2>3. key[r] \in Keys /\ got[r] \in Says /\ at[r] \in 0..now /\ now \in Nat
    BY DEF TypeOK
  <2>4. pc' \in [Requests -> Control]
    BY <2>1 DEF TypeOK, Control
  <2>5. [says |-> got[r], until |-> now + CacheTTL] \in [says: Says, until: 0..(now + CacheTTL)]
    BY <2>3
  <2>6. TypeOK'
    BY <2>1, <2>2, <2>3, <2>4, <2>5 DEF TypeOK
  <2>7. HeldIsKnown' /\ InTime' /\ LoadedBefore'
    BY <2>1 DEF TypeOK, HeldIsKnown, InTime, LoadedBefore, Active, Revoked
  <2>8. RevokedStaysRevoked'
    <3>1. \A k \in Keys : cache'[k] = cache[k] \/ (k = key[r] /\ cache'[k].says = got[r])
      BY <2>2, <2>3 DEF TypeOK
    <3> QED
      BY <2>1, <3>1 DEF RevokedStaysRevoked, Revoked
  <2>9. got[r] = "live" /\ Revoked(key[r]) =>
          /\ at[r] <= revokedAt[key[r]] /\ revokedAt[key[r]] \in Nat
          /\ now <= revokedAt[key[r]] + MaxLatency
    BY <2>1, <2>3 DEF TypeOK, LoadedBefore, InTime, Active, Revoked
  <2>10. EntryAges'
    <3> SUFFICES ASSUME NEW k \in Keys, cache'[k].says = "live", Revoked(k)
                 PROVE cache'[k].until <= revokedAt[k] + MaxLatency + CacheTTL
      BY <2>1 DEF EntryAges, Revoked
    <3>1. CASE cache'[k] = cache[k]
      BY <3>1 DEF EntryAges
    <3>2. CASE k = key[r] /\ cache'[k] = [says |-> got[r], until |-> now + CacheTTL]
      BY <2>3, <2>9, <3>2
    <3> QED
      BY <2>2, <3>1, <3>2 DEF TypeOK
  <2>11. HeldAges'
    <3> SUFFICES ASSUME NEW q \in Requests, pc'[q] \in {"verdict", "org", "accepted"},
                        got[q] = "live", Revoked(key[q])
                 PROVE at[q] < revokedAt[key[q]] + MaxLatency + CacheTTL
      BY <2>1 DEF HeldAges, Revoked
    <3>1. CASE q = r
      <4>1. /\ at[r] <= revokedAt[key[r]] /\ revokedAt[key[r]] \in Nat
        BY <2>9, <3>1
      <4> QED
        BY <2>3, <3>1, <4>1
    <3>2. CASE q # r
      BY <2>1, <3>2 DEF TypeOK, HeldAges
    <3> QED
      BY <3>1, <3>2
  <2> QED
    BY <2>6, <2>7, <2>8, <2>10, <2>11
<1>4. CASE Verdict(r)
  <2>1. TypeOK'
    BY <1>4 DEF Verdict, TypeOK, Control
  <2> QED
    BY <1>4, <2>1 DEF Verdict, TypeOK, Says, HeldIsKnown, RevokedStaysRevoked, InTime,
                      LoadedBefore, EntryAges, HeldAges, Active, Revoked
<1> QED
  BY <1>1, <1>2, <1>3, <1>4

\* No step of the key management breaks it: revocation is dated now, and
\* every live entry ends within CacheTTL from now.
LEMMA ManageStep == ASSUME IInv, Manage PROVE IInv'
<1> USE AccessAssumption DEF IInv, Fault, db, request
<1>1. ASSUME NEW k \in Keys, HandleCreate(k) PROVE IInv'
  BY <1>1 DEF HandleCreate, TypeOK, HeldIsKnown, RevokedStaysRevoked, InTime, LoadedBefore,
              EntryAges, HeldAges, Revoked
<1>2. ASSUME NEW k \in Keys, RevokeFind(k) PROVE IInv'
  <2>1. TypeOK'
    BY <1>2 DEF RevokeFind, GetAPIKeyByHash, TypeOK
  <2> QED
    BY <1>2, <2>1 DEF RevokeFind, HeldIsKnown, RevokedStaysRevoked, InTime, LoadedBefore,
                      EntryAges, HeldAges, Revoked
<1>3. CASE RevokeUpdate
  <2>1. revoker.key \in Keys
    BY DEF TypeOK
  <2>2. Idle \in [pc: {"idle", "update", "invalidate"}, key: Keys, found: SUBSET Keys]
    BY (CHOOSE k \in Keys : TRUE) \in Keys DEF Idle
  <2>3. TypeOK'
    <3>1. now \in 0..now /\ faults' \in Nat
      BY <1>3 DEF RevokeUpdate, TypeOK
    <3>2. revokedAt' \in [Keys -> 0..now \cup {Never}]
      BY <1>3, <2>1, <3>1 DEF RevokeUpdate, TypeOK
    <3>3. revoker' \in [pc: {"idle", "update", "invalidate"}, key: Keys, found: SUBSET Keys]
      BY <1>3, <2>2 DEF RevokeUpdate, TypeOK
    <3> QED
      BY <1>3, <3>1, <3>2, <3>3 DEF RevokeUpdate, TypeOK
  <2>4. CASE UNCHANGED revokedAt
    BY <1>3, <2>3, <2>4 DEF RevokeUpdate, HeldIsKnown, RevokedStaysRevoked, InTime, LoadedBefore,
                            EntryAges, HeldAges, Revoked
  <2>5. CASE ~Revoked(revoker.key) /\ revokedAt' = [revokedAt EXCEPT ![revoker.key] = now]
    <3>1. HeldIsKnown' /\ RevokedStaysRevoked' /\ InTime'
      BY <1>3, <2>1, <2>5 DEF RevokeUpdate, TypeOK, HeldIsKnown, RevokedStaysRevoked, InTime,
                              Revoked, Never
    <3>2. LoadedBefore' /\ HeldAges'
      <4>1. \A r \in Requests : at[r] \in 0..now /\ key[r] \in Keys
        BY DEF TypeOK
      <4>2. /\ now \in Nat /\ UNCHANGED <<pc, got, at, key>>
            /\ \A k \in Keys : revokedAt'[k] = IF k = revoker.key THEN now ELSE revokedAt[k]
        BY <1>3, <2>5 DEF RevokeUpdate, TypeOK
      <4> QED
        BY <4>1, <4>2 DEF LoadedBefore, HeldAges, Revoked
    <3>3. EntryAges'
      BY <1>3, <2>1, <2>5 DEF RevokeUpdate, TypeOK, EntryAges, Revoked
    <3> QED
      BY <2>3, <3>1, <3>2, <3>3
  <2> QED
    BY <1>3, <2>4, <2>5 DEF RevokeUpdate
<1>4. CASE RevokeInvalidate
  <2>1. Idle \in [pc: {"idle", "update", "invalidate"}, key: Keys, found: SUBSET Keys]
    BY (CHOOSE k \in Keys : TRUE) \in Keys DEF Idle
  <2>2. \A k \in Keys : cache'[k] \in {NoEntry, cache[k]}
    BY <1>4 DEF RevokeInvalidate, TypeOK
  <2>3. TypeOK'
    BY <1>4, <2>1 DEF RevokeInvalidate, TypeOK, NoEntry, Says
  <2> QED
    BY <1>4, <2>2, <2>3 DEF RevokeInvalidate, HeldIsKnown, RevokedStaysRevoked, InTime,
                            LoadedBefore, EntryAges, HeldAges, Revoked, NoEntry
<1> QED
  BY <1>1, <1>2, <1>3, <1>4 DEF Manage

\* Neither the clock, which waits for the requests in the middleware, nor an
\* arrival breaks it.
LEMMA IInvStep == IInv /\ [Next]_vars => IInv'
<1> SUFFICES ASSUME IInv, [Next]_vars PROVE IInv'
  OBVIOUS
<1> USE AccessAssumption DEF db, request
<1>1. CASE Tick
  <2>1. TypeOK'
    BY <1>1 DEF Tick, IInv, TypeOK
  <2> QED
    BY <1>1, <2>1 DEF Tick, IInv, TypeOK, HeldIsKnown, RevokedStaysRevoked, InTime, LoadedBefore,
                      EntryAges, HeldAges, Revoked
<1>2. ASSUME NEW r \in Requests, Arrive(r) PROVE IInv'
  <2>1. TypeOK'
    BY <1>2 DEF Arrive, Goto, IInv, TypeOK, Control
  <2> QED
    BY <1>2, <2>1 DEF Arrive, Goto, IInv, TypeOK, HeldIsKnown, RevokedStaysRevoked, InTime,
                      LoadedBefore, EntryAges, HeldAges, Active, Revoked
<1>3. CASE UNCHANGED vars
  BY <1>3 DEF vars, IInv, TypeOK, HeldIsKnown, RevokedStaysRevoked, InTime, LoadedBefore,
              EntryAges, HeldAges, Revoked
<1> QED
  BY <1>1, <1>2, <1>3, LimitStep, AuthStep, ManageStep DEF Next, Step

\* A request is refused only by Load, which found no row, or by Verdict, on
\* what was true of the key when it was loaded.
LEMMA RefusalStep ==
  ASSUME IInv, Next, NEW r \in Requests, pc[r] # "refused", pc'[r] = "refused"
  PROVE key[r] \notin created \/ Revoked(key[r])
<1> USE DEF IInv, Goto, db, request
<1>1. ASSUME NEW q \in Requests, Step(q) PROVE key[r] \notin created \/ Revoked(key[r])
  <2>1. CASE q = r
    <3>1. CASE Load(r)
      BY <2>1, <3>1 DEF Load, TypeOK, GetAPIKeyByHash
    <3>2. CASE Verdict(r)
      BY <3>2 DEF Verdict, TypeOK, RevokedStaysRevoked
    <3>3. CASE Arrive(r) \/ LookUp(r) \/ Fill(r)
      BY <3>3 DEF Arrive, LookUp, Fill, TypeOK
    <3>4. ASSUME NEW c \in Counters, checkRateLimit(r, c) \/ RateLimitError(r, c)
          PROVE FALSE
      BY <3>4, AfterLimitLabel DEF checkRateLimit, RateLimitError, TypeOK
    <3> QED
      BY <1>1, <2>1, <3>1, <3>2, <3>3, <3>4 DEF Step
  <2>2. CASE q # r
    BY <1>1, <2>2 DEF Step, Arrive, checkRateLimit, RateLimitError, LookUp, Load, Fill, Verdict, TypeOK
  <2> QED
    BY <2>1, <2>2
<1>2. CASE Tick \/ Manage
  BY <1>2 DEF Tick, Manage, HandleCreate, RevokeFind, RevokeUpdate, RevokeInvalidate
<1> QED
  BY <1>1, <1>2 DEF Next

\* The inductive invariant is one of the specification.
LEMMA Invariance == Spec => []IInv
BY IInvInit, IInvStep, PTL DEF Spec

\* The clock, the tables, the cache, the counters and the requests keep their
\* types, and no entry of the cache outlives CacheTTL.
THEOREM AccessTypes == Spec => []TypeOK
<1>1. IInv => TypeOK
  BY DEF IInv
<1> QED
  BY <1>1, Invariance, PTL

\* Although RevokeInvalidate removes nothing, AuthMiddleware accepts a revoked
\* key at most CacheTTL and the time of one request after the revocation.
THEOREM RevocationTakesEffect == Spec => []RevokedKeyAgesOut
<1>1. IInv => RevokedKeyAgesOut
  BY DEF IInv, HeldIsKnown, HeldAges, RevokedKeyAgesOut
<1> QED
  BY <1>1, Invariance, PTL

\* AuthMiddleware answers 401 only for a key that does not exist or is revoked.
THEOREM RefusalsAreRight == Spec => RefusalIsRight
<1>1. IInv /\ [Next]_vars =>
        [\A r \in Requests : pc[r] # "refused" /\ pc'[r] = "refused" =>
           key[r] \notin created \/ Revoked(key[r])]_vars
  BY RefusalStep
<1> QED
  BY <1>1, Invariance, PTL DEF Spec, RefusalIsRight

-----------------------------------------------------------------------------
(***************************************************************************)
(* The counters.  Every ask, answered or refused, renews the expiry, so    *)
(* the requests of a counter form runs: within one the count bounds the    *)
(* admitted, and a run begins a window after the last admitted request of  *)
(* the run before it.  An interval as long as the window therefore meets   *)
(* one run only.                                                           *)
(***************************************************************************)

Asked(c) == {r \in Requests : asked[r][c] # Never}
AskedInOrder ==
  \A r \in Requests :
    /\ pc[r] \in {"new", "ip"} => asked[r]["ip"] = Never
    /\ pc[r] \in {"new"} \cup Active => asked[r]["org"] = Never

\* The admitted of the run that began at s, and what makes it one.
Since(c, s) == {r \in Requests : Admitted(r, c) /\ asked[r][c] >= s}
Run(c, s) ==
  /\ Cardinality(Since(c, s)) <= counter[c].count
  /\ Cardinality(Since(c, s)) <= Limit(c)
  /\ \A r \in Requests : Admitted(r, c) =>
       /\ asked[r][c] >= s \/ asked[r][c] + Window[c] <= s
       /\ counter[c].until = Never \/ asked[r][c] + Window[c] <= counter[c].until

\* The invariant of one counter.
Bounded(c) ==
  /\ IsFiniteSet(Asked(c))
  /\ \E s \in 0..now : Run(c, s)
  /\ \A t \in 0..now : Cardinality(Within(c, t)) <= Limit(c)
Renewed(c) ==
  /\ counter[c].count = 0 => counter[c].until = 0
  /\ counter[c].count > 0 /\ counter[c].until # Never =>
       \E q \in Asked(c) : counter[c].until <= asked[q][c] + Window[c]
CountersInv == AskedInOrder /\ \A c \in Counters : Bounded(c) /\ Renewed(c)

\* Limits and windows are numbers.
LEMMA LimitType == \A c \in Counters : Limit(c) \in Nat /\ Window[c] \in Nat \ {0}
BY AccessAssumption DEF Limit, RateLimitForTier, Counters

\* What a request's check at a counter changes for the counters: its own entry
\* of asked, which was empty, and whether it is admitted there.
LEMMA LimitEffect ==
  ASSUME TypeOK, AskedInOrder, NEW r \in Requests, NEW c \in Counters,
         checkRateLimit(r, c) \/ RateLimitError(r, c)
  PROVE  /\ now' = now /\ asked[r][c] = Never /\ asked'[r][c] = now
         /\ \A q \in Requests, d \in Counters : q # r \/ d # c =>
              asked'[q][d] = asked[q][d] /\ (Admitted(q, d)' <=> Admitted(q, d))
         /\ \A d \in Counters \ {c} : counter'[d] = counter[d]
         /\ AskedInOrder'
<1>1. /\ now' = now /\ pc[r] = c /\ asked' = [asked EXCEPT ![r][c] = now]
      /\ \A d \in Counters \ {c} : counter'[d] = counter[d]
      /\ \A q \in Requests : q # r => pc'[q] = pc[q] /\ waved'[q] = waved[q]
      /\ pc'[r] \in {AfterLimit(c), "limited"}
      /\ \A d \in Counters : d # c => (d \in waved'[r] <=> d \in waved[r])
  BY DEF checkRateLimit, RateLimitError, TypeOK, Goto
<1>2. asked \in [Requests -> [Counters -> 0..now \cup {Never}]] /\ now \in Nat
  BY DEF TypeOK
<1>3. /\ asked'[r][c] = now
      /\ \A q \in Requests, d \in Counters : q # r \/ d # c => asked'[q][d] = asked[q][d]
  BY <1>1, <1>2
<1>4. asked[r][c] = Never
  BY <1>1 DEF AskedInOrder, Counters, Active
<1>5. now # Never
  BY <1>2 DEF Never
<1>6. ASSUME NEW q \in Requests, NEW d \in Counters, q # r \/ d # c
      PROVE  Admitted(q, d)' <=> Admitted(q, d)
  <2>1. CASE q # r
    BY <1>1, <1>3, <2>1 DEF Admitted, Counters
  <2>2. CASE q = r /\ d # c /\ c = "ip"
    <3>1. d = "org" /\ asked[r]["org"] = Never
      BY <1>1, <2>2 DEF AskedInOrder, Counters, Active
    <3> QED BY <1>3, <2>2, <3>1 DEF Admitted
  <2>3. CASE q = r /\ d # c /\ c = "org"
    BY <1>1, <1>3, <1>5, <2>3 DEF Admitted, Counters
  <2> QED BY <1>6, <2>1, <2>2, <2>3 DEF Counters
<1>7. AskedInOrder'
  BY <1>1, <1>3 DEF AskedInOrder, Active, Counters, AfterLimit
<1> QED BY <1>1, <1>3, <1>4, <1>6, <1>7

\* No other step changes anything for the counters but the clock.
OtherStep ==
  \/ Tick \/ Manage \/ UNCHANGED vars
  \/ \E r \in Requests : Arrive(r) \/ LookUp(r) \/ Load(r) \/ Fill(r) \/ Verdict(r)

\* What the other steps leave alone.
LEMMA OtherEffect ==
  ASSUME TypeOK, AskedInOrder, OtherStep
  PROVE  /\ now' \in {now, now + 1} /\ asked' = asked /\ counter' = counter
         /\ \A q \in Requests, d \in Counters : Admitted(q, d)' <=> Admitted(q, d)
         /\ AskedInOrder'
<1> USE DEF db, request, Goto
<1>1. now' \in {now, now + 1} /\ asked' = asked /\ counter' = counter /\ waved' = waved
  BY DEF OtherStep, Tick, Manage, vars, HandleCreate, RevokeFind, RevokeUpdate, RevokeInvalidate,
         Arrive, LookUp, Load, Fill, Verdict
<1>2. CASE UNCHANGED pc
  BY <1>1, <1>2 DEF Admitted, AskedInOrder
<1>3. ASSUME NEW r \in Requests, Arrive(r) \/ LookUp(r) \/ Load(r) \/ Fill(r) \/ Verdict(r)
      PROVE  /\ \A q \in Requests, d \in Counters : Admitted(q, d)' <=> Admitted(q, d)
             /\ AskedInOrder'
  <2>1. CASE Arrive(r)
    <3>1. pc[r] = "new" /\ pc' = [pc EXCEPT ![r] = "ip"]
      BY <2>1 DEF Arrive
    <3> QED BY <1>1, <3>1 DEF TypeOK, Admitted, AskedInOrder, Active
  <2>2. CASE LookUp(r) \/ Load(r) \/ Fill(r) \/ Verdict(r)
    <3>1. PICK l \in (Active \ {"ip"}) \cup {"refused", "failed"} :
            pc[r] \in Active \ {"ip"} /\ pc' = [pc EXCEPT ![r] = l]
      BY <2>2 DEF LookUp, Load, Fill, Verdict, Active
    <3> QED BY <1>1, <3>1 DEF TypeOK, Admitted, AskedInOrder, Active
  <2> QED BY <1>3, <2>1, <2>2
<1> QED
  BY <1>1, <1>2, <1>3
  DEF OtherStep, Tick, Manage, vars, HandleCreate, RevokeFind, RevokeUpdate, RevokeInvalidate

\* Every step is a check at a counter or one of these.
LEMMA StepKinds ==
  ASSUME [Next]_vars
  PROVE  \/ OtherStep
         \/ \E r \in Requests, c \in Counters : checkRateLimit(r, c) \/ RateLimitError(r, c)
BY DEF Next, Step, OtherStep

\* What a request held at the counters is finite, and so are its parts.
LEMMA SinceType ==
  ASSUME NEW c \in Counters, IsFiniteSet(Asked(c)), NEW s
  PROVE  IsFiniteSet(Since(c, s)) /\ Cardinality(Since(c, s)) \in Nat
<1>1. Since(c, s) \subseteq Asked(c)
  BY DEF Since, Asked, Admitted
<1> QED BY <1>1, FS_Subset, FS_CardinalityType

\* An interval as long as the window that reaches into a run has only members
\* of the run.
LEMMA WithinRun ==
  ASSUME TypeOK, NEW c \in Counters, IsFiniteSet(Asked(c)), NEW s \in 0..now, Run(c, s),
         NEW t \in Nat, s < t + Window[c]
  PROVE  Cardinality(Within(c, t)) <= Limit(c)
<1>1. Window[c] \in Nat \ {0} /\ Limit(c) \in Nat
  BY LimitType
<1>2. ASSUME NEW q \in Within(c, t)
      PROVE  q \in Since(c, s)
  <2>1. q \in Requests /\ Admitted(q, c) /\ asked[q][c] \in t..(t + Window[c] - 1)
    BY DEF Within
  <2>2. asked[q][c] >= s \/ asked[q][c] + Window[c] <= s
    BY <2>1 DEF Run
  <2>3. asked[q][c] \in Nat /\ s \in Nat
    BY <2>1
  <2> QED BY <1>1, <2>1, <2>2, <2>3 DEF Since
<1>3. IsFiniteSet(Since(c, s)) /\ Cardinality(Since(c, s)) \in Nat
  BY SinceType
<1>4. Cardinality(Within(c, t)) <= Cardinality(Since(c, s)) /\ IsFiniteSet(Within(c, t))
  BY <1>2, <1>3, FS_Subset
<1>5. Cardinality(Within(c, t)) \in Nat
  BY <1>4, FS_CardinalityType
<1> QED BY <1>1, <1>3, <1>4, <1>5 DEF Run

\* A step that leaves the counter and its requests alone.
Untouched(c) ==
  /\ now' \in {now, now + 1}
  /\ counter'[c] = counter[c]
  /\ \A q \in Requests : asked'[q][c] = asked[q][c] /\ (Admitted(q, c)' <=> Admitted(q, c))

\* The invariant of a counter survives steps that leave it alone, as only time
\* passes for it.
LEMMA UntouchedStep ==
  ASSUME TypeOK, NEW c \in Counters, Untouched(c), Bounded(c), Renewed(c)
  PROVE  Bounded(c)' /\ Renewed(c)'
<1>1. now \in Nat /\ now' \in Nat /\ now <= now'
  BY DEF TypeOK, Untouched
<1>2. Asked(c)' = Asked(c) /\ \A s : Since(c, s)' = Since(c, s) /\ Within(c, s)' = Within(c, s)
  BY DEF Untouched, Asked, Since, Within
<1>3. \A s : Run(c, s)' <=> Run(c, s)
  BY <1>2 DEF Untouched, Run, Limit, RateLimitForTier
<1>4. PICK s \in 0..now : Run(c, s)
  BY DEF Bounded
<1>5. s \in 0..now' /\ Run(c, s)'
  BY <1>1, <1>3, <1>4
<1>6. ASSUME NEW t \in 0..now'
      PROVE  Cardinality(Within(c, t)) <= Limit(c)
  <2>1. CASE t \in 0..now
    BY <2>1 DEF Bounded
  <2>2. CASE t > now
    <3>1. Window[c] \in Nat \ {0}
      BY LimitType
    <3>2. s < t + Window[c] /\ t \in Nat
      BY <1>1, <2>2, <3>1
    <3> QED BY <1>4, <3>2, WithinRun DEF Bounded
  <2> QED BY <1>1, <2>1, <2>2
<1>7. Bounded(c)'
  BY <1>2, <1>5, <1>6 DEF Bounded, Limit, RateLimitForTier
<1>8. Renewed(c)'
  <2>1. \A q \in Asked(c) : asked'[q][c] = asked[q][c]
    BY DEF Untouched, Asked
  <2> QED BY <1>2, <2>1 DEF Untouched, Renewed
<1> QED BY <1>7, <1>8

\* A request asks: the counter is as it was, or one higher.
Counts(r, c) ==
  /\ now' = now /\ asked'[r][c] = now /\ asked[r][c] = Never
  /\ \A q \in Requests \ {r} : asked'[q][c] = asked[q][c] /\ (Admitted(q, c)' <=> Admitted(q, c))
  /\ \/ counter'[c] = counter[c]
     \/ /\ counter'[c].count = Incr(c)
        /\ \/ counter'[c].until = now + Window[c]
           \/ Incr(c) = 1 /\ counter'[c].until = Never
           \/ Incr(c) # 1 /\ counter'[c].until = counter[c].until
  /\ Admitted(r, c)' => Incr(c) <= Limit(c) /\ counter'[c].count = Incr(c)
                        /\ counter'[c].until = now + Window[c]

\* Incr of a counter whose life has ended begins again.
LEMMA IncrCases ==
  ASSUME TypeOK, NEW c \in Counters, Renewed(c)
  PROVE  \/ /\ Incr(c) = counter[c].count + 1 /\ counter[c].count > 0
            /\ counter[c].until = Never \/ now < counter[c].until
         \/ Incr(c) = 1 /\ counter[c].until # Never /\ counter[c].until <= now
<1>1. counter[c].count \in Nat /\ counter[c].until \in Nat \cup {Never} /\ now \in Nat
  BY DEF TypeOK
<1> QED BY <1>1 DEF Incr, Renewed, Never

\* A check renews the expiry by itself, unless the EXPIRE is lost.
LEMMA CountsRenewed ==
  ASSUME TypeOK, NEW r \in Requests, NEW c \in Counters, Counts(r, c), Renewed(c)
  PROVE  Renewed(c)'
<1>1. counter[c].count \in Nat /\ counter[c].until \in Nat \cup {Never} /\ now \in Nat
  BY DEF TypeOK
<1>2. Window[c] \in Nat \ {0}
  BY LimitType
<1>3. r \in Asked(c)' /\ asked'[r][c] = now /\ Asked(c) \subseteq Asked(c)' /\ r \notin Asked(c)
  BY <1>1 DEF Counts, Asked, Never
<1>4. \A q \in Asked(c) : q \in Asked(c)' /\ asked'[q][c] = asked[q][c]
  BY <1>3 DEF Counts, Asked
<1>5. Incr(c) \in Nat \ {0}
  BY IncrType
<1>6. CASE counter'[c] = counter[c]
  BY <1>4, <1>6 DEF Renewed
<1>7. CASE counter'[c].until = now + Window[c] /\ counter'[c].count = Incr(c)
  BY <1>1, <1>2, <1>3, <1>5, <1>7 DEF Renewed
<1>8. CASE counter'[c].until = Never /\ counter'[c].count = Incr(c)
  BY <1>5, <1>8 DEF Renewed
<1>9. CASE counter'[c].until = counter[c].until /\ counter'[c].count = Incr(c) /\ Incr(c) # 1
  BY <1>1, <1>4, <1>5, <1>9, IncrCases DEF Renewed
<1> QED BY <1>6, <1>7, <1>8, <1>9 DEF Counts


\* A check keeps the runs apart: it belongs to the run that is alive, or begins
\* one after the expiry, a window after all that was admitted.
LEMMA CountsRun ==
  ASSUME TypeOK, NEW r \in Requests, NEW c \in Counters, Counts(r, c), Bounded(c), Renewed(c)
  PROVE  \E s \in 0..now : Run(c, s)'
<1>1. counter[c].count \in Nat /\ counter[c].until \in Nat \cup {Never} /\ now \in Nat
  BY DEF TypeOK
<1>2. Window[c] \in Nat \ {0} /\ Limit(c) \in Nat /\ Limit(c)' = Limit(c)
  BY LimitType DEF Limit, RateLimitForTier
<1>3. PICK s \in 0..now : Run(c, s)
  BY DEF Bounded
<1>4. ~Admitted(r, c)
  BY DEF Counts, Admitted
<1>5. \A q \in Requests : Admitted(q, c) =>
        /\ q # r /\ Admitted(q, c)' /\ asked'[q][c] = asked[q][c] /\ asked[q][c] \in 0..now
  <2>1. \A q \in Requests : Admitted(q, c) => asked[q][c] \in 0..now
    BY DEF TypeOK, Admitted, Never
  <2> QED BY <1>4, <2>1 DEF Counts
<1>6. \A q \in Requests : Admitted(q, c)' => q = r \/ Admitted(q, c)
  BY DEF Counts
<1>7. asked'[r][c] = now /\ ~(now < 0)
  BY <1>1 DEF Counts
<1>8. \A u \in 0..now :
        Since(c, u)' = IF Admitted(r, c)' THEN Since(c, u) \cup {r} ELSE Since(c, u)
  BY <1>4, <1>5, <1>6, <1>7 DEF Since
<1>9. \A u \in 0..now : IsFiniteSet(Since(c, u)) /\ Cardinality(Since(c, u)) \in Nat /\ r \notin Since(c, u)
  BY <1>4, SinceType DEF Bounded, Since
<1>10. \A u \in 0..now : Cardinality(Since(c, u) \cup {r}) = Cardinality(Since(c, u)) + 1
  BY <1>9, FS_AddElement
<1>11. CASE counter'[c] = counter[c]
  <2>1. ~Admitted(r, c)' \/ counter[c].count = Incr(c)
    BY <1>11 DEF Counts
  <2>2. CASE ~Admitted(r, c)'
    <3>1. Since(c, s)' = Since(c, s)
      BY <1>3, <1>8, <2>2
    <3>2. \A q \in Requests : Admitted(q, c)' => Admitted(q, c) /\ asked'[q][c] = asked[q][c]
      BY <1>5, <1>6, <2>2
    <3> QED BY <1>2, <1>3, <1>11, <3>1, <3>2 DEF Run
  <2>3. CASE counter[c].count = Incr(c) /\ Admitted(r, c)'
    <3>1. /\ Incr(c) = 1 /\ counter[c].until # Never /\ counter[c].until <= now
          /\ counter'[c].until = now + Window[c]
      BY <1>1, <2>3, IncrCases DEF Counts
    <3> QED BY <1>1, <1>2, <1>11, <3>1 DEF Never
  <2> QED BY <2>1, <2>2, <2>3
<1>12. CASE /\ Incr(c) = counter[c].count + 1 /\ counter[c].count > 0
            /\ counter[c].until = Never \/ now < counter[c].until
            /\ counter'[c].count = Incr(c)
            /\ counter'[c].until = now + Window[c] \/ counter'[c].until = counter[c].until
  <2>1. Cardinality(Since(c, s)') <= counter'[c].count /\ Cardinality(Since(c, s)') <= Limit(c)
    <3>1. Cardinality(Since(c, s)) <= counter[c].count /\ Cardinality(Since(c, s)) <= Limit(c)
      BY <1>3 DEF Run
    <3>2. CASE Admitted(r, c)'
      <4>1. Since(c, s)' = Since(c, s) \cup {r} /\ Incr(c) <= Limit(c)
        BY <1>3, <1>8, <3>2 DEF Counts
      <4>2. Cardinality(Since(c, s)') = Cardinality(Since(c, s)) + 1
        BY <1>3, <1>10, <4>1
      <4> QED BY <1>1, <1>2, <1>3, <1>9, <1>12, <3>1, <4>1, <4>2
    <3>3. CASE ~Admitted(r, c)'
      <4>1. Since(c, s)' = Since(c, s)
        BY <1>3, <1>8, <3>3
      <4> QED BY <1>1, <1>3, <1>9, <1>12, <3>1, <4>1
    <3> QED BY <3>2, <3>3
  <2>2. ASSUME NEW q \in Requests, Admitted(q, c)'
        PROVE  /\ asked'[q][c] >= s \/ asked'[q][c] + Window[c] <= s
               /\ counter'[c].until = Never \/ asked'[q][c] + Window[c] <= counter'[c].until
    <3>1. CASE q = r
      <4>1. counter'[c].until = now + Window[c]
        BY <2>2, <3>1 DEF Counts
      <4> QED BY <1>1, <1>2, <1>3, <1>7, <3>1, <4>1
    <3>2. CASE Admitted(q, c)
      <4>1. /\ asked[q][c] >= s \/ asked[q][c] + Window[c] <= s
            /\ counter[c].until = Never \/ asked[q][c] + Window[c] <= counter[c].until
            /\ asked'[q][c] = asked[q][c] /\ asked[q][c] \in 0..now
        BY <1>3, <1>5, <3>2 DEF Run
      <4> QED BY <1>1, <1>2, <1>12, <4>1
    <3> QED BY <1>6, <2>2, <3>1, <3>2
  <2> QED BY <1>2, <1>3, <2>1, <2>2 DEF Run
<1>13. CASE /\ Incr(c) = 1 /\ counter[c].until # Never /\ counter[c].until <= now
            /\ counter'[c].count = 1
            /\ counter'[c].until \in {now + Window[c], Never}
  <2>1. ASSUME NEW q \in Requests, Admitted(q, c)
        PROVE  asked'[q][c] = asked[q][c] /\ asked[q][c] + Window[c] <= now /\ asked[q][c] \in 0..now
    <3>1. asked[q][c] + Window[c] <= counter[c].until /\ asked[q][c] \in 0..now
      BY <1>3, <1>5, <1>13, <2>1 DEF Run
    <3> QED BY <1>1, <1>2, <1>5, <1>13, <2>1, <3>1
  <2>2. PICK n \in 0..now : n = now
    BY <1>1
  <2>3. Since(c, n) = {}
    BY <1>1, <1>2, <2>1, <2>2 DEF Since
  <2>4. Cardinality(Since(c, n)') <= 1 /\ Cardinality(Since(c, n)') <= Limit(c)
    <3>1. Cardinality(Since(c, n)) = 0
      BY <2>3, FS_EmptySet
    <3>2. CASE Admitted(r, c)'
      <4>1. Cardinality(Since(c, n)') = 1
        BY <1>8, <1>10, <2>3, <3>1, <3>2
      <4>2. 1 <= Limit(c)
        BY <1>13, <3>2 DEF Counts
      <4> QED BY <4>1, <4>2
    <3>3. CASE ~Admitted(r, c)'
      <4>1. Cardinality(Since(c, n)') = 0
        BY <1>8, <2>3, <3>1, <3>3
      <4> QED BY <1>2, <4>1
    <3> QED BY <3>2, <3>3
  <2>5. ASSUME NEW q \in Requests, Admitted(q, c)'
        PROVE  /\ asked'[q][c] >= n \/ asked'[q][c] + Window[c] <= n
               /\ counter'[c].until = Never \/ asked'[q][c] + Window[c] <= counter'[c].until
    <3>1. CASE q = r
      BY <1>1, <1>2, <1>7, <1>13, <2>2, <3>1
    <3>2. CASE Admitted(q, c)
      BY <1>1, <1>2, <1>13, <2>1, <2>2, <3>2
    <3> QED BY <1>6, <2>5, <3>1, <3>2
  <2>6. Run(c, n)'
    BY <1>2, <1>13, <2>4, <2>5 DEF Run
  <2> QED BY <2>6
<1>14. CASE counter'[c] # counter[c] /\ Incr(c) = counter[c].count + 1 /\ counter[c].count > 0
            /\ (counter[c].until = Never \/ now < counter[c].until)
  BY <1>1, <1>12, <1>14 DEF Counts
<1>15. CASE counter'[c] # counter[c] /\ Incr(c) = 1 /\ counter[c].until # Never
            /\ counter[c].until <= now
  BY <1>13, <1>15 DEF Counts
<1> QED BY <1>11, <1>14, <1>15, IncrCases


\* WithinRun of a state and of the one after it.
Reaches ==
  \A c \in Counters, s \in 0..now, t \in Nat :
    IsFiniteSet(Asked(c)) /\ Run(c, s) /\ s < t + Window[c] => Cardinality(Within(c, t)) <= Limit(c)

\* WithinRun holds in a state with the types,
LEMMA TypeReaches == TypeOK => Reaches
BY WithinRun DEF Reaches

\* and in the one after a step.
LEMMA ReachesNext == TypeOK' => Reaches'
BY TypeReaches, PTL

\* A check keeps the bound: it joins the run, or begins the next one.
LEMMA CountsBounded ==
  ASSUME TypeOK, TypeOK', NEW r \in Requests, NEW c \in Counters, Counts(r, c), Bounded(c), Renewed(c)
  PROVE  Bounded(c)'
<1>1. now' = now /\ now \in Nat /\ Limit(c)' = Limit(c) /\ Window[c] \in Nat \ {0}
  BY LimitType DEF Counts, TypeOK, Limit, RateLimitForTier
<1>2. IsFiniteSet(Asked(c)')
  <2>1. Asked(c)' = Asked(c) \cup {r}
    BY <1>1 DEF Counts, Asked, Never
  <2> QED BY <2>1, FS_AddElement DEF Bounded
<1>3. PICK s \in 0..now : Run(c, s)'
  BY CountsRun
<1>4. ASSUME NEW t \in 0..now
      PROVE  Cardinality(Within(c, t)') <= Limit(c)
  <2>1. CASE s < t + Window[c]
    <3>1. s \in 0..now' /\ t \in Nat
      BY <1>1
    <3> QED BY <1>1, <1>2, <1>3, <2>1, <3>1, ReachesNext DEF Reaches
  <2>2. CASE t + Window[c] <= s
    <3>1. asked'[r][c] = now /\ ~(now \in t..(t + Window[c] - 1))
      BY <1>1, <2>2 DEF Counts
    <3>2. Within(c, t)' = Within(c, t)
      BY <3>1 DEF Counts, Within, Admitted, Never
    <3> QED BY <3>2 DEF Bounded
  <2> QED BY <1>1, <2>1, <2>2
<1>5. \A t \in 0..now' : Cardinality(Within(c, t)') <= Limit(c)'
  BY <1>1, <1>4
<1> QED BY <1>1, <1>2, <1>3, <1>5 DEF Bounded

\* Both kinds of check are counted.
LEMMA LimitCounts ==
  ASSUME TypeOK, AskedInOrder, NEW r \in Requests, NEW c \in Counters,
         checkRateLimit(r, c) \/ RateLimitError(r, c)
  PROVE  Counts(r, c)
<1>1. /\ now' = now /\ asked'[r][c] = now /\ asked[r][c] = Never
      /\ \A q \in Requests \ {r} : asked'[q][c] = asked[q][c] /\ (Admitted(q, c)' <=> Admitted(q, c))
  BY LimitEffect
<1>2. CASE checkRateLimit(r, c)
  <2>1. counter'[c] = [count |-> Incr(c), until |-> now + Window[c]]
    BY <1>2 DEF checkRateLimit, TypeOK
  <2>2. Admitted(r, c)' => Incr(c) <= Limit(c)
    <3>1. CASE c = "ip"
      <4>1. asked'[r]["org"] = Never
        BY <1>2, <3>1 DEF checkRateLimit, AskedInOrder, Active, TypeOK, Counters
      <4>2. Admitted(r, c)' => pc'[r] # "limited"
        BY <3>1, <4>1 DEF Admitted
      <4> QED BY <1>2, <4>2 DEF checkRateLimit, Goto, TypeOK
    <3>2. CASE c = "org"
      <4>1. Admitted(r, c)' => pc'[r] # "limited"
        BY <3>2 DEF Admitted
      <4> QED BY <1>2, <4>1 DEF checkRateLimit, Goto, TypeOK
    <3> QED BY <3>1, <3>2 DEF Counters
  <2> QED BY <1>1, <2>1, <2>2 DEF Counts
<1>3. CASE RateLimitError(r, c)
  <2>1. ~Admitted(r, c)'
    BY <1>3 DEF RateLimitError, TypeOK, Admitted
  <2>2. \/ counter'[c] = counter[c]
        \/ counter'[c] = [count |-> Incr(c), until |-> IF Incr(c) = 1 THEN Never ELSE counter[c].until]
        \/ counter'[c] = [count |-> Incr(c), until |-> now + Window[c]]
    BY <1>3 DEF RateLimitError, TypeOK
  <2> QED BY <1>1, <2>1, <2>2 DEF Counts
<1> QED BY <1>2, <1>3

\* It holds at the start and every step preserves it.
LEMMA CountersInit == Init => CountersInv
<1> SUFFICES ASSUME Init
             PROVE  CountersInv
  OBVIOUS
<1>1. AskedInOrder
  BY DEF Init, AskedInOrder, Active, Counters
<1>2. ASSUME NEW c \in Counters
      PROVE  Bounded(c) /\ Renewed(c)
  <2>1. \A q \in Requests : asked[q][c] = Never /\ ~Admitted(q, c)
    BY DEF Init, Admitted
  <2>2. Asked(c) = {} /\ \A t : Since(c, t) = {} /\ Within(c, t) = {}
    BY <2>1 DEF Asked, Since, Within
  <2>3. IsFiniteSet({}) /\ Cardinality({}) = 0
    BY FS_EmptySet
  <2>4. counter[c] = NoCount /\ now = 0
    BY DEF Init
  <2>5. Limit(c) \in Nat
    BY LimitType
  <2>6. Run(c, 0)
    BY <2>1, <2>2, <2>3, <2>4, <2>5 DEF Run, NoCount
  <2> QED BY <2>2, <2>3, <2>4, <2>5, <2>6 DEF Bounded, Renewed, NoCount
<1> QED BY <1>1, <1>2 DEF CountersInv

\* Every step preserves the invariant of the counters.
LEMMA CountersStep == IInv /\ CountersInv /\ [Next]_vars => CountersInv'
<1> SUFFICES ASSUME IInv, CountersInv, [Next]_vars
             PROVE  CountersInv'
  OBVIOUS
<1>1. TypeOK /\ TypeOK' /\ AskedInOrder /\ \A c \in Counters : Bounded(c) /\ Renewed(c)
  BY IInvStep DEF IInv, CountersInv
<1>2. CASE OtherStep
  <2>1. \A c \in Counters : Untouched(c)
    BY <1>1, <1>2, OtherEffect DEF Untouched
  <2> QED BY <1>1, <1>2, <2>1, OtherEffect, UntouchedStep DEF CountersInv
<1>3. ASSUME NEW r \in Requests, NEW c \in Counters, checkRateLimit(r, c) \/ RateLimitError(r, c)
      PROVE  CountersInv'
  <2>1. Counts(r, c)
    BY <1>1, <1>3, LimitCounts
  <2>2. Bounded(c)' /\ Renewed(c)'
    BY <1>1, <2>1, CountsBounded, CountsRenewed
  <2>3. ASSUME NEW d \in Counters, d # c
        PROVE  Bounded(d)' /\ Renewed(d)'
    <3>1. Untouched(d)
      BY <1>1, <1>3, <2>3, LimitEffect DEF Untouched
    <3> QED BY <1>1, <3>1, UntouchedStep
  <2>4. AskedInOrder'
    BY <1>1, <1>3, LimitEffect
  <2> QED BY <2>2, <2>3, <2>4 DEF CountersInv
<1> QED BY <1>2, <1>3, StepKinds

\* It is therefore an invariant of the specification.
LEMMA CountersInvariance == Spec => []CountersInv
BY CountersInit, CountersStep, Invariance, PTL DEF Spec

\* checkRateLimit lets no more than the limit pass in any interval as long as
\* the window, wherever it starts: renewing the expiry with every request makes
\* the fixed counter of INCR and EXPIRE a sliding one.
THEOREM LimitSlides == Spec => []SlidingLimit
<1>1. CountersInv => SlidingLimit
  BY DEF CountersInv, Bounded, SlidingLimit
<1> QED BY <1>1, CountersInvariance, PTL

\* A request is refused for the rate only after another one within the window,
\* unless the counter lost its expiry to a half-applied pipeline.
THEOREM RateRefusalsHaveCause == Spec => QuietIsAdmitted
<1> DEFINE A == \A r \in Requests, c \in Counters :
                  pc[r] = c /\ pc'[r] = "limited" =>
                    \/ Limit(c) = 0
                    \/ counter[c].until = Never
                    \/ \E q \in Requests \ {r} :
                         asked[q][c] # Never /\ now - asked[q][c] < Window[c]
<1>1. ASSUME IInv, CountersInv, Next, NEW r \in Requests, NEW c \in Counters,
             pc[r] = c, pc'[r] = "limited", Limit(c) # 0, counter[c].until # Never
      PROVE  \E q \in Requests \ {r} : asked[q][c] # Never /\ now - asked[q][c] < Window[c]
  <2>1. TypeOK /\ Renewed(c) /\ AskedInOrder
    BY <1>1 DEF IInv, CountersInv
  <2>2. checkRateLimit(r, c)
    <3>1. CASE OtherStep
      BY <1>1, <2>1, <3>1
      DEF OtherStep, Tick, Manage, vars, HandleCreate, RevokeFind, RevokeUpdate, RevokeInvalidate,
          Arrive, LookUp, Load, Fill, Verdict, Goto, TypeOK, Counters, request
    <3>2. ASSUME NEW q \in Requests, NEW d \in Counters, checkRateLimit(q, d) \/ RateLimitError(q, d)
          PROVE  checkRateLimit(r, c)
      BY <1>1, <2>1, <3>2, AfterLimitLabel DEF checkRateLimit, RateLimitError, Goto, TypeOK, Counters
    <3> QED BY <1>1, <3>1, <3>2, StepKinds
  <2>3. Limit(c) \in Nat /\ Window[c] \in Nat \ {0} /\ Incr(c) \in Nat
    BY <2>1, LimitType, IncrType
  <2>4. ~(Incr(c) <= Limit(c))
    BY <2>1, <2>2, AfterLimitLabel, <1>1 DEF checkRateLimit, Goto, TypeOK
  <2>5. counter[c].count > 0 /\ now < counter[c].until
    BY <1>1, <2>1, <2>3, <2>4, IncrCases
  <2>6. PICK q \in Asked(c) : counter[c].until <= asked[q][c] + Window[c]
    BY <1>1, <2>1, <2>5 DEF Renewed
  <2>7. asked[r][c] = Never
    BY <1>1, <2>1 DEF AskedInOrder, Counters, Active
  <2>8. /\ q \in Requests \ {r} /\ asked[q][c] # Never /\ asked[q][c] \in Nat
        /\ now \in Nat /\ counter[c].until \in Nat
    BY <1>1, <2>1, <2>6, <2>7 DEF Asked, TypeOK
  <2> QED BY <2>3, <2>5, <2>6, <2>8
<1>2. IInv /\ CountersInv /\ [Next]_vars => [A]_vars
  BY <1>1 DEF A
<1>3. QuietIsAdmitted <=> [][A]_vars
  BY DEF QuietIsAdmitted
<1> HIDE DEF A
<1> QED BY <1>2, <1>3, CountersInvariance, Invariance, PTL DEF Spec
=============================================================================
