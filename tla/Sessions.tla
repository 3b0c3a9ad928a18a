------------------------------ MODULE Sessions ------------------------------
(***************************************************************************)
(* Refresh tokens and signed sessions of the dashboard: the end of a       *)
(* sign-in, HandleRefresh with rotation and reuse detection, HandleLogout, *)
(* and JWTAuthMiddleware.  Each statement on refresh_tokens is a step of   *)
(* its request; a statement may fail and an answer may be lost.  Requests  *)
(* of one browser may overlap: tryRefresh of the web client shares one     *)
(* refresh within a page, not between two tabs.                            *)
(***************************************************************************)
EXTENDS Integers, FiniteSets, Sequences

CONSTANTS
  Browsers,   \* cookie jars
  Owner,      \* the user who signs in with each of them
  Requests,   \* requests that may be running at once
  AccessTTL,  \* life of a signed session (15 minutes)
  RefreshTTL, \* life of a refresh token (7 days)
  MaxTokens,  \* bound: rows of refresh_tokens
  MaxTime,    \* bound: the clock
  MaxFaults   \* bound: refreshes that fail half way, and lost answers

Users == {Owner[b] : b \in Browsers}
None == 0
Never == -1

ASSUME SessionsAssumption ==
  /\ IsFiniteSet(Requests)
  /\ AccessTTL \in Nat /\ RefreshTTL \in Nat
  /\ MaxTokens \in Nat /\ MaxTime \in Nat /\ MaxFaults \in Nat

VARIABLES
  now,        \* the clock
  tokens,     \* rows of refresh_tokens; a row's number is also its hash
  jar,        \* the pair of cookies each browser holds: the row of its pair
  pc,         \* control state of each request
  browser,    \* the browser that sent it
  held,       \* the row it presented; once granted, the row of its new pair
  late,       \* it passed HandleRefresh's checks before a reuse was detected
  quiet,      \* when all sessions of a user were ended, Never when they were not
  disturbed,  \* a refresh failed half way, an answer was lost, or requests of
              \* one browser overlapped
  faults      \* failures so far

request == <<pc, browser, held>>
history == <<late, quiet, disturbed>>
vars == <<now, tokens, jar, request, history, faults>>

Rows == DOMAIN tokens
Passed == {"revoke", "issue"}     \* HandleRefresh after its checks
Answered == {"granted", "refused", "cleared"}
Control == {"idle", "signin", "lookup", "reuse", "drop"} \union Passed \union Answered

\* users.id of a request, from its cookie or its sign-in
UserOf(r) == Owner[browser[r]]
Live(u) == {t \in Rows : tokens[t].user = u /\ ~tokens[t].revoked}
Family(f) == {t \in Rows : tokens[t].family = f}
Busy(b) == {r \in Requests : pc[r] # "idle" /\ browser[r] = b}

\* VerifyJWT of the session cookie, signed when the pair was issued.
VerifyJWT(b) == jar[b] # None /\ now <= tokens[jar[b]].born + AccessTTL

Init ==
  /\ now = 0
  /\ tokens = <<>>
  /\ jar = [b \in Browsers |-> None]
  /\ pc = [r \in Requests |-> "idle"]
  /\ browser = [r \in Requests |-> None]
  /\ held = [r \in Requests |-> None]
  /\ late = [r \in Requests |-> FALSE]
  /\ quiet = [u \in Users |-> Never]
  /\ disturbed = [u \in Users |-> FALSE]
  /\ faults = 0

Goto(r, label) == pc' = [pc EXCEPT ![r] = label]
Disturb(r) == disturbed' = [disturbed EXCEPT ![UserOf(r)] = TRUE]
Fault == faults < MaxFaults /\ faults' = faults + 1

Tick ==
  /\ now < MaxTime
  /\ now' = now + 1
  /\ UNCHANGED <<tokens, jar, request, history, faults>>

(***************************************************************************)
(* The browser sends a request with the refresh cookie it holds.           *)
(***************************************************************************)
Send(r, b, label, cookie) ==
  /\ pc[r] = "idle"
  /\ Goto(r, label)
  /\ browser' = [browser EXCEPT ![r] = b]
  /\ held' = [held EXCEPT ![r] = cookie]
  /\ disturbed' = [disturbed EXCEPT ![Owner[b]] = @ \/ Busy(b) # {}]
  /\ UNCHANGED <<now, tokens, jar, late, quiet, faults>>

SignIn(r, b) == Send(r, b, "signin", None)
Refresh(r, b) == jar[b] # None /\ Send(r, b, "lookup", jar[b])
SignOut(r, b) == Send(r, b, IF jar[b] = None THEN "cleared" ELSE "drop", jar[b])

(***************************************************************************)
(* HandleRefresh: GetRefreshTokenByHash and the checks of what it read,    *)
(* RevokeRefreshToken (an error is only logged), issueTokenPair.           *)
(***************************************************************************)
Lookup(r) ==
  /\ pc[r] = "lookup"
  /\ LET t == tokens[held[r]]
     IN Goto(r, IF t.revoked THEN "reuse" ELSE IF now > t.until THEN "refused" ELSE "revoke")
  /\ UNCHANGED <<now, tokens, jar, browser, held, history, faults>>

\* A refresh that finds its row already revoked, or fails to revoke it, goes
\* on to a pair beside the one its family may have: debt counts them.
Owes(t) == [tokens EXCEPT ![tokens[t].family].debt = @ + 1]

\* Mutant: the presented row stays live.
RevokeNothing(r) ==
  /\ pc[r] = "revoke"
  /\ Goto(r, "issue")
  /\ UNCHANGED <<now, tokens, jar, browser, held, history, faults>>

RevokeRefreshToken(r) ==
  /\ pc[r] = "revoke"
  /\ tokens' = IF tokens[held[r]].revoked THEN Owes(held[r])
               ELSE [tokens EXCEPT ![held[r]].revoked = TRUE]
  /\ Goto(r, "issue")
  /\ UNCHANGED <<now, jar, browser, held, history, faults>>

RevokeFails(r) ==
  /\ pc[r] = "revoke"
  /\ Fault
  /\ tokens' = Owes(held[r])
  /\ Goto(r, "issue")
  /\ UNCHANGED <<now, jar, browser, held, history>>

\* CreateRefreshToken: a row of the family the presented one is of, or of a
\* new one after a sign-in.  Mutant: always that of the presented one.
PresentedFamily(r, id) == held[r]
FamilyOf(r, id) == IF pc[r] = "issue" THEN tokens[held[r]].family ELSE id

CreateRefreshToken(r, id) ==
  [user |-> UserOf(r), born |-> now, until |-> now + RefreshTTL, revoked |-> FALSE,
   family |-> FamilyOf(r, id), debt |-> 0]

\* GetUserByID and GetOrgByUserID, whose rows no handler removes, SignJWT
\* and CreateRefreshToken, for a refresh; the last two for a sign-in.
issueTokenPair(r) ==
  /\ pc[r] \in {"issue", "signin"}
  /\ Len(tokens) < MaxTokens
  /\ LET id == Len(tokens) + 1
     IN /\ tokens' = Append(tokens, CreateRefreshToken(r, id))
        /\ held' = [held EXCEPT ![r] = id]
  /\ quiet' = [quiet EXCEPT ![UserOf(r)] = IF pc[r] = "signin" \/ late[r] THEN Never ELSE @]
  /\ Goto(r, "granted")
  /\ UNCHANGED <<now, jar, browser, late, disturbed, faults>>

\* Mutant: only the presented row is revoked.
RevokePresentedOnly(r) ==
  /\ pc[r] = "reuse"
  /\ LET u == UserOf(r)
     IN /\ tokens' = [tokens EXCEPT ![held[r]].revoked = TRUE]
        /\ quiet' = [quiet EXCEPT ![u] = IF @ = Never THEN now ELSE @]
        /\ late' = [s \in Requests |-> late[s] \/ (pc[s] \in Passed /\ UserOf(s) = u)]
  /\ Goto(r, "cleared")
  /\ UNCHANGED <<now, jar, browser, held, disturbed, faults>>

\* Reuse detected: RevokeAllUserTokens, and the cookies are cleared.
RevokeAllUserTokens(r) ==
  /\ pc[r] = "reuse"
  /\ LET u == UserOf(r)
     IN /\ tokens' = [t \in Rows |-> [tokens[t] EXCEPT !.revoked = @ \/ tokens[t].user = u]]
        /\ quiet' = [quiet EXCEPT ![u] = IF @ = Never THEN now ELSE @]
        /\ late' = [s \in Requests |-> late[s] \/ (pc[s] \in Passed /\ UserOf(s) = u)]
  /\ Goto(r, "cleared")
  /\ UNCHANGED <<now, jar, browser, held, disturbed, faults>>

\* HandleLogout: GetRefreshTokenByHash and RevokeRefreshToken, whose errors
\* are ignored.
DropToken(r) ==
  /\ pc[r] = "drop"
  /\ tokens' = [tokens EXCEPT ![held[r]].revoked = TRUE]
  /\ Goto(r, "cleared")
  /\ UNCHANGED <<now, jar, browser, held, history, faults>>

\* A failed statement: reuse detection and logout answer all the same.
StatementFails(r) ==
  /\ \/ pc[r] \in {"lookup", "signin"} /\ Goto(r, "refused")
     \/ pc[r] \in {"reuse", "drop"} /\ Goto(r, "cleared")
  /\ UNCHANGED <<now, tokens, jar, browser, held, history, faults>>

\* A failed statement after the rotation: the presented row is revoked and
\* the browser keeps it.
RefreshFails(r) ==
  /\ pc[r] = "issue"
  /\ Fault /\ Disturb(r)
  /\ Goto(r, "refused")
  /\ UNCHANGED <<now, tokens, jar, browser, held, late, quiet>>

Finish(r) ==
  /\ Goto(r, "idle")
  /\ browser' = [browser EXCEPT ![r] = None]
  /\ held' = [held EXCEPT ![r] = None]
  /\ late' = [late EXCEPT ![r] = FALSE]

\* Mutant: the cookies of a refresh are not set.
AnswerKeepsCookies(r) ==
  /\ pc[r] \in Answered
  /\ jar' = [jar EXCEPT ![browser[r]] =
       CASE pc[r] = "granted" /\ @ = None -> held[r] [] pc[r] = "cleared" -> None [] OTHER -> @]
  /\ Finish(r)
  /\ UNCHANGED <<now, tokens, quiet, disturbed, faults>>

\* setAuthCookies and clearAuthCookies reach the browser, or do not.
Answer(r) ==
  /\ pc[r] \in Answered
  /\ jar' = [jar EXCEPT ![browser[r]] =
       CASE pc[r] = "granted" -> held[r] [] pc[r] = "cleared" -> None [] OTHER -> @]
  /\ Finish(r)
  /\ UNCHANGED <<now, tokens, quiet, disturbed, faults>>

AnswerLost(r) ==
  /\ pc[r] \in Answered \ {"refused"}
  /\ Fault /\ Disturb(r)
  /\ Finish(r)
  /\ UNCHANGED <<now, tokens, jar, quiet>>

Handle(r) ==
  \/ Lookup(r) \/ RevokeRefreshToken(r) \/ RevokeFails(r) \/ issueTokenPair(r)
  \/ RevokeAllUserTokens(r) \/ DropToken(r) \/ StatementFails(r) \/ RefreshFails(r)
  \/ Answer(r) \/ AnswerLost(r)

Next ==
  \/ Tick
  \/ \E r \in Requests : Handle(r)
  \/ \E r \in Requests, b \in Browsers : SignIn(r, b) \/ Refresh(r, b) \/ SignOut(r, b)

Spec == Init /\ [][Next]_vars

(***************************************************************************)
(* Properties.                                                             *)
(***************************************************************************)
Token == [user : Users, born : Nat, until : Nat, revoked : BOOLEAN, family : Nat, debt : Nat]

\* Types of the table, the jars and the requests.
TypeOK ==
  /\ now \in Nat /\ faults \in Nat
  /\ tokens \in Seq(Token) /\ \A t \in Rows : tokens[t].family \in 1..t
  /\ jar \in [Browsers -> Rows \union {None}]
  /\ pc \in [Requests -> Control]
  /\ browser \in [Requests -> Browsers \union {None}]
  /\ held \in [Requests -> Rows \union {None}]
  /\ late \in [Requests -> BOOLEAN]
  /\ quiet \in [Users -> Nat \union {Never}]
  /\ disturbed \in [Users -> BOOLEAN]

\* After reuse detection ended a user's sessions, no row of his is live and
\* no browser of his is admitted longer than the life of a signed session,
\* until he signs in again or a refresh that had passed HandleRefresh's
\* checks before the detection issues its pair after it.
ReuseEndsSessions ==
  \A u \in Users : quiet[u] # Never =>
    /\ Live(u) = {}
    /\ \A b \in Browsers : Owner[b] = u /\ VerifyJWT(b) => now <= quiet[u] + AccessTTL

LiveIn(f) == {t \in Family(f) : ~tokens[t].revoked}
Issuing(f) == {r \in Requests : pc[r] = "issue" /\ tokens[held[r]].family = f}

\* Rotation: a sign-in leads to one live row, in the table or about to be
\* inserted, and to one more for each refresh that found its row already
\* revoked by an overlapping request, or failed to revoke it.
RotationAccounted ==
  \A f \in Rows : tokens[f].family = f =>
    Cardinality(LiveIn(f)) + Cardinality(Issuing(f)) <= 1 + tokens[f].debt

\* A browser that is not waiting for an answer holds a row that is not
\* revoked, so that its next refresh is no reuse, unless for its user a
\* refresh failed after the rotation, an answer was lost, or requests of
\* one browser overlapped.
SignedInUnlessDisturbed ==
  \A b \in Browsers : jar[b] # None /\ Busy(b) = {} /\ ~disturbed[Owner[b]] =>
    ~tokens[jar[b]].revoked

(***************************************************************************)
(* The inductive invariant behind them.                                    *)
(***************************************************************************)
Presenting == {"lookup", "reuse", "drop", "granted"} \union Passed
Holds(b, t) == jar[b] = t \/ \E r \in Busy(b) : held[r] = t

HeldKnown ==
  \A r \in Requests :
    /\ pc[r] # "idle" => browser[r] \in Browsers
    /\ pc[r] \in Presenting => held[r] # None
    /\ held[r] # None => pc[r] # "idle" /\ tokens[held[r]].user = UserOf(r)
JarsOwn == \A b \in Browsers : jar[b] # None => tokens[jar[b]].user = Owner[b]
\* A row is never in two jars, nor on its way to one and in another.
RowsApart ==
  \A t \in Rows, b, c \in Browsers : Holds(b, t) /\ Holds(c, t) => b = c

\* After a detection no row is live, and no refresh is about to issue one
\* that the detection does not know of.
QuietHolds ==
  /\ \A t \in Rows : tokens[t].born <= now
  /\ \A u \in Users : quiet[u] # Never =>
       /\ \A t \in Rows : tokens[t].user = u => tokens[t].revoked /\ tokens[t].born <= quiet[u]
       /\ \A r \in Requests : pc[r] \in Passed /\ UserOf(r) = u => late[r]

\* Undisturbed, a browser has one request at a time, which revokes the row
\* in its jar only to replace it or to clear it.
Settled(b) ==
  /\ \A r, s \in Busy(b) : r = s
  /\ \A r \in Busy(b) :
       /\ pc[r] # "reuse"
       /\ pc[r] \in {"lookup", "revoke"} => held[r] = jar[b]
       /\ pc[r] = "granted" => ~tokens[held[r]].revoked
  /\ jar[b] # None /\ (\A r \in Busy(b) : pc[r] \notin {"issue", "granted", "cleared"}) =>
       ~tokens[jar[b]].revoked
Steady == \A b \in Browsers : ~disturbed[Owner[b]] => Settled(b)

IInv ==
  TypeOK /\ HeldKnown /\ JarsOwn /\ RowsApart /\ QuietHolds /\ RotationAccounted /\ Steady
=============================================================================
