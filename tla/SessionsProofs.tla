--------------------------- MODULE SessionsProofs ---------------------------
(***************************************************************************)
(* Sessions for any users, browsers and requests, any lives of tokens and  *)
(* any number of failures: the types, and the promises of rotation, of     *)
(* reuse detection and of the cookies.                                     *)
(***************************************************************************)
EXTENDS Sessions, FiniteSetTheorems, SequenceTheorems, TLAPS

\* A statement on a row leaves its other fields alone: same user, birth and
\* family.
SameRows(s, q) ==
  \A t \in DOMAIN s :
    q[t].user = s[t].user /\ q[t].born = s[t].born /\ q[t].family = s[t].family

\* A row replaced in the table.
LEMMA Replaced ==
  ASSUME NEW S, NEW s \in Seq(S), NEW t \in DOMAIN s, NEW e \in S
  PROVE  LET q == [s EXCEPT ![t] = e]
         IN /\ q \in Seq(S) /\ DOMAIN q = DOMAIN s
            /\ \A d \in DOMAIN s : q[d] = IF d = t THEN e ELSE s[d]
OBVIOUS

\* What revoking a row does to the table.
LEMMA Revoked ==
  ASSUME NEW s \in Seq(Token), NEW t \in DOMAIN s, NEW q, q = [s EXCEPT ![t].revoked = TRUE]
  PROVE  /\ q \in Seq(Token) /\ DOMAIN q = DOMAIN s /\ SameRows(s, q)
         /\ \A d \in DOMAIN s : (q[d].revoked <=> s[d].revoked \/ d = t) /\ q[d].debt = s[d].debt
<1>1. /\ s[t] \in Token
      /\ \A d \in DOMAIN s : s[d].revoked \in BOOLEAN
  <2>1. \A d \in DOMAIN s : s[d] \in Token
    OBVIOUS
  <2> QED
    BY <2>1 DEF Token
<1> DEFINE a == [s[t] EXCEPT !.revoked = TRUE]
<1>2. /\ a \in Token /\ a.user = s[t].user /\ a.born = s[t].born /\ a.family = s[t].family
      /\ a.debt = s[t].debt /\ a.revoked = TRUE
  BY <1>1 DEF Token
<1>3. q = [s EXCEPT ![t] = a]
  OBVIOUS
<1> HIDE DEF a
<1>4. /\ q \in Seq(Token) /\ DOMAIN q = DOMAIN s
      /\ \A d \in DOMAIN s : q[d] = IF d = t THEN a ELSE s[d]
  <2>1. LET w == [s EXCEPT ![t] = a]
        IN /\ w \in Seq(Token) /\ DOMAIN w = DOMAIN s
           /\ \A d \in DOMAIN s : w[d] = IF d = t THEN a ELSE s[d]
    BY <1>2, Replaced
  <2> QED
    BY <1>3, <2>1
<1>5. SameRows(s, q)
  BY <1>2, <1>4 DEF SameRows
<1>6. ASSUME NEW d \in DOMAIN s
      PROVE (q[d].revoked <=> s[d].revoked \/ d = t) /\ q[d].debt = s[d].debt
  <2>1. CASE d = t
    <3>1. q[d] = a
      BY <1>4, <2>1
    <3> QED
      BY <1>2, <2>1, <3>1, Zenon
  <2>2. CASE d # t
    BY <1>1, <1>4, <2>2
  <2> QED
    BY <2>1, <2>2
<1> QED
  BY <1>4, <1>5, <1>6

\* What the update of a row does.
LEMMA OwedRow ==
  ASSUME NEW e \in Token
  PROVE  LET a == [e EXCEPT !.debt = @ + 1] IN a \in Token /\ a.debt = e.debt + 1
BY DEF Token

\* What counting a debt does to the table.
LEMMA Owed ==
  ASSUME NEW s \in Seq(Token), NEW t \in DOMAIN s, NEW q, q = [s EXCEPT ![t].debt = @ + 1]
  PROVE  /\ q \in Seq(Token) /\ DOMAIN q = DOMAIN s /\ SameRows(s, q)
         /\ \A d \in DOMAIN s : /\ q[d].revoked <=> s[d].revoked
                                /\ q[d].debt = IF d = t THEN s[d].debt + 1 ELSE s[d].debt
<1>1. s[t] \in Token
  OBVIOUS
<1> DEFINE a == [s[t] EXCEPT !.debt = @ + 1]
<1>2. a \in Token /\ a.debt = s[t].debt + 1
  BY <1>1, OwedRow, Zenon
<1>3. a.user = s[t].user /\ a.born = s[t].born /\ a.family = s[t].family /\ a.revoked = s[t].revoked
  BY <1>1 DEF Token
<1>4. q = [s EXCEPT ![t] = a]
  OBVIOUS
<1> HIDE DEF a
<1>5. /\ q \in Seq(Token) /\ DOMAIN q = DOMAIN s
      /\ \A d \in DOMAIN s : q[d] = IF d = t THEN a ELSE s[d]
  <2>1. LET w == [s EXCEPT ![t] = a]
        IN /\ w \in Seq(Token) /\ DOMAIN w = DOMAIN s
           /\ \A d \in DOMAIN s : w[d] = IF d = t THEN a ELSE s[d]
    BY <1>2, Replaced
  <2> QED
    BY <1>4, <2>1
<1> QED
  BY <1>2, <1>3, <1>5 DEF SameRows

USE SessionsAssumption DEF request, history, Goto, Fault, Disturb, None, Never

\* The table after RevokeRefreshToken, and after HandleLogout's: the
\* presented row is revoked; a refresh that found it revoked adds a debt.
LEMMA TableRevoke ==
  ASSUME TypeOK, HeldKnown, NEW r \in Requests, RevokeRefreshToken(r) \/ DropToken(r)
  PROVE  /\ held[r] \in Rows /\ tokens[held[r]].family \in Rows
         /\ tokens' \in Seq(Token) /\ Rows' = Rows /\ SameRows(tokens, tokens')
         /\ \A t \in Rows : tokens'[t].revoked <=> (tokens[t].revoked \/ t = held[r])
         /\ \A t \in Rows : tokens'[t].debt =
              IF pc[r] = "revoke" /\ tokens[held[r]].revoked /\ t = tokens[held[r]].family
                THEN tokens[t].debt + 1 ELSE tokens[t].debt
<1>1. tokens \in Seq(Token)
  BY DEF TypeOK
<1>2. held[r] \in Rows
  BY DEF RevokeRefreshToken, DropToken, TypeOK, HeldKnown, Presenting, Passed
<1>3. /\ tokens \in Seq(Token) /\ held[r] \in DOMAIN tokens
      /\ tokens[held[r]].family \in DOMAIN tokens
  BY <1>2 DEF TypeOK, Rows
<1>4. CASE pc[r] = "revoke" /\ tokens[held[r]].revoked
  <2>1. tokens' = [tokens EXCEPT ![tokens[held[r]].family].debt = @ + 1]
    BY <1>4 DEF RevokeRefreshToken, DropToken, Owes
  <2>2. PICK f \in DOMAIN tokens : f = tokens[held[r]].family
    BY <1>3
  <2>3. tokens' = [tokens EXCEPT ![f].debt = @ + 1]
    BY <2>1, <2>2
  <2>4. tokens' \in Seq(Token) /\ DOMAIN tokens' = DOMAIN tokens
    BY <1>1, <2>3, Owed
  <2>5. SameRows(tokens, tokens')
    BY <1>1, <2>3, Owed
  <2>6. \A d \in DOMAIN tokens :
          /\ tokens'[d].revoked <=> tokens[d].revoked
          /\ tokens'[d].debt = IF d = f THEN tokens[d].debt + 1 ELSE tokens[d].debt
    BY <1>1, <2>3, Owed
  <2>7. \A d \in DOMAIN tokens : tokens[d].revoked <=> (tokens[d].revoked \/ d = held[r])
    <3>1. \A d \in DOMAIN tokens : tokens[d] \in Token
      BY <1>3
    <3> QED
      BY <1>3, <1>4, <3>1 DEF Token
  <2> QED
    BY <1>2, <1>3, <1>4, <2>4, <2>5, <2>6, <2>7, <2>2 DEF Rows
<1>5. CASE ~(pc[r] = "revoke" /\ tokens[held[r]].revoked)
  <2>1. tokens' = [tokens EXCEPT ![held[r]].revoked = TRUE]
    BY <1>5 DEF RevokeRefreshToken, DropToken
  <2>2. PICK f \in DOMAIN tokens : f = held[r]
    BY <1>3
  <2>3. tokens' = [tokens EXCEPT ![f].revoked = TRUE]
    BY <2>1, <2>2
  <2>4. tokens' \in Seq(Token) /\ DOMAIN tokens' = DOMAIN tokens
    BY <1>1, <2>3, Revoked
  <2>5. SameRows(tokens, tokens')
    BY <1>1, <2>3, Revoked
  <2>6. \A d \in DOMAIN tokens : /\ tokens'[d].revoked <=> (tokens[d].revoked \/ d = f)
                                 /\ tokens'[d].debt = tokens[d].debt
    BY <1>1, <2>3, Revoked
  <2> QED
    BY <1>2, <1>3, <1>5, <2>4, <2>5, <2>6, <2>2 DEF Rows
<1> QED
  BY <1>4, <1>5

\* The table after a RevokeRefreshToken that fails: a debt.
LEMMA TableOwe ==
  ASSUME TypeOK, HeldKnown, NEW r \in Requests, RevokeFails(r)
  PROVE  /\ held[r] \in Rows /\ tokens[held[r]].family \in Rows
         /\ tokens' \in Seq(Token) /\ Rows' = Rows /\ SameRows(tokens, tokens')
         /\ \A t \in Rows : /\ tokens'[t].revoked <=> tokens[t].revoked
                            /\ tokens'[t].debt = IF t = tokens[held[r]].family
                                                   THEN tokens[t].debt + 1 ELSE tokens[t].debt
<1>1. tokens \in Seq(Token)
  BY DEF TypeOK
<1>2. held[r] \in Rows
  BY DEF RevokeFails, TypeOK, HeldKnown, Presenting, Passed
<1>3. /\ tokens \in Seq(Token) /\ held[r] \in DOMAIN tokens
      /\ tokens[held[r]].family \in DOMAIN tokens
  BY <1>2 DEF TypeOK, Rows
<1>4. tokens' = [tokens EXCEPT ![tokens[held[r]].family].debt = @ + 1]
  BY DEF RevokeFails, Owes
<1>5. PICK f \in DOMAIN tokens : f = tokens[held[r]].family
  BY <1>3
<1>6. tokens' = [tokens EXCEPT ![f].debt = @ + 1]
  BY <1>4, <1>5
<1>7. tokens' \in Seq(Token) /\ DOMAIN tokens' = DOMAIN tokens
  BY <1>1, <1>6, Owed
<1>8. SameRows(tokens, tokens')
  BY <1>1, <1>6, Owed
<1>9. \A d \in DOMAIN tokens :
        /\ tokens'[d].revoked <=> tokens[d].revoked
        /\ tokens'[d].debt = IF d = f
                               THEN tokens[d].debt + 1 ELSE tokens[d].debt
  BY <1>1, <1>6, Owed
<1> QED
  BY <1>2, <1>3, <1>7, <1>8, <1>9, <1>5 DEF Rows

\* The table after CreateRefreshToken: a row more, live, of the request's user.
LEMMA TableIssue ==
  ASSUME TypeOK, HeldKnown, NEW r \in Requests, issueTokenPair(r)
  PROVE  LET id == Len(tokens) + 1
         IN /\ browser[r] \in Browsers /\ UserOf(r) \in Users
            /\ pc[r] = "issue" => held[r] \in Rows /\ tokens[held[r]].family \in Rows
            /\ tokens' \in Seq(Token) /\ Rows' = Rows \union {id} /\ id \notin Rows
            /\ \A t \in Rows : tokens'[t] = tokens[t]
            /\ tokens'[id].user = UserOf(r) /\ tokens'[id].born = now /\ ~tokens'[id].revoked
            /\ tokens'[id].debt = 0
            /\ tokens'[id].family = IF pc[r] = "issue" THEN tokens[held[r]].family ELSE id
            /\ id \in Nat /\ id > 0
<1> DEFINE id == Len(tokens) + 1
           new == CreateRefreshToken(r, id)
<1>1. /\ browser[r] \in Browsers /\ UserOf(r) \in Users
      /\ pc[r] = "issue" => held[r] \in Rows /\ tokens[held[r]].family \in 1..held[r]
  BY DEF issueTokenPair, HeldKnown, Presenting, Passed, UserOf, Users, TypeOK
<1>2. /\ tokens \in Seq(Token) /\ Rows = 1..Len(tokens) /\ Len(tokens) \in Nat /\ now \in Nat
      /\ id \in Nat /\ id > 0 /\ id \notin Rows
  BY DEF TypeOK, Rows
<1>3. pc[r] = "issue" => tokens[held[r]].family \in Rows
  BY <1>1, <1>2
<1>4. /\ new \in Token /\ new.user = UserOf(r) /\ new.born = now /\ ~new.revoked /\ new.debt = 0
      /\ new.family = IF pc[r] = "issue" THEN tokens[held[r]].family ELSE id
  BY <1>1, <1>2, <1>3 DEF CreateRefreshToken, FamilyOf, Token
<1>5. tokens' = Append(tokens, new)
  BY DEF issueTokenPair
<1> HIDE DEF new
<1>6. /\ tokens' \in Seq(Token) /\ Rows' = Rows \union {id}
      /\ tokens'[id] = new /\ \A t \in Rows : tokens'[t] = tokens[t]
  BY <1>2, <1>4, <1>5 DEF Rows
<1> QED
  BY <1>1, <1>2, <1>3, <1>4, <1>6

\* The table after RevokeAllUserTokens: no row of the user is live.
LEMMA TableRevokeAll ==
  ASSUME TypeOK, NEW r \in Requests, RevokeAllUserTokens(r)
  PROVE  /\ tokens' \in Seq(Token) /\ Rows' = Rows /\ SameRows(tokens, tokens')
         /\ \A t \in Rows : /\ tokens'[t].revoked <=> (tokens[t].revoked \/ tokens[t].user = UserOf(r))
                            /\ tokens'[t].debt = tokens[t].debt
<1>1. tokens' = [t \in Rows |-> [tokens[t] EXCEPT !.revoked = @ \/ tokens[t].user = UserOf(r)]]
  BY DEF RevokeAllUserTokens
<1>2. Len(tokens) \in Nat /\ Rows = 1..Len(tokens) /\ \A t \in Rows : tokens[t] \in Token
  BY DEF TypeOK, Rows
<1>3. ASSUME NEW t \in Rows
      PROVE /\ tokens'[t] \in Token /\ tokens'[t].debt = tokens[t].debt
            /\ tokens'[t].user = tokens[t].user /\ tokens'[t].born = tokens[t].born
            /\ tokens'[t].family = tokens[t].family
            /\ tokens'[t].revoked <=> (tokens[t].revoked \/ tokens[t].user = UserOf(r))
  <2>1. tokens[t] \in Token
    BY <1>2
  <2>2. tokens'[t] = [tokens[t] EXCEPT !.revoked = @ \/ tokens[t].user = UserOf(r)]
    BY <1>1
  <2>3. tokens'[t].revoked <=> (tokens[t].revoked \/ tokens[t].user = UserOf(r))
    BY <2>1, <2>2 DEF Token
  <2> QED
    BY <2>1, <2>2, <2>3 DEF Token
<1>4. tokens' \in [1..Len(tokens) -> Token]
  BY <1>1, <1>2, <1>3
<1>5. tokens' \in Seq(Token) /\ Rows' = Rows
  BY <1>2, <1>4 DEF Rows
<1> QED
  BY <1>3, <1>5 DEF SameRows, Rows

\* The inductive invariant holds at the start.
LEMMA IInvInit == Init => IInv
<1> SUFFICES ASSUME Init PROVE IInv
  OBVIOUS
<1>1. /\ tokens = <<>> /\ Rows = {} /\ \A b \in Browsers : jar[b] = None
      /\ \A r \in Requests : pc[r] = "idle" /\ held[r] = None
      /\ \A u \in Users : quiet[u] = Never
  BY DEF Init, Rows
<1>2. TypeOK
  BY <1>1 DEF Init, TypeOK, Control
<1>3. HeldKnown /\ JarsOwn /\ RowsApart /\ QuietHolds
  BY <1>1 DEF HeldKnown, JarsOwn, RowsApart, QuietHolds, Presenting, Passed
<1>4. RotationAccounted /\ Steady
  BY <1>1 DEF RotationAccounted, Steady, Settled, Busy
<1> QED
  BY <1>2, <1>3, <1>4 DEF IInv

\* Types: rows refer to a family that existed, requests and jars to rows.
LEMMA TypeStep == IInv /\ [Next]_vars => TypeOK'
<1> SUFFICES ASSUME IInv, [Next]_vars PROVE TypeOK'
  OBVIOUS
<1> USE DEF IInv
<1>1. ASSUME NEW r \in Requests, NEW b \in Browsers, SignIn(r, b) \/ Refresh(r, b) \/ SignOut(r, b)
      PROVE TypeOK'
  <2>1. PICK label \in Control, cookie \in Rows \union {None} : Send(r, b, label, cookie)
    BY <1>1 DEF SignIn, Refresh, SignOut, TypeOK, Control, Answered
  <2>2. disturbed' \in [Users -> BOOLEAN]
    BY <2>1 DEF Send, TypeOK
  <2> QED
    BY <2>1, <2>2 DEF Send, TypeOK, Rows
<1>2. ASSUME NEW r \in Requests, Lookup(r) \/ StatementFails(r) PROVE TypeOK'
  <2>1. pc' \in [Requests -> Control]
    BY <1>2 DEF Lookup, StatementFails, TypeOK, Control, Answered, Passed
  <2> QED
    BY <1>2, <2>1 DEF Lookup, StatementFails, TypeOK, Rows
<1>3. ASSUME NEW r \in Requests, RevokeRefreshToken(r) \/ RevokeFails(r) \/ DropToken(r) PROVE TypeOK'
  <2>1. tokens' \in Seq(Token) /\ Rows' = Rows /\ SameRows(tokens, tokens')
    BY <1>3, TableRevoke, TableOwe
  <2>2. pc' \in [Requests -> Control] /\ faults' \in Nat
    BY <1>3 DEF RevokeRefreshToken, RevokeFails, DropToken, TypeOK, Control, Answered, Passed
  <2>3. UNCHANGED <<now, jar, browser, held, late, quiet, disturbed>>
    BY <1>3 DEF RevokeRefreshToken, RevokeFails, DropToken
  <2> QED
    BY <2>1, <2>2, <2>3 DEF TypeOK, SameRows, Rows
<1>4. ASSUME NEW r \in Requests, issueTokenPair(r) PROVE TypeOK'
  <2> DEFINE id == Len(tokens) + 1
  <2>1. /\ tokens' \in Seq(Token) /\ Rows' = Rows \union {id} /\ id \in Nat /\ id > 0
        /\ \A t \in Rows : tokens'[t] = tokens[t]
        /\ tokens'[id].family = id \/ tokens'[id].family \in Rows
    BY <1>4, TableIssue
  <2>2. /\ held' = [held EXCEPT ![r] = id] /\ pc' = [pc EXCEPT ![r] = "granted"]
        /\ UNCHANGED <<now, jar, browser, late, disturbed, faults>>
    BY <1>4 DEF issueTokenPair
  <2>3. quiet' \in [Users -> Nat \union {Never}]
    BY <1>4 DEF issueTokenPair, TypeOK
  <2>4. Rows \subseteq 1..id
    BY DEF TypeOK, Rows
  <2> HIDE DEF id
  <2>5. /\ \A t \in Rows' : tokens'[t].family \in 1..t
        /\ held' \in [Requests -> Rows' \union {None}]
    <3>1. \A t \in Rows : tokens[t].family \in 1..t
      BY DEF TypeOK
    <3>2. tokens'[id].family \in 1..id
      BY <2>1, <2>4, \A n \in Nat : n > 0 => n \in 1..n
    <3> QED
      BY <2>1, <2>2, <3>1, <3>2 DEF TypeOK
  <2>6. jar' \in [Browsers -> Rows' \union {None}] /\ pc' \in [Requests -> Control]
    BY <2>1, <2>2 DEF TypeOK, Control, Answered
  <2> QED
    BY <2>1, <2>2, <2>3, <2>5, <2>6 DEF TypeOK
<1>5. ASSUME NEW r \in Requests, RevokeAllUserTokens(r) PROVE TypeOK'
  <2>1. tokens' \in Seq(Token) /\ Rows' = Rows /\ SameRows(tokens, tokens')
    BY <1>5, TableRevokeAll
  <2>2. /\ pc' = [pc EXCEPT ![r] = "cleared"]
        /\ UNCHANGED <<now, jar, browser, held, disturbed, faults>>
    BY <1>5 DEF RevokeAllUserTokens
  <2>3. quiet' = [quiet EXCEPT ![UserOf(r)] = IF @ = Never THEN now ELSE @]
    BY <1>5 DEF RevokeAllUserTokens
  <2>4. late' = [s \in Requests |-> late[s] \/ (pc[s] \in Passed /\ UserOf(s) = UserOf(r))]
    BY <1>5 DEF RevokeAllUserTokens
  <2>5. quiet' \in [Users -> Nat \union {Never}] /\ late' \in [Requests -> BOOLEAN]
    BY <2>3, <2>4 DEF TypeOK
  <2>6. pc' \in [Requests -> Control]
    BY <2>2 DEF TypeOK, Control, Answered
  <2> QED
    BY <2>1, <2>2, <2>5, <2>6 DEF TypeOK, SameRows, Rows
<1>6. ASSUME NEW r \in Requests, RefreshFails(r) PROVE TypeOK'
  <2>1. pc' \in [Requests -> Control] /\ disturbed' \in [Users -> BOOLEAN]
    BY <1>6 DEF RefreshFails, TypeOK, Control, Answered
  <2>2. faults' \in Nat
    BY <1>6 DEF RefreshFails, TypeOK
  <2> QED
    BY <1>6, <2>1, <2>2 DEF RefreshFails, TypeOK, Rows
<1>7. ASSUME NEW r \in Requests, Answer(r) \/ AnswerLost(r) PROVE TypeOK'
  <2>1. /\ pc' \in [Requests -> Control] /\ browser' \in [Requests -> Browsers \union {None}]
        /\ held' \in [Requests -> Rows \union {None}] /\ late' \in [Requests -> BOOLEAN]
    BY <1>7 DEF Answer, AnswerLost, Finish, TypeOK, Control
  <2>2. disturbed' \in [Users -> BOOLEAN] /\ faults' \in Nat
    <3>1. disturbed' = disturbed \/ disturbed' = [disturbed EXCEPT ![UserOf(r)] = TRUE]
      BY <1>7 DEF Answer, AnswerLost
    <3>2. faults' = faults \/ faults' = faults + 1
      BY <1>7 DEF Answer, AnswerLost
    <3>3. disturbed' \in [Users -> BOOLEAN]
      BY <3>1 DEF TypeOK
    <3>4. faults' \in Nat
      BY <3>2 DEF TypeOK
    <3> QED
      BY <3>3, <3>4
  <2>3. jar' = jar \/ \E t \in Rows \union {None} : jar' = [jar EXCEPT ![browser[r]] = t]
    <3>1. CASE Answer(r)
      <4>1. jar' = [jar EXCEPT ![browser[r]] = IF pc[r] = "granted" THEN held[r]
                                               ELSE IF pc[r] = "cleared" THEN None ELSE @]
        BY <3>1 DEF Answer
      <4>2. browser[r] \in Browsers /\ jar[browser[r]] \in Rows \union {None}
        BY <3>1 DEF Answer, Answered, HeldKnown, TypeOK
      <4>3. held[r] \in Rows \union {None}
        BY DEF TypeOK
      <4> QED
        BY <4>1, <4>2, <4>3
    <3> QED
      BY <1>7, <3>1 DEF AnswerLost
  <2>4. jar' \in [Browsers -> Rows \union {None}]
    BY <2>3 DEF TypeOK
  <2>5. UNCHANGED <<now, tokens, quiet>>
    BY <1>7 DEF Answer, AnswerLost
  <2> QED
    BY <2>1, <2>2, <2>4, <2>5 DEF TypeOK, Rows
<1>8. CASE Tick \/ UNCHANGED vars
  BY <1>8 DEF Tick, vars, TypeOK, Rows
<1> QED
  BY <1>1, <1>2, <1>3, <1>4, <1>5, <1>6, <1>7, <1>8 DEF Next, Handle

\* No statement changes the user, the birth or the family of a row, nor
\* brings a revoked row back.
LEMMA RowsStay ==
  ASSUME TypeOK, HeldKnown, [Next]_vars, NEW t \in Rows
  PROVE  /\ t \in Rows' /\ tokens'[t].user = tokens[t].user /\ tokens'[t].born = tokens[t].born
         /\ tokens'[t].family = tokens[t].family /\ (tokens[t].revoked => tokens'[t].revoked)
<1>1. CASE \E r \in Requests : RevokeRefreshToken(r) \/ DropToken(r)
  BY <1>1, TableRevoke DEF SameRows, Rows
<1>2. CASE \E r \in Requests : RevokeFails(r)
  BY <1>2, TableOwe DEF SameRows, Rows
<1>3. CASE \E r \in Requests : issueTokenPair(r)
  BY <1>3, TableIssue
<1>4. CASE \E r \in Requests : RevokeAllUserTokens(r)
  BY <1>4, TableRevokeAll DEF SameRows, Rows
<1>5. CASE UNCHANGED tokens
  BY <1>5 DEF Rows
<1>6. ASSUME NEW r \in Requests, Handle(r)
      PROVE \/ RevokeRefreshToken(r) \/ DropToken(r) \/ RevokeFails(r) \/ issueTokenPair(r)
            \/ RevokeAllUserTokens(r) \/ UNCHANGED tokens
  BY <1>6 DEF Handle, Lookup, StatementFails, RefreshFails, Answer, AnswerLost
<1>7. (Tick \/ UNCHANGED vars \/ \E r \in Requests, b \in Browsers : SignIn(r, b) \/ Refresh(r, b) \/ SignOut(r, b))
        => UNCHANGED tokens
  BY DEF Tick, vars, SignIn, Refresh, SignOut, Send
<1> QED
  BY <1>1, <1>2, <1>3, <1>4, <1>5, <1>6, <1>7 DEF Next

\* A request with a row presents one of its browser's user.
LEMMA HeldStep == IInv /\ [Next]_vars => HeldKnown'
<1> SUFFICES ASSUME IInv, [Next]_vars PROVE HeldKnown'
  OBVIOUS
<1> USE DEF IInv
<1>1. ASSUME NEW r \in Requests, NEW b \in Browsers, SignIn(r, b) \/ Refresh(r, b) \/ SignOut(r, b)
      PROVE HeldKnown'
  <2>1. PICK label \in Control, cookie \in Rows \union {None} :
          /\ Send(r, b, label, cookie) /\ label # "idle" /\ cookie \in {None, jar[b]}
          /\ label \in Presenting => cookie # None
    BY <1>1 DEF SignIn, Refresh, SignOut, TypeOK, Control, Answered, Presenting, Passed
  <2>2. cookie # None => tokens[cookie].user = Owner[b]
    BY <2>1 DEF JarsOwn
  <2>3. /\ pc' = [pc EXCEPT ![r] = label] /\ browser' = [browser EXCEPT ![r] = b]
        /\ held' = [held EXCEPT ![r] = cookie] /\ tokens' = tokens
    BY <2>1 DEF Send
  <2> QED
    BY <2>1, <2>2, <2>3 DEF HeldKnown, TypeOK, UserOf
<1>2. ASSUME NEW r \in Requests, NEW label, pc' = [pc EXCEPT ![r] = label],
             label # "idle", pc[r] # "idle", label \in Presenting => pc[r] \in Presenting,
             UNCHANGED <<browser, held>>
      PROVE HeldKnown'
  <2>1. \A q \in Requests : held[q] # None => tokens'[held[q]].user = tokens[held[q]].user
    BY RowsStay DEF TypeOK
  <2> QED
    BY <1>2, <2>1 DEF HeldKnown, TypeOK, UserOf
<1>3. ASSUME NEW r \in Requests, Lookup(r) \/ RevokeRefreshToken(r) \/ RevokeFails(r) \/ StatementFails(r)
      PROVE HeldKnown'
  <2>1. PICK label \in {"reuse", "refused", "revoke", "issue", "cleared"} : pc' = [pc EXCEPT ![r] = label]
    BY <1>3 DEF Lookup, RevokeRefreshToken, RevokeFails, StatementFails
  <2>2. pc[r] # "idle" /\ (label \in Presenting => pc[r] \in Presenting) /\ UNCHANGED <<browser, held>>
    <3>1. label \in Presenting => pc[r] \in {"lookup", "revoke"}
      BY <1>3, <2>1 DEF Lookup, RevokeRefreshToken, RevokeFails, StatementFails, Presenting, Passed, TypeOK
    <3>2. pc[r] # "idle" /\ UNCHANGED <<browser, held>>
      BY <1>3 DEF Lookup, RevokeRefreshToken, RevokeFails, StatementFails
    <3> QED
      BY <3>1, <3>2 DEF Presenting, Passed
  <2> QED
    BY <1>2, <2>1, <2>2
<1>4. ASSUME NEW r \in Requests, RevokeAllUserTokens(r) \/ DropToken(r) \/ RefreshFails(r)
      PROVE HeldKnown'
  <2>1. PICK label \in {"refused", "cleared"} : pc' = [pc EXCEPT ![r] = label]
    BY <1>4 DEF RevokeAllUserTokens, DropToken, RefreshFails
  <2>2. pc[r] # "idle" /\ UNCHANGED <<browser, held>>
    BY <1>4 DEF RevokeAllUserTokens, DropToken, RefreshFails
  <2> QED
    BY <1>2, <2>1, <2>2 DEF Presenting, Passed
<1>5. ASSUME NEW r \in Requests, issueTokenPair(r) PROVE HeldKnown'
  <2> DEFINE id == Len(tokens) + 1
  <2>1. /\ browser[r] \in Browsers /\ id \in Nat /\ id > 0
        /\ tokens'[id].user = UserOf(r) /\ \A t \in Rows : tokens'[t] = tokens[t]
    BY <1>5, TableIssue
  <2>2. /\ held' = [held EXCEPT ![r] = id] /\ pc' = [pc EXCEPT ![r] = "granted"]
        /\ UNCHANGED browser
    BY <1>5 DEF issueTokenPair
  <2> HIDE DEF id
  <2> QED
    BY <2>1, <2>2 DEF HeldKnown, TypeOK, UserOf
<1>6. ASSUME NEW r \in Requests, Answer(r) \/ AnswerLost(r) PROVE HeldKnown'
  BY <1>6 DEF Answer, AnswerLost, Finish, HeldKnown, TypeOK, UserOf, Presenting, Passed
<1>7. CASE Tick \/ UNCHANGED vars
  BY <1>7 DEF Tick, vars, HeldKnown, UserOf
<1> QED
  BY <1>1, <1>3, <1>4, <1>5, <1>6, <1>7 DEF Next, Handle

\* The row in a jar is of the user who signed in there.
LEMMA JarsStep == IInv /\ [Next]_vars => JarsOwn'
<1> SUFFICES ASSUME IInv, [Next]_vars, NEW b \in Browsers, jar'[b] # None
             PROVE tokens'[jar'[b]].user = Owner[b]
  BY DEF JarsOwn
<1> USE DEF IInv
<1>1. CASE jar'[b] = jar[b]
  BY <1>1, RowsStay DEF JarsOwn, TypeOK
<1>2. CASE jar'[b] # jar[b]
  <2>1. PICK r \in Requests : Answer(r)
    BY <1>2 DEF Next, Handle, Tick, vars, SignIn, Refresh, SignOut, Send, Lookup, RevokeRefreshToken,
      RevokeFails, issueTokenPair, RevokeAllUserTokens, DropToken, StatementFails, RefreshFails, AnswerLost
  <2>2. pc[r] = "granted" /\ b = browser[r] /\ jar'[b] = held[r]
    BY <1>2, <2>1 DEF Answer, TypeOK
  <2>3. held[r] # None /\ tokens[held[r]].user = Owner[b]
    BY <2>2 DEF HeldKnown, Presenting, UserOf
  <2> QED
    BY <2>2, <2>3, RowsStay DEF TypeOK
<1> QED
  BY <1>1, <1>2

\* A browser comes to hold a row of the table by its own requests only.
LEMMA HoldsStep ==
  ASSUME IInv, [Next]_vars, NEW b \in Browsers, NEW t \in Rows, Holds(b, t)'
  PROVE  Holds(b, t)
<1> USE DEF IInv
<1>1. t # None
  BY DEF TypeOK, Rows
<1>2. ASSUME jar'[b] = t, jar[b] # t PROVE Holds(b, t)
  <2>1. PICK r \in Requests : Answer(r)
    BY <1>2 DEF Next, Handle, Tick, vars, SignIn, Refresh, SignOut, Send, Lookup, RevokeRefreshToken,
      RevokeFails, issueTokenPair, RevokeAllUserTokens, DropToken, StatementFails, RefreshFails, AnswerLost
  <2>2. pc[r] = "granted" /\ b = browser[r] /\ jar'[b] = held[r]
    BY <1>1, <1>2, <2>1 DEF Answer, TypeOK
  <2> QED
    BY <1>2, <2>2 DEF Holds, Busy
<1>3. ASSUME NEW q \in Requests, q \in Busy(b)', held'[q] = t, jar[b] # t PROVE Holds(b, t)
  <2>1. ASSUME NEW r \in Requests, NEW c \in Browsers, SignIn(r, c) \/ Refresh(r, c) \/ SignOut(r, c)
        PROVE q \in Busy(b) /\ held[q] = t
    BY <1>1, <1>3, <2>1 DEF SignIn, Refresh, SignOut, Send, Busy, TypeOK
  <2>2. ASSUME NEW r \in Requests, issueTokenPair(r) PROVE q \in Busy(b) /\ held[q] = t
    BY <1>3, <2>2, TableIssue DEF issueTokenPair, Busy, TypeOK
  <2>3. ASSUME NEW r \in Requests,
               \/ Lookup(r) \/ RevokeRefreshToken(r) \/ RevokeFails(r) \/ StatementFails(r)
               \/ RevokeAllUserTokens(r) \/ DropToken(r) \/ RefreshFails(r)
        PROVE q \in Busy(b) /\ held[q] = t
    BY <1>3, <2>3 DEF Lookup, RevokeRefreshToken, RevokeFails, StatementFails, RevokeAllUserTokens,
      DropToken, RefreshFails, Busy, TypeOK
  <2>4. ASSUME NEW r \in Requests, Answer(r) \/ AnswerLost(r) PROVE q \in Busy(b) /\ held[q] = t
    BY <1>3, <2>4 DEF Answer, AnswerLost, Finish, Busy, TypeOK
  <2>5. CASE Tick \/ UNCHANGED vars
    BY <1>3, <2>5 DEF Tick, vars, Busy, Holds
  <2> QED
    BY <2>1, <2>2, <2>3, <2>4, <2>5 DEF Next, Handle, Holds
<1> QED
  BY <1>2, <1>3 DEF Holds, Busy

\* Rows are added by issueTokenPair only.
LEMMA RowsAdded ==
  ASSUME TypeOK, HeldKnown, [Next]_vars, ~\E r \in Requests : issueTokenPair(r)
  PROVE  Rows' = Rows
<1>1. \/ Rows' = Rows
      \/ \E r \in Requests : \/ RevokeRefreshToken(r) \/ RevokeFails(r)
                             \/ RevokeAllUserTokens(r) \/ DropToken(r)
  BY DEF Next, Handle, Tick, vars, SignIn, Refresh, SignOut, Send, Lookup, StatementFails,
    RefreshFails, Answer, AnswerLost, Rows
<1> QED
  BY <1>1, TableRevoke, TableOwe, TableRevokeAll

\* A row is on its way to one browser.
LEMMA ApartStep == IInv /\ [Next]_vars => RowsApart'
<1> SUFFICES ASSUME IInv, [Next]_vars, NEW t \in Rows', NEW b \in Browsers, NEW c \in Browsers,
                    Holds(b, t)', Holds(c, t)'
             PROVE b = c
  BY DEF RowsApart
<1> USE DEF IInv
<1>1. CASE t \in Rows
  BY <1>1, HoldsStep DEF RowsApart
<1>2. CASE t \notin Rows
  <2>1. PICK r \in Requests : issueTokenPair(r)
    BY <1>2, RowsAdded
  <2>2. t = Len(tokens) + 1
    BY <1>2, <2>1, TableIssue
  <2>3. /\ held' = [held EXCEPT ![r] = t] /\ UNCHANGED <<jar, browser>>
    BY <2>1, <2>2 DEF issueTokenPair
  <2>4. t \notin Rows \union {None}
    BY <1>2, <2>2 DEF TypeOK, Rows
  <2>5. \A d \in Browsers : Holds(d, t)' => d = browser[r]
    BY <2>3, <2>4 DEF Holds, Busy, TypeOK
  <2> QED
    BY <2>5
<1> QED
  BY <1>1, <1>2

\* A step that ends no session and begins none keeps what a detection ended.
LEMMA QuietKept ==
  ASSUME IInv, [Next]_vars, quiet' = quiet, Rows' = Rows, now' >= now, now' \in Nat,
         \A r \in Requests : pc'[r] \in Passed =>
           /\ UserOf(r)' = UserOf(r) /\ late'[r] = late[r]
           /\ pc[r] \in Passed \/ (~tokens[held[r]].revoked /\ held[r] # None)
  PROVE  QuietHolds'
<1> USE DEF IInv
<1>1. \A t \in Rows : tokens[t] \in Token
  BY DEF TypeOK, Rows
<1>2. \A t \in Rows' : tokens'[t].born <= now'
  BY <1>1, RowsStay DEF QuietHolds, TypeOK, Token
<1>3. ASSUME NEW u \in Users, quiet'[u] # Never, NEW t \in Rows', tokens'[t].user = u
      PROVE tokens'[t].revoked /\ tokens'[t].born <= quiet'[u]
  BY <1>3, RowsStay DEF QuietHolds
<1>4. ASSUME NEW u \in Users, quiet'[u] # Never, NEW r \in Requests, pc'[r] \in Passed, UserOf(r)' = u
      PROVE late'[r]
  <2>1. UserOf(r) = u /\ quiet[u] # Never
    BY <1>4
  <2>2. held[r] # None => tokens[held[r]].user = u /\ held[r] \in Rows
    BY <2>1 DEF HeldKnown, TypeOK
  <2>3. pc[r] \in Passed
    BY <1>4, <2>1, <2>2 DEF QuietHolds
  <2> QED
    BY <1>4, <2>1, <2>3 DEF QuietHolds
<1> QED
  BY <1>2, <1>3, <1>4 DEF QuietHolds

\* Ended sessions stay ended.
LEMMA QuietStep == IInv /\ [Next]_vars => QuietHolds'
<1> SUFFICES ASSUME IInv, [Next]_vars PROVE QuietHolds'
  OBVIOUS
<1> USE DEF IInv
<1>1. now \in Nat /\ now >= now /\ now + 1 >= now /\ now + 1 \in Nat
  BY DEF TypeOK
<1>2. ASSUME NEW r \in Requests, NEW b \in Browsers, SignIn(r, b) \/ Refresh(r, b) \/ SignOut(r, b)
      PROVE QuietHolds'
  <2>1. \A q \in Requests : pc'[q] \in Passed => pc[q] \in Passed /\ browser'[q] = browser[q]
    BY <1>2 DEF SignIn, Refresh, SignOut, Send, Passed, TypeOK
  <2>2. UNCHANGED <<now, tokens, late, quiet>>
    BY <1>2 DEF SignIn, Refresh, SignOut, Send
  <2>3. \A q \in Requests : pc'[q] \in Passed => UserOf(q)' = UserOf(q) /\ late'[q] = late[q]
    BY <2>1, <2>2 DEF UserOf
  <2>4. Rows' = Rows
    BY <2>2 DEF Rows
  <2>5. now' >= now /\ now' \in Nat /\ quiet' = quiet
    BY <1>1, <2>2
  <2>6. \A q \in Requests : pc'[q] \in Passed =>
          /\ UserOf(q)' = UserOf(q) /\ late'[q] = late[q]
          /\ pc[q] \in Passed \/ (~tokens[held[q]].revoked /\ held[q] # None)
    BY <2>1, <2>3
  <2> QED
    BY <2>4, <2>5, <2>6, QuietKept
<1>3. ASSUME NEW r \in Requests,
             Lookup(r) \/ RevokeRefreshToken(r) \/ RevokeFails(r) \/ StatementFails(r)
             \/ DropToken(r) \/ RefreshFails(r)
      PROVE QuietHolds'
  <2>1. \A q \in Requests : pc'[q] \in Passed =>
          pc[q] \in Passed \/ (~tokens[held[q]].revoked /\ held[q] # None)
    BY <1>3 DEF Lookup, RevokeRefreshToken, RevokeFails, StatementFails, DropToken, RefreshFails,
      Passed, TypeOK, HeldKnown, Presenting
  <2>2. UNCHANGED <<now, browser, late, quiet>>
    BY <1>3 DEF Lookup, RevokeRefreshToken, RevokeFails, StatementFails, DropToken, RefreshFails
  <2>3. Rows' = Rows
    BY <1>3, TableRevoke, TableOwe DEF Lookup, StatementFails, RefreshFails, Rows
  <2> QED
    BY <1>1, <2>1, <2>2, <2>3, QuietKept DEF UserOf
<1>4. ASSUME NEW r \in Requests, issueTokenPair(r) PROVE QuietHolds'
  <2> DEFINE id == Len(tokens) + 1
  <2>1. /\ UserOf(r) \in Users /\ Rows' = Rows \union {id}
        /\ \A t \in Rows : tokens'[t] = tokens[t]
        /\ tokens'[id].user = UserOf(r) /\ tokens'[id].born = now
    BY <1>4, TableIssue
  <2>2. /\ quiet' = [quiet EXCEPT ![UserOf(r)] = IF pc[r] = "signin" \/ late[r] THEN Never ELSE @]
        /\ pc' = [pc EXCEPT ![r] = "granted"]
        /\ pc[r] \in {"issue", "signin"} /\ UNCHANGED <<now, browser, late>>
    BY <1>4 DEF issueTokenPair
  <2>3. quiet'[UserOf(r)] = Never
    BY <2>1, <2>2 DEF QuietHolds, TypeOK, Passed
  <2>4. \A u \in Users : u # UserOf(r) => quiet'[u] = quiet[u]
    BY <2>1, <2>2 DEF TypeOK
  <2> HIDE DEF id
  <2>5. \A t \in Rows' : tokens'[t].born <= now'
    BY <1>1, <2>1, <2>2 DEF QuietHolds
  <2>6. ASSUME NEW u \in Users, quiet'[u] # Never
        PROVE /\ quiet[u] # Never /\ u # UserOf(r) /\ quiet'[u] = quiet[u]
    BY <2>3, <2>4, <2>6
  <2>7. ASSUME NEW u \in Users, quiet'[u] # Never, NEW t \in Rows', tokens'[t].user = u
        PROVE tokens'[t].revoked /\ tokens'[t].born <= quiet'[u]
    BY <2>1, <2>6, <2>7 DEF QuietHolds
  <2>8. ASSUME NEW u \in Users, quiet'[u] # Never, NEW q \in Requests, pc'[q] \in Passed, UserOf(q)' = u
        PROVE late'[q]
    BY <2>2, <2>6, <2>8 DEF QuietHolds, UserOf, TypeOK, Passed
  <2> QED
    BY <2>5, <2>7, <2>8 DEF QuietHolds
<1>5. ASSUME NEW r \in Requests, RevokeAllUserTokens(r) PROVE QuietHolds'
  <2>1. /\ Rows' = Rows
        /\ \A t \in Rows : /\ tokens'[t].user = tokens[t].user /\ tokens'[t].born = tokens[t].born
                           /\ tokens'[t].revoked <=> (tokens[t].revoked \/ tokens[t].user = UserOf(r))
    BY <1>5, TableRevokeAll DEF SameRows, Rows
  <2>2. quiet' = [quiet EXCEPT ![UserOf(r)] = IF @ = Never THEN now ELSE @]
    BY <1>5 DEF RevokeAllUserTokens
  <2>3. late' = [s \in Requests |-> late[s] \/ (pc[s] \in Passed /\ UserOf(s) = UserOf(r))]
    BY <1>5 DEF RevokeAllUserTokens
  <2>4. pc' = [pc EXCEPT ![r] = "cleared"] /\ UNCHANGED <<now, browser>>
    BY <1>5 DEF RevokeAllUserTokens
  <2>5. \A t \in Rows' : tokens'[t].born <= now'
    BY <2>1, <2>4 DEF QuietHolds
  <2>6. ASSUME NEW u \in Users, quiet'[u] # Never, NEW t \in Rows', tokens'[t].user = u
        PROVE tokens'[t].revoked /\ tokens'[t].born <= quiet'[u]
    <3>1. CASE u # UserOf(r)
      <4>1. quiet'[u] = quiet[u]
        BY <2>2, <3>1 DEF TypeOK
      <4> QED
        BY <2>1, <2>6, <4>1 DEF QuietHolds
    <3>2. CASE u = UserOf(r)
      <4>1. quiet'[u] = IF quiet[u] = Never THEN now ELSE quiet[u]
        BY <2>2, <3>2 DEF TypeOK
      <4> QED
        BY <2>1, <2>6, <3>2, <4>1 DEF QuietHolds
    <3> QED
      BY <3>1, <3>2
  <2>7. ASSUME NEW u \in Users, quiet'[u] # Never, NEW q \in Requests, pc'[q] \in Passed, UserOf(q)' = u
        PROVE late'[q]
    <3>1. pc[q] \in Passed /\ UserOf(q) = u
      BY <2>4, <2>7 DEF TypeOK, Passed, UserOf
    <3>2. CASE u = UserOf(r)
      BY <2>3, <3>1, <3>2
    <3>3. CASE u # UserOf(r)
      <4>1. quiet[u] # Never
        BY <2>2, <2>7, <3>3 DEF TypeOK
      <4> QED
        BY <2>3, <3>1, <4>1 DEF QuietHolds
    <3> QED
      BY <3>2, <3>3
  <2> QED
    BY <2>5, <2>6, <2>7 DEF QuietHolds
<1>6. ASSUME NEW r \in Requests, Answer(r) \/ AnswerLost(r) PROVE QuietHolds'
  <2>1. \A q \in Requests : pc'[q] \in Passed =>
          pc[q] \in Passed /\ browser'[q] = browser[q] /\ late'[q] = late[q]
    BY <1>6 DEF Answer, AnswerLost, Finish, Passed, TypeOK
  <2>2. UNCHANGED <<now, tokens, quiet>>
    BY <1>6 DEF Answer, AnswerLost
  <2>3. \A q \in Requests : pc'[q] \in Passed => UserOf(q)' = UserOf(q) /\ late'[q] = late[q]
    BY <2>1, <2>2 DEF UserOf
  <2>4. Rows' = Rows
    BY <2>2 DEF Rows
  <2>5. now' >= now /\ now' \in Nat /\ quiet' = quiet
    BY <1>1, <2>2
  <2>6. \A q \in Requests : pc'[q] \in Passed =>
          /\ UserOf(q)' = UserOf(q) /\ late'[q] = late[q]
          /\ pc[q] \in Passed \/ (~tokens[held[q]].revoked /\ held[q] # None)
    BY <2>1, <2>3
  <2> QED
    BY <2>4, <2>5, <2>6, QuietKept
<1>7. CASE Tick \/ UNCHANGED vars
  <2>1. UNCHANGED <<tokens, pc, browser, held, late, quiet>> /\ now' \in {now, now + 1}
    BY <1>7 DEF Tick, vars
  <2>2. \A q \in Requests : pc'[q] \in Passed => UserOf(q)' = UserOf(q) /\ late'[q] = late[q]
    BY <2>1 DEF UserOf
  <2>3. Rows' = Rows /\ pc' = pc
    BY <2>1 DEF Rows
  <2>4. now' >= now /\ now' \in Nat /\ quiet' = quiet
    BY <1>1, <2>1
  <2>5. \A q \in Requests : pc'[q] \in Passed =>
          /\ UserOf(q)' = UserOf(q) /\ late'[q] = late[q]
          /\ pc[q] \in Passed \/ (~tokens[held[q]].revoked /\ held[q] # None)
    BY <2>2, <2>3
  <2> QED
    BY <2>3, <2>4, <2>5, QuietKept
<1> QED
  BY <1>2, <1>3, <1>4, <1>5, <1>6, <1>7 DEF Next, Handle

\* What a request of one browser does leaves the rows of another alone, when
\* its user is undisturbed.
LEMMA RowsOfOthers ==
  ASSUME IInv, NEW r \in Requests, Handle(r), NEW b \in Browsers, ~disturbed[Owner[b]],
         browser[r] # b, NEW t \in Rows, Holds(b, t), ~tokens[t].revoked
  PROVE  ~tokens'[t].revoked
<1> USE DEF IInv
<1>1. CASE RevokeRefreshToken(r) \/ DropToken(r)
  <2>1. browser[r] \in Browsers /\ r \in Busy(browser[r])
    BY <1>1 DEF RevokeRefreshToken, DropToken, HeldKnown, Busy
  <2>2. Holds(browser[r], held[r])
    BY <2>1 DEF Holds
  <2>3. t # held[r]
    BY <2>1, <2>2 DEF RowsApart
  <2> QED
    BY <1>1, <2>3, TableRevoke
<1>2. CASE RevokeAllUserTokens(r)
  <2>1. pc[r] = "reuse" /\ browser[r] \in Browsers /\ r \in Busy(browser[r])
    BY <1>2 DEF RevokeAllUserTokens, HeldKnown, Busy
  <2>2. Owner[b] # UserOf(r)
    BY <2>1 DEF Steady, Settled, UserOf
  <2>3. t # None
    BY DEF TypeOK, Rows
  <2>4. tokens[t].user = Owner[b]
    BY <2>3 DEF Holds, HeldKnown, JarsOwn, UserOf, Busy
  <2> QED
    BY <1>2, <2>2, <2>4, TableRevokeAll
<1>3. CASE RevokeFails(r)
  BY <1>3, TableOwe
<1>4. CASE issueTokenPair(r)
  BY <1>4, TableIssue
<1>5. CASE UNCHANGED tokens
  BY <1>5
<1> QED
  BY <1>1, <1>2, <1>3, <1>4, <1>5
     DEF Handle, Lookup, StatementFails, RefreshFails, Answer, AnswerLost

\* A browser whose requests, jar and rows a step leaves alone stays settled.
LEMMA SettledKept ==
  ASSUME IInv, NEW b \in Browsers, Settled(b), Busy(b)' = Busy(b), jar'[b] = jar[b],
         \A q \in Busy(b) : pc'[q] = pc[q] /\ held'[q] = held[q],
         \A t \in Rows : Holds(b, t) /\ ~tokens[t].revoked => ~tokens'[t].revoked
  PROVE  Settled(b)'
<1> USE DEF IInv
<1>1. \A q \in Busy(b) : pc[q] = "granted" => ~tokens'[held[q]].revoked
  BY DEF Settled, Holds, HeldKnown, Presenting, TypeOK, Busy
<1>2. jar[b] # None /\ (\A q \in Busy(b) : pc[q] \notin {"issue", "granted", "cleared"}) =>
        ~tokens'[jar[b]].revoked
  BY DEF Settled, Holds, TypeOK
<1> QED
  BY <1>1, <1>2 DEF Settled

\* An undisturbed browser stays settled.
LEMMA SteadyStep == IInv /\ [Next]_vars => Steady'
<1> SUFFICES ASSUME IInv, [Next]_vars, NEW b \in Browsers, ~disturbed'[Owner[b]]
             PROVE Settled(b)'
  BY DEF Steady
<1> USE DEF IInv
<1>1. ~disturbed[Owner[b]] /\ Settled(b)
  <2>1. Owner[b] \in Users
    BY DEF Users
  <2>2. ASSUME NEW r \in Requests, NEW c \in Browsers, SignIn(r, c) \/ Refresh(r, c) \/ SignOut(r, c)
        PROVE disturbed[Owner[b]] => disturbed'[Owner[b]]
    <3>1. disturbed' = [disturbed EXCEPT ![Owner[c]] = @ \/ Busy(c) # {}]
      BY <2>2 DEF SignIn, Refresh, SignOut, Send
    <3> QED
      BY <2>1, <3>1 DEF TypeOK
  <2>3. ASSUME NEW r \in Requests, Handle(r) PROVE disturbed[Owner[b]] => disturbed'[Owner[b]]
    <3>1. disturbed' = disturbed \/ disturbed' = [disturbed EXCEPT ![UserOf(r)] = TRUE]
      BY <2>3 DEF Handle, Lookup, RevokeRefreshToken, RevokeFails, issueTokenPair,
        RevokeAllUserTokens, DropToken, StatementFails, RefreshFails, Answer, AnswerLost
    <3> QED
      BY <2>1, <3>1 DEF TypeOK
  <2> QED
    BY <2>2, <2>3 DEF Next, Tick, vars, Steady
<1>2. ASSUME NEW r \in Requests, NEW c \in Browsers, SignIn(r, c) \/ Refresh(r, c) \/ SignOut(r, c)
      PROVE Settled(b)'
  <2>1. PICK label \in {"signin", "lookup", "cleared", "drop"}, cookie \in Rows \union {None} :
          Send(r, c, label, cookie) /\ (label = "lookup" => cookie = jar[c])
    BY <1>2 DEF SignIn, Refresh, SignOut, TypeOK
  <2>2. /\ pc[r] = "idle" /\ pc' = [pc EXCEPT ![r] = label] /\ browser' = [browser EXCEPT ![r] = c]
        /\ held' = [held EXCEPT ![r] = cookie]
        /\ UNCHANGED <<tokens, jar>>
    BY <2>1 DEF Send
  <2>3. CASE b # c
    <3>1. Busy(b)' = Busy(b) /\ \A q \in Busy(b) : pc'[q] = pc[q] /\ held'[q] = held[q]
      BY <2>2, <2>3 DEF Busy, TypeOK
    <3> QED
      BY <1>1, <2>2, <3>1, SettledKept
  <2>4. CASE b = c
    <3>1. Busy(b) = {}
      BY <2>1, <2>4 DEF Send, TypeOK, Users
    <3>2. Busy(b)' = {r}
      BY <2>2, <2>4, <3>1 DEF Busy, TypeOK
    <3>3. pc'[r] = label /\ held'[r] = cookie
      BY <2>2 DEF TypeOK
    <3> QED
      BY <1>1, <2>1, <2>2, <2>4, <3>1, <3>2, <3>3 DEF Settled
  <2> QED
    BY <2>3, <2>4
<1>3. ASSUME NEW r \in Requests, Handle(r), browser[r] # b PROVE Settled(b)'
  <2>1. Busy(b)' = Busy(b) /\ \A q \in Busy(b) : pc'[q] = pc[q] /\ held'[q] = held[q]
    <3>1. pc[r] # "idle" /\ \A q \in Requests : q # r => pc'[q] = pc[q] /\ held'[q] = held[q] /\ browser'[q] = browser[q]
      BY <1>3 DEF Handle, Lookup, RevokeRefreshToken, RevokeFails, issueTokenPair, RevokeAllUserTokens,
        DropToken, StatementFails, RefreshFails, Answer, AnswerLost, Finish, Answered, TypeOK
    <3>2. browser'[r] # b \/ pc'[r] = "idle"
      BY <1>3 DEF Handle, Lookup, RevokeRefreshToken, RevokeFails, issueTokenPair, RevokeAllUserTokens,
        DropToken, StatementFails, RefreshFails, Answer, AnswerLost, Finish, TypeOK
    <3> QED
      BY <1>3, <3>1, <3>2 DEF Busy
  <2>2. jar'[b] = jar[b]
    BY <1>3 DEF Handle, Lookup, RevokeRefreshToken, RevokeFails, issueTokenPair, RevokeAllUserTokens,
      DropToken, StatementFails, RefreshFails, Answer, AnswerLost, TypeOK
  <2> QED
    BY <1>1, <1>3, <2>1, <2>2, RowsOfOthers, SettledKept
<1>4. ASSUME NEW r \in Requests, Handle(r), browser[r] = b PROVE Settled(b)'
  <2>1. Busy(b) = {r}
    BY <1>1, <1>4 DEF Settled, Busy, Handle, Lookup, RevokeRefreshToken, RevokeFails, issueTokenPair,
      RevokeAllUserTokens, DropToken, StatementFails, RefreshFails, Answer, AnswerLost, Answered
  <2>2. ASSUME NEW label \in Control, label # "idle", pc' = [pc EXCEPT ![r] = label],
               UNCHANGED browser
        PROVE Busy(b)' = {r} /\ pc'[r] = label
    BY <2>1, <2>2, <1>4 DEF Busy, TypeOK
  <2>3. ASSUME Lookup(r) \/ StatementFails(r) PROVE Settled(b)'
    <3>1. PICK label \in {"refused", "revoke", "reuse", "cleared"} : pc' = [pc EXCEPT ![r] = label]
      BY <2>3 DEF Lookup, StatementFails
    <3>2. UNCHANGED <<tokens, jar, browser, held>>
      BY <2>3 DEF Lookup, StatementFails
    <3>3. Busy(b)' = {r} /\ pc'[r] = label
      BY <3>1, <3>2, <2>2 DEF Control, Answered, Passed
    <3>4. pc[r] # "reuse" /\ (pc[r] = "lookup" => held[r] = jar[b] /\ held[r] # None)
      BY <1>1, <2>1 DEF Settled, HeldKnown, Presenting
    <3>5. pc[r] \in {"lookup", "signin"} /\ jar[b] # None => ~tokens[jar[b]].revoked
      BY <1>1, <2>1 DEF Settled
    <3>6. label = "cleared" \/ pc[r] \in {"lookup", "signin"}
      BY <2>3, <3>3 DEF Lookup, StatementFails, TypeOK
    <3>7. label # "reuse" /\ (label = "revoke" => pc[r] = "lookup")
      BY <2>3, <3>1, <3>3, <3>4, <3>5 DEF Lookup, StatementFails, TypeOK
    <3> QED
      BY <3>2, <3>3, <3>4, <3>5, <3>6, <3>7 DEF Settled
  <2>4. ASSUME RevokeRefreshToken(r) \/ RevokeFails(r) \/ DropToken(r) PROVE Settled(b)'
    <3>1. PICK label \in {"issue", "cleared"} : pc' = [pc EXCEPT ![r] = label]
      BY <2>4 DEF RevokeRefreshToken, RevokeFails, DropToken
    <3>2. Busy(b)' = {r} /\ pc'[r] = label
      BY <2>2, <2>4, <3>1 DEF RevokeRefreshToken, RevokeFails, DropToken, Control, Answered, Passed
    <3> QED
      BY <3>1, <3>2 DEF Settled
  <2>5. ASSUME issueTokenPair(r) PROVE Settled(b)'
    <3>1. Busy(b)' = {r} /\ pc'[r] = "granted"
      BY <2>2, <2>5 DEF issueTokenPair, Control, Answered
    <3>2. ~tokens'[held'[r]].revoked
      BY <2>5, TableIssue DEF issueTokenPair, TypeOK
    <3> QED
      BY <3>1, <3>2 DEF Settled
  <2>6. ASSUME Answer(r) PROVE Settled(b)'
    <3>1. Busy(b)' = {}
      BY <2>1, <2>6 DEF Answer, Finish, Busy, TypeOK
    <3>2. tokens' = tokens
      BY <2>6 DEF Answer
    <3>3. jar'[b] = IF pc[r] = "granted" THEN held[r] ELSE IF pc[r] = "cleared" THEN None ELSE jar[b]
      BY <1>4, <2>6 DEF Answer, TypeOK
    <3>4. pc[r] \in {"granted", "refused", "cleared"}
      BY <2>6 DEF Answer, Answered
    <3>5. jar'[b] # None => ~tokens[jar'[b]].revoked
      BY <1>1, <2>1, <3>3, <3>4 DEF Settled
    <3> QED
      BY <3>1, <3>2, <3>5 DEF Settled
  <2>7. ~RevokeAllUserTokens(r)
    BY <1>1, <2>1 DEF Settled, RevokeAllUserTokens
  <2>8. ~RefreshFails(r) /\ ~AnswerLost(r)
    BY <1>4 DEF RefreshFails, AnswerLost, UserOf, TypeOK, Users
  <2> QED
    BY <1>4, <2>3, <2>4, <2>5, <2>6, <2>7, <2>8 DEF Handle
<1>5. CASE Tick \/ UNCHANGED vars
  <2>1. UNCHANGED <<tokens, jar, pc, browser, held>>
    BY <1>5 DEF Tick, vars
  <2> QED
    BY <1>1, <2>1 DEF Settled, Busy
<1> QED
  BY <1>2, <1>3, <1>4, <1>5 DEF Next

\* How a step changes the live rows of a family, L, the refreshes about to
\* add one, I, and its debt.
Moved(L, I, K, J, d, e) ==
  \/ K \subseteq L /\ J \subseteq I /\ d <= e
  \/ \E x, y : x \in L /\ K \subseteq L \ {x} /\ J \subseteq I \union {y} /\ d <= e
  \/ \E y : K \subseteq L /\ J \subseteq I \union {y} /\ d + 1 <= e
  \/ \E x, y : K \subseteq L \union {x} /\ y \in I /\ J \subseteq I \ {y} /\ d <= e

\* Moving a member from one of two sets to the other, or to none, keeps the
\* bound on their sizes; a member more is paid by a debt.
LEMMA Bounded ==
  ASSUME NEW L, NEW I, IsFiniteSet(L), IsFiniteSet(I), NEW K, NEW J, NEW d \in Nat, NEW e \in Nat,
         Cardinality(L) + Cardinality(I) <= 1 + d,
         Moved(L, I, K, J, d, e)
  PROVE  Cardinality(K) + Cardinality(J) <= 1 + e
<1>1. ASSUME NEW S, IsFiniteSet(S), NEW T, T \subseteq S
      PROVE Cardinality(T) \in Nat /\ Cardinality(S) \in Nat /\ Cardinality(T) <= Cardinality(S)
  BY <1>1, FS_Subset, FS_CardinalityType
<1>2. ASSUME NEW S, IsFiniteSet(S), NEW x, NEW T, T \subseteq S \union {x}
      PROVE Cardinality(T) \in Nat /\ Cardinality(S) \in Nat /\ Cardinality(T) <= Cardinality(S) + 1
  <2>1. IsFiniteSet(S \union {x}) /\ Cardinality(S \union {x}) \in {Cardinality(S), Cardinality(S) + 1}
    BY <1>2, FS_AddElement
  <2>2. Cardinality(T) \in Nat /\ Cardinality(T) <= Cardinality(S \union {x})
    BY <1>1, <1>2, <2>1
  <2>3. Cardinality(S) \in Nat
    BY <1>2, FS_CardinalityType
  <2> QED
    BY <2>1, <2>2, <2>3
<1>3. ASSUME NEW S, IsFiniteSet(S), NEW x \in S, NEW T, T \subseteq S \ {x}
      PROVE Cardinality(T) \in Nat /\ Cardinality(S) \in Nat /\ Cardinality(T) <= Cardinality(S) - 1
  <2>1. IsFiniteSet(S \ {x}) /\ Cardinality(S \ {x}) = Cardinality(S) - 1
    BY <1>3, FS_RemoveElement
  <2>2. Cardinality(T) \in Nat /\ Cardinality(T) <= Cardinality(S \ {x})
    BY <1>1, <1>3, <2>1
  <2>3. Cardinality(S) \in Nat
    BY <1>3, FS_CardinalityType
  <2> QED
    BY <2>1, <2>2, <2>3
<1>4. CASE K \subseteq L /\ J \subseteq I /\ d <= e
  <2>1. Cardinality(K) <= Cardinality(L) /\ Cardinality(K) \in Nat /\ Cardinality(L) \in Nat
    BY <1>1, <1>4
  <2>2. Cardinality(J) <= Cardinality(I) /\ Cardinality(J) \in Nat /\ Cardinality(I) \in Nat
    BY <1>1, <1>4
  <2> QED
    BY <1>4, <2>1, <2>2
<1>5. ASSUME NEW x, NEW y, x \in L, K \subseteq L \ {x}, J \subseteq I \union {y}, d <= e
      PROVE Cardinality(K) + Cardinality(J) <= 1 + e
  <2>1. Cardinality(K) <= Cardinality(L) - 1 /\ Cardinality(K) \in Nat /\ Cardinality(L) \in Nat
    BY <1>3, <1>5
  <2>2. Cardinality(J) <= Cardinality(I) + 1 /\ Cardinality(J) \in Nat /\ Cardinality(I) \in Nat
    BY <1>2, <1>5
  <2> QED
    BY <1>5, <2>1, <2>2
<1>6. ASSUME NEW y, K \subseteq L, J \subseteq I \union {y}, d + 1 <= e
      PROVE Cardinality(K) + Cardinality(J) <= 1 + e
  <2>1. Cardinality(K) <= Cardinality(L) /\ Cardinality(K) \in Nat /\ Cardinality(L) \in Nat
    BY <1>1, <1>6
  <2>2. Cardinality(J) <= Cardinality(I) + 1 /\ Cardinality(J) \in Nat /\ Cardinality(I) \in Nat
    BY <1>2, <1>6
  <2> QED
    BY <1>6, <2>1, <2>2
<1>7. ASSUME NEW x, NEW y, K \subseteq L \union {x}, y \in I, J \subseteq I \ {y}, d <= e
      PROVE Cardinality(K) + Cardinality(J) <= 1 + e
  <2>1. Cardinality(K) <= Cardinality(L) + 1 /\ Cardinality(K) \in Nat /\ Cardinality(L) \in Nat
    BY <1>2, <1>7
  <2>2. Cardinality(J) <= Cardinality(I) - 1 /\ Cardinality(J) \in Nat /\ Cardinality(I) \in Nat
    BY <1>3, <1>7
  <2> QED
    BY <1>7, <2>1, <2>2
<1> QED
  BY <1>4, <1>5, <1>6, <1>7 DEF Moved

\* The rows of a family, live, and the refreshes about to add one.
LEMMA RotationKept ==
  ASSUME IInv, NEW f \in Rows, tokens[f].family = f,
         NEW L, L = LiveIn(f), NEW I, I = Issuing(f), NEW K, K = LiveIn(f)', NEW J, J = Issuing(f)',
         NEW d, d = tokens[f].debt, NEW e \in Nat, e = tokens'[f].debt,
         Moved(L, I, K, J, d, e)
  PROVE  Cardinality(LiveIn(f)') + Cardinality(Issuing(f)') <= 1 + tokens'[f].debt
<1>1. Rows = 1..Len(tokens) /\ Len(tokens) \in Nat /\ tokens[f] \in Token
  BY DEF IInv, TypeOK, Rows
<1>2. IsFiniteSet(Rows) /\ LiveIn(f) \subseteq Rows /\ Issuing(f) \subseteq Requests
  BY <1>1, FS_Interval DEF LiveIn, Family, Issuing
<1>3. IsFiniteSet(L) /\ IsFiniteSet(I)
  BY <1>2, FS_Subset
<1>4. d \in Nat /\ Cardinality(L) + Cardinality(I) <= 1 + d
  BY <1>1 DEF IInv, RotationAccounted, Token
<1>5. Cardinality(K) + Cardinality(J) <= 1 + e
  BY <1>3, <1>4, Bounded
<1> QED
  BY <1>5

\* A step that issues nothing, and brings no request to issuing.
LEMMA RotationIdle ==
  ASSUME IInv, [Next]_vars, NEW f \in Rows, tokens'[f].family = f, Rows' = Rows,
         \A q \in Requests : pc'[q] = "issue" => pc[q] = "issue" /\ held'[q] = held[q],
         tokens'[f].debt = tokens[f].debt
  PROVE  Cardinality(LiveIn(f)') + Cardinality(Issuing(f)') <= 1 + tokens'[f].debt
<1> USE DEF IInv
<1>1. tokens[f].family = f /\ tokens[f].debt \in Nat
  <2>1. tokens[f] \in Token
    BY DEF TypeOK, Rows
  <2> QED
    BY <2>1, RowsStay DEF Token
<1>2. LiveIn(f)' \subseteq LiveIn(f)
  BY RowsStay DEF LiveIn, Family
<1>3. \A q \in Requests : pc[q] = "issue" => held[q] \in Rows
  BY DEF HeldKnown, Presenting, Passed, TypeOK
<1>4. Issuing(f)' \subseteq Issuing(f)
  BY <1>3, RowsStay DEF Issuing
<1>5. Moved(LiveIn(f), Issuing(f), LiveIn(f)', Issuing(f)', tokens[f].debt, tokens'[f].debt)
  BY <1>1, <1>2, <1>4 DEF Moved
<1> QED
  BY <1>1, <1>5, RotationKept

\* Rotation.
LEMMA RotationStep == IInv /\ [Next]_vars => RotationAccounted'
<1> SUFFICES ASSUME IInv, [Next]_vars, NEW f \in Rows', tokens'[f].family = f
             PROVE Cardinality(LiveIn(f)') + Cardinality(Issuing(f)') <= 1 + tokens'[f].debt
  BY DEF RotationAccounted
<1> USE DEF IInv
<1>1. /\ \A t \in Rows : tokens[t].debt \in Nat
      /\ \A q \in Requests : pc[q] = "issue" => held[q] \in Rows
  <2>1. \A t \in Rows : tokens[t] \in Token
    BY DEF TypeOK, Rows
  <2> QED
    BY <2>1 DEF HeldKnown, Presenting, Passed, TypeOK, Token
<1>2. ASSUME NEW r \in Requests, NEW b \in Browsers, SignIn(r, b) \/ Refresh(r, b) \/ SignOut(r, b)
      PROVE Cardinality(LiveIn(f)') + Cardinality(Issuing(f)') <= 1 + tokens'[f].debt
  <2>1. /\ \A q \in Requests : pc'[q] = "issue" => pc[q] = "issue" /\ held'[q] = held[q]
        /\ tokens' = tokens
    BY <1>2 DEF SignIn, Refresh, SignOut, Send, TypeOK
  <2>2. Rows' = Rows
    BY <2>1 DEF Rows
  <2> QED
    BY <2>1, <2>2, RotationIdle
<1>3. ASSUME NEW r \in Requests,
             \/ Lookup(r) \/ StatementFails(r) \/ RefreshFails(r) \/ RevokeAllUserTokens(r)
             \/ DropToken(r) \/ Answer(r) \/ AnswerLost(r)
      PROVE Cardinality(LiveIn(f)') + Cardinality(Issuing(f)') <= 1 + tokens'[f].debt
  <2>1. \A q \in Requests : pc'[q] = "issue" => pc[q] = "issue" /\ held'[q] = held[q]
    BY <1>3 DEF Lookup, StatementFails, RefreshFails, RevokeAllUserTokens, DropToken, Answer,
      AnswerLost, Finish, TypeOK
  <2>2. Rows' = Rows /\ \A t \in Rows : tokens'[t].debt = tokens[t].debt
    <3>1. CASE DropToken(r)
      <4>1. pc[r] # "revoke"
        BY <3>1 DEF DropToken
      <4> QED
        BY <3>1, <4>1, TableRevoke
    <3>2. CASE RevokeAllUserTokens(r)
      BY <3>2, TableRevokeAll
    <3>3. CASE tokens' = tokens
      BY <3>3 DEF Rows
    <3> QED
      BY <1>3, <3>1, <3>2, <3>3 DEF Lookup, StatementFails, RefreshFails, Answer, AnswerLost
  <2> QED
    BY <2>1, <2>2, RotationIdle
<1>4. ASSUME NEW r \in Requests, RevokeRefreshToken(r) \/ RevokeFails(r)
      PROVE Cardinality(LiveIn(f)') + Cardinality(Issuing(f)') <= 1 + tokens'[f].debt
  <2> DEFINE g == tokens[held[r]].family
  <2>1. /\ held[r] \in Rows /\ g \in Rows /\ Rows' = Rows
        /\ \A t \in Rows : tokens'[t].debt \in {tokens[t].debt, tokens[t].debt + 1}
    BY <1>4, TableRevoke, TableOwe
  <2>2. /\ pc' = [pc EXCEPT ![r] = "issue"] /\ pc[r] = "revoke" /\ UNCHANGED held
    BY <1>4 DEF RevokeRefreshToken, RevokeFails
  <2>3. /\ f \in Rows /\ tokens[f].family = f /\ tokens[f].debt \in Nat /\ tokens'[f].debt \in Nat
        /\ tokens[f].debt <= tokens'[f].debt
    BY <1>1, <2>1, RowsStay
  <2>4. LiveIn(f)' \subseteq LiveIn(f)
    BY <2>1, RowsStay DEF LiveIn, Family
  <2>5. Issuing(f)' \subseteq Issuing(f) \union (IF g = f THEN {r} ELSE {})
    <3>1. \A q \in Requests : pc'[q] = "issue" => q = r \/ pc[q] = "issue"
      BY <2>2 DEF TypeOK
    <3>2. \A q \in Requests : q = r \/ pc[q] = "issue" => tokens'[held[q]].family = tokens[held[q]].family
      BY <1>1, <2>1, RowsStay
    <3> QED
      BY <2>2, <3>1, <3>2 DEF Issuing
  <2>6. CASE g # f
    BY <2>3, <2>4, <2>5, <2>6, RotationKept DEF Moved
  <2>7. CASE g = f /\ RevokeRefreshToken(r) /\ ~tokens[held[r]].revoked
    <3>1. tokens'[f].debt = tokens[f].debt /\ tokens'[held[r]].revoked
      BY <2>3, <2>7, TableRevoke
    <3>2. held[r] \in LiveIn(f) /\ held[r] \notin LiveIn(f)'
      BY <2>1, <2>7, <3>1 DEF LiveIn, Family
    <3>3. /\ LiveIn(f)' \subseteq LiveIn(f) \ {held[r]}
          /\ Issuing(f)' \subseteq Issuing(f) \union {r}
      BY <2>4, <2>5, <2>7, <3>2
    <3>4. Moved(LiveIn(f), Issuing(f), LiveIn(f)', Issuing(f)', tokens[f].debt, tokens'[f].debt)
      BY <2>3, <3>2, <3>3 DEF Moved
    <3> QED
      BY <2>3, <3>4, RotationKept
  <2>8. CASE g = f /\ (RevokeFails(r) \/ (RevokeRefreshToken(r) /\ tokens[held[r]].revoked))
    <3>1. tokens'[f].debt = tokens[f].debt + 1
      BY <2>2, <2>3, <2>8, TableRevoke, TableOwe
    <3>2. LiveIn(f)' \subseteq LiveIn(f) /\ Issuing(f)' \subseteq Issuing(f) \union {r}
      BY <2>4, <2>5, <2>8
    <3>3. Moved(LiveIn(f), Issuing(f), LiveIn(f)', Issuing(f)', tokens[f].debt, tokens'[f].debt)
      BY <2>3, <3>1, <3>2 DEF Moved
    <3> QED
      BY <2>3, <3>3, RotationKept
  <2> QED
    BY <1>4, <2>6, <2>7, <2>8
<1>5. ASSUME NEW r \in Requests, issueTokenPair(r)
      PROVE Cardinality(LiveIn(f)') + Cardinality(Issuing(f)') <= 1 + tokens'[f].debt
  <2> DEFINE id == Len(tokens) + 1
  <2>1. /\ pc[r] = "issue" => held[r] \in Rows /\ tokens[held[r]].family \in Rows
        /\ Rows' = Rows \union {id} /\ id \notin Rows
        /\ \A t \in Rows : tokens'[t] = tokens[t]
        /\ ~tokens'[id].revoked /\ tokens'[id].debt = 0
        /\ tokens'[id].family = IF pc[r] = "issue" THEN tokens[held[r]].family ELSE id
    BY <1>5, TableIssue
  <2>2. pc' = [pc EXCEPT ![r] = "granted"] /\ held' = [held EXCEPT ![r] = id]
    BY <1>5 DEF issueTokenPair
  <2> HIDE DEF id
  <2>3. \A q \in Requests : pc'[q] = "issue" => q # r /\ pc[q] = "issue" /\ held'[q] = held[q] /\ held[q] \in Rows
    BY <1>1, <2>2 DEF TypeOK
  <2>4. CASE f \in Rows
    <3>1. /\ tokens[f].family = f /\ tokens'[f].debt = tokens[f].debt /\ tokens[f].debt \in Nat
      BY <1>1, <2>1, <2>4
    <3>2. Issuing(f)' \subseteq Issuing(f) \ {r}
      BY <2>1, <2>3 DEF Issuing
    <3>3. LiveIn(f)' \subseteq LiveIn(f) \union (IF r \in Issuing(f) THEN {id} ELSE {})
      BY <2>1, <2>4 DEF LiveIn, Family, Issuing
    <3>4. Moved(LiveIn(f), Issuing(f), LiveIn(f)', Issuing(f)', tokens[f].debt, tokens'[f].debt)
      <4>1. CASE r \in Issuing(f)
        <5>1. /\ LiveIn(f)' \subseteq LiveIn(f) \union {id}
              /\ tokens[f].debt <= tokens'[f].debt
          BY <3>1, <3>3, <4>1
        <5>2. \E x, y : /\ LiveIn(f)' \subseteq LiveIn(f) \union {x}
                       /\ y \in Issuing(f) /\ Issuing(f)' \subseteq Issuing(f) \ {y}
          BY <3>2, <4>1, <5>1
        <5> QED
          BY <5>1, <5>2 DEF Moved
      <4>2. CASE r \notin Issuing(f)
        BY <3>1, <3>2, <3>3, <4>2 DEF Moved
      <4> QED
        BY <4>1, <4>2
    <3> QED
      BY <2>4, <3>1, <3>4, RotationKept
  <2>5. CASE f = id
    <3>1. \A t \in Rows : tokens'[t].family # id
      <4>1. \A t \in Rows : tokens[t].family \in Rows
        BY DEF TypeOK, Rows
      <4> QED
        BY <2>1, <4>1
    <3>2. Issuing(f)' = {}
      BY <2>3, <2>5, <3>1 DEF Issuing
    <3>3. LiveIn(f)' \subseteq {id}
      BY <2>1, <2>5, <3>1 DEF LiveIn, Family
    <3>4. Cardinality(LiveIn(f)') <= 1 /\ Cardinality(LiveIn(f)') \in Nat
      <4>1. IsFiniteSet({id}) /\ Cardinality({id}) = 1
        BY FS_Singleton
      <4>2. IsFiniteSet(LiveIn(f)') /\ Cardinality(LiveIn(f)') <= 1
        BY <3>3, <4>1, FS_Subset
      <4> QED
        BY <4>2, FS_CardinalityType
    <3>5. Cardinality(Issuing(f)') = 0
      BY <3>2, FS_EmptySet
    <3> QED
      BY <2>1, <2>5, <3>4, <3>5
  <2> QED
    BY <2>1, <2>4, <2>5
<1>6. CASE Tick \/ UNCHANGED vars
  <2>1. UNCHANGED <<tokens, pc, held>>
    BY <1>6 DEF Tick, vars
  <2>2. Rows' = Rows
    BY <2>1 DEF Rows
  <2> QED
    BY <2>1, <2>2, RotationIdle
<1> QED
  BY <1>2, <1>3, <1>4, <1>5, <1>6 DEF Next, Handle

\* The inductive invariant.
LEMMA IInvStep == IInv /\ [Next]_vars => IInv'
BY TypeStep, HeldStep, JarsStep, ApartStep, QuietStep, RotationStep, SteadyStep DEF IInv

\* The inductive invariant is one of the specification.
LEMMA IInvHolds == Spec => []IInv
BY IInvInit, IInvStep, PTL DEF Spec

\* The table, the jars and the requests keep their types.
THEOREM SessionTypes == Spec => []TypeOK
<1>1. IInv => TypeOK
  BY DEF IInv
<1> QED
  BY <1>1, IInvHolds, PTL

\* After RevokeAllUserTokens no row of the user is live, and no browser of his
\* is admitted longer than a signed session lasts, until he signs in again or
\* a refresh that had passed the checks before issues its pair.
THEOREM ReuseEnds == Spec => []ReuseEndsSessions
<1>1. IInv => ReuseEndsSessions
  <2> SUFFICES ASSUME IInv, NEW u \in Users, quiet[u] # Never
               PROVE /\ Live(u) = {}
                     /\ \A b \in Browsers : Owner[b] = u /\ VerifyJWT(b) => now <= quiet[u] + AccessTTL
    BY DEF ReuseEndsSessions
  <2>1. Live(u) = {}
    BY DEF IInv, QuietHolds, Live
  <2>2. ASSUME NEW b \in Browsers, Owner[b] = u, VerifyJWT(b)
        PROVE now <= quiet[u] + AccessTTL
    <3>1. jar[b] \in Rows /\ tokens[jar[b]].user = u /\ now <= tokens[jar[b]].born + AccessTTL
      BY <2>2 DEF VerifyJWT, IInv, TypeOK, JarsOwn
    <3>2. tokens[jar[b]] \in Token
      BY <3>1 DEF IInv, TypeOK, Rows
    <3>3. tokens[jar[b]].born \in Nat /\ now \in Nat /\ quiet[u] \in Nat
      BY <3>2 DEF IInv, TypeOK, Token
    <3>4. tokens[jar[b]].born <= quiet[u]
      BY <3>1 DEF IInv, QuietHolds
    <3> QED
      BY <3>1, <3>3, <3>4
  <2> QED
    BY <2>1, <2>2
<1> QED
  BY <1>1, IInvHolds, PTL

\* issueTokenPair and RevokeRefreshToken keep one live row for a sign-in, and
\* one more for each refresh that did not revoke the row it presented.
THEOREM RotationCounts == Spec => []RotationAccounted
<1>1. IInv => RotationAccounted
  BY DEF IInv
<1> QED
  BY <1>1, IInvHolds, PTL

\* The cookie a browser keeps is not that of a revoked row, unless a refresh
\* failed half way, an answer was lost or two requests overlapped.
THEOREM StaysSignedIn == Spec => []SignedInUnlessDisturbed
<1>1. IInv => SignedInUnlessDisturbed
  BY DEF IInv, Steady, Settled, SignedInUnlessDisturbed
<1> QED
  BY <1>1, IInvHolds, PTL
=============================================================================
