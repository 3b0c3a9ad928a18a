--------------------------- MODULE AccountsProofs ---------------------------
(***************************************************************************)
(* The tables of Accounts through any interleaving of sign-ins, of         *)
(* self-hosted starts and of settings updates, for any users, names and    *)
(* failures: nobody gets a second organization, the replicas agree, and    *)
(* nobody is refused or served without cause.                              *)
(***************************************************************************)
EXTENDS Accounts, SequenceTheorems, TLAPS

\* Where a process goes on after a statement whose failure it only logs.
LEMMA AfterLabel == After("member") = "project" /\ After("project") = "key" /\ After("key") = "issue"
BY DEF After

USE AccountsAssumption DEF tables, local, Goto, Fault, None

\* What the steps of HandleUpdate do to the record of a request.
LEMMA EditRecord ==
  ASSUME NEW ids, NEW e \in Edit(ids), NEW b \in BOOLEAN,
         NEW l \in {"idle", "write", "done", "refused", "failed"}
  PROVE  LET moved == [e EXCEPT !.pc = l]
             aged == [e EXCEPT !.stale = @ \/ b]
         IN  /\ moved \in Edit(ids) /\ moved.pc = l
             /\ aged \in Edit(ids) /\ aged.stale = (e.stale \/ b)
             /\ \A d \in {moved, aged} : d.org = e.org /\ d.asks = e.asks /\ d.row = e.row
             /\ moved.stale = e.stale /\ aged.pc = e.pc
BY DEF Edit

\* The inductive invariant holds at the start.
LEMMA IInvInit == Init => IInv
<1> SUFFICES ASSUME Init PROVE IInv
  OBVIOUS
<1>1. TypeOK
  <2>1. Defaults \in [Fields -> Values]
    BY DEF Defaults, Values
  <2> QED
    BY <2>1 DEF Init, TypeOK, Ends, OrgIds, Edit
<1> QED
  <2>1. orgs = <<>> /\ OrgIds = {} /\ members = {} /\ \A p \in Procs : pc[p] = "idle" /\ org[p] = None
    BY DEF Init, OrgIds
  <2>2. \A u \in Updates : edit[u].pc = "idle"
    BY DEF Init
  <2>3. HoldsOrg /\ UniqueSlugs /\ CreatorsApart /\ MembersCreated /\ MadeMember /\ FailedForCause
    BY <2>1
    DEF HoldsOrg, UniqueSlugs, CreatorsApart, Creator, MembersCreated, MadeMember, FailedForCause, Procs
  <2>4. CrowdKnown /\ SeenStill
    BY <2>1 DEF CrowdKnown, SeenStill, Running, Steps
  <2>5. DefaultsFollow /\ RowsKnown
    BY <2>1, <2>2 DEF DefaultsFollow, RowsKnown, Memberships
  <2> QED
    BY <1>1, <2>3, <2>4, <2>5 DEF IInv, Ownership

\* The tables keep their types.
LEMMA TypeStep == IInv /\ [Next]_vars => TypeOK'
<1> SUFFICES ASSUME IInv, [Next]_vars PROVE TypeOK'
  OBVIOUS
<1> USE DEF IInv, Ownership, TypeOK
<1>1. /\ \A p \in Procs : EmailOf(p) \in Emails /\ SlugOf(p) \in Slugs
      /\ Defaults \in [Fields -> Values]
  BY DEF Procs, EmailOf, SlugOf, Emails, Slugs, Defaults, Values
<1>2. ASSUME NEW p \in Procs, NEW label \in {"find", "count"}, Begin(p, label) PROVE TypeOK'
  BY <1>2 DEF Begin, Steps, OrgIds
<1>3. ASSUME NEW p \in Procs, StatementFails(p) \/ Dies(p) PROVE TypeOK'
  <2>1. Skips(p) => After(pc[p]) \in Steps
    BY AfterLabel DEF Skips, Steps
  <2>2. \E l \in Steps \union Ends : pc' = [pc EXCEPT ![p] = l]
    BY <1>3, <2>1 DEF StatementFails, Dies, Ends
  <2>3. pc' \in [Procs -> Steps \union Ends]
    BY <2>2
  <2>4. faults' \in 0..MaxFaults /\ faulted' \in [Procs -> BOOLEAN]
    <3>1. faults < MaxFaults /\ faults' = faults + 1 /\ faulted' = [faulted EXCEPT ![p] = TRUE]
      BY <1>3 DEF StatementFails, Dies
    <3>2. faulted' \in [Procs -> BOOLEAN]
      BY <3>1
    <3> QED
      BY <3>1, <3>2
  <2>5. UNCHANGED <<users, orgs, settings, members, projects, apiKeys, org, crowded, edit>>
    BY <1>3 DEF StatementFails, Dies
  <2>6. edit' \in [Updates -> Edit(OrgIds' \union {None})]
    BY <2>5 DEF OrgIds
  <2> QED
    BY <2>3, <2>4, <2>5, <2>6 DEF OrgIds, Edit
<1>4. ASSUME NEW p \in Procs, CountOrgs(p) \/ FindUser(p) \/ InsertUser(p) \/ Finish(p) PROVE TypeOK'
  BY <1>1, <1>4 DEF CountOrgs, FindUser, InsertUser, Finish, UserFound, Steps, Ends, OrgIds
<1>5. ASSUME NEW p \in Procs, GetOrgByUserID(p) PROVE TypeOK'
  BY <1>5 DEF GetOrgByUserID, Steps, Ends, OrgIds
<1>6. ASSUME NEW p \in Procs, CreateOrg(p) PROVE TypeOK'
  <2>1. CASE UNCHANGED <<orgs, settings, org>>
    BY <1>1, <1>6, <2>1 DEF CreateOrg, Steps, Ends, OrgIds
  <2>2. CASE /\ orgs' = Append(orgs, SlugOf(p)) /\ settings' = Append(settings, Defaults)
             /\ org' = [org EXCEPT ![p] = Len(orgs) + 1]
    <3>1. /\ orgs' \in Seq(Slugs) /\ settings' \in Seq([Fields -> Values])
          /\ Len(settings') = Len(orgs') /\ OrgIds' = OrgIds \union {Len(orgs) + 1}
      BY <1>1, <2>2 DEF OrgIds
    <3>2. /\ org' \in [Procs -> OrgIds' \union {None}] /\ OrgIds \subseteq OrgIds'
      BY <2>2, <3>1
    <3>3. pc' \in [Procs -> Steps \union Ends]
      BY <1>6 DEF CreateOrg, Steps, Ends
    <3>4. edit' = edit /\ edit \in [Updates -> Edit(OrgIds' \union {None})]
      BY <1>6, <3>2 DEF CreateOrg, Edit
    <3> QED
      BY <1>6, <3>1, <3>2, <3>3, <3>4 DEF CreateOrg
  <2> QED
    BY <1>6, <2>1, <2>2 DEF CreateOrg
<1>7. ASSUME NEW p \in Procs, AddOrgMember(p) \/ CreateProject(p) \/ CreateAPIKey(p) PROVE TypeOK'
  <2>1. org[p] \in OrgIds
    BY <1>7 DEF AddOrgMember, CreateProject, CreateAPIKey, HoldsOrg
  <2>2. /\ pc' \in [Procs -> Steps \union Ends]
        /\ UNCHANGED <<users, orgs, settings, org, faulted, crowded, faults, edit>>
    BY <1>7, AfterLabel DEF AddOrgMember, CreateProject, CreateAPIKey, Steps
  <2>3. /\ members' \in {members, members \union {<<org[p], EmailOf(p)>>}}
        /\ projects' \in {projects, projects \union {org[p]}}
        /\ apiKeys' \in {apiKeys, apiKeys \union {org[p]}}
    BY <1>7 DEF AddOrgMember, CreateProject, CreateAPIKey
  <2> QED
    BY <1>1, <2>1, <2>2, <2>3 DEF OrgIds, Edit
<1>8. ASSUME NEW u \in Updates, NEW asks \in Asks, ReadOrg(u, asks) PROVE TypeOK'
  BY <1>8 DEF ReadOrg, Tokens, OrgIds, Edit
<1>9. ASSUME NEW u \in Updates, UpdateOrg(u) PROVE TypeOK'
  <2>1. /\ edit[u].org \in OrgIds /\ edit[u].asks \in Asks
    BY <1>9 DEF UpdateOrg, RowsKnown
  <2>2. UNCHANGED <<users, orgs, members, projects, apiKeys, local>>
    BY <1>9 DEF UpdateOrg
  <2>3. Overlay(edit[u].row, edit[u].asks) \in [Fields -> Values]
    BY <2>1 DEF Overlay, Asks, Edit, Values
  <2>4. settings' \in Seq([Fields -> Values]) /\ Len(settings') = Len(orgs)
    <3>1. settings' \in {settings, [settings EXCEPT ![edit[u].org] = Overlay(edit[u].row, edit[u].asks)]}
      BY <1>9 DEF UpdateOrg
    <3>2. edit[u].org \in 1..Len(settings)
      BY <2>1 DEF OrgIds
    <3> QED
      BY <2>3, <3>1, <3>2, ExceptSeq
  <2>5. edit' \in [Updates -> Edit(OrgIds \union {None})]
    BY <1>9, EditRecord DEF UpdateOrg
  <2> QED
    BY <2>2, <2>4, <2>5 DEF OrgIds, Edit
<1>10. ASSUME NEW u \in Updates, UpdateFails(u) PROVE TypeOK'
  <2>1. edit' = [edit EXCEPT ![u] = [edit[u] EXCEPT !.pc = "failed"]]
    BY <1>10 DEF UpdateFails
  <2>2. edit' \in [Updates -> Edit(OrgIds \union {None})]
    BY <2>1, EditRecord
  <2>3. faults' \in 0..MaxFaults /\ UNCHANGED <<tables, pc, org, faulted, crowded>>
    BY <1>10 DEF UpdateFails
  <2> QED
    BY <2>2, <2>3 DEF OrgIds, Edit
<1>11. CASE UNCHANGED vars
  BY <1>11 DEF vars, OrgIds, Edit
<1> QED
  BY <1>2, <1>3, <1>4, <1>5, <1>6, <1>7, <1>8, <1>9, <1>10, <1>11
  DEF Next, Step, OAuthCallback, Bootstrap, Procs

\* Only the processes bring the administrator's email.
LEMMA Identities ==
  /\ \A l \in Logins : l \notin Replicas /\ EmailOf(l) = Email[l] /\ SlugOf(l) = Slug[l] /\ Email[l] # AdminEmail
  /\ \A p \in Replicas : p \notin Logins /\ EmailOf(p) = AdminEmail /\ SlugOf(p) = AdminSlug
BY DEF EmailOf, SlugOf

\* AddOrgMember: the run that created the organization is the only one
\* that may, so its member is its first.
LEMMA MemberStep ==
  ASSUME IInv, NEW p \in Procs, AddOrgMember(p)
  PROVE Ownership'
<1> DEFINE new == <<org[p], EmailOf(p)>>
<1>1. /\ pc[p] = "member" /\ pc' = [pc EXCEPT ![p] = "project"]
      /\ members' = members \union {new}
      /\ UNCHANGED <<users, orgs, settings, projects, apiKeys, org, faulted, crowded, faults, edit>>
  BY AfterLabel DEF AddOrgMember
<1>2. /\ pc \in [Procs -> Steps \union Ends]
      /\ \A m \in members : m = <<m[1], m[2]>>
  BY DEF IInv, Ownership, TypeOK
<1>3. org[p] # None /\ Creator(p) /\ orgs[org[p]] = SlugOf(p) /\ Memberless(org[p])
  BY <1>1 DEF IInv, Ownership, HoldsOrg, Creator, CreatorsApart
<1>4. \A q \in Procs : Creator(q)' => q # p /\ Creator(q) /\ org[q] # org[p]
  BY <1>1, <1>2, <1>3 DEF Creator, IInv, Ownership, CreatorsApart
<1>5. HoldsOrg' /\ UniqueSlugs' /\ RowsKnown'
  BY <1>1, <1>2, <1>3 DEF IInv, Ownership, HoldsOrg, UniqueSlugs, RowsKnown, OrgIds
<1>6. CreatorsApart'
  BY <1>1, <1>4 DEF IInv, Ownership, CreatorsApart, Memberless
<1>7. MembersCreated'
  BY <1>1, <1>3 DEF IInv, Ownership, MembersCreated, Memberless
<1>8. MadeMember'
  <2> SUFFICES ASSUME NEW q \in Procs, pc'[q] \in {"project", "key", "issue", "done"}
      PROVE \/ <<org[q], EmailOf(q)>> \in members'
            \/ /\ q \in Logins /\ faulted[q] /\ Memberless(org[q])'
               /\ \A r \in Procs : Creator(r)' => org[r] # org[q]
    BY <1>1 DEF MadeMember
  <2>1. CASE q = p
    BY <1>1, <2>1
  <2>2. CASE q # p
    BY <1>1, <1>2, <1>3, <1>4, <2>2 DEF IInv, Ownership, MadeMember, Memberless
  <2> QED
    BY <2>1, <2>2
<1>9. \A q \in Procs : Running(q)' => Running(q)
  BY <1>1, <1>2 DEF Running, Steps
<1>10. CrowdKnown'
  BY <1>1, <1>9 DEF IInv, Ownership, CrowdKnown, SameEmail
<1>11. SeenStill'
  <2> SUFFICES ASSUME NEW q \in Procs, ~crowded[q]
      PROVE /\ pc'[q] = "insert" => EmailOf(q) \notin users
            /\ pc'[q] = "create" /\ q \in Logins => Memberships(EmailOf(q))' = {}
    BY <1>1 DEF SeenStill
  <2>1. pc'[q] \in {"insert", "create"} => q # p /\ pc[q] = pc'[q]
    BY <1>1, <1>2
  <2>2. CASE pc'[q] = "create" /\ q \in Logins /\ EmailOf(p) = EmailOf(q)
    BY <1>1, <2>1, <2>2 DEF IInv, Ownership, CrowdKnown, SameEmail, Running, Steps
  <2> QED
    BY <1>1, <2>1, <2>2 DEF IInv, Ownership, SeenStill, Memberships
<1>12. FailedForCause'
  BY <1>1, <1>2, <1>3, <1>4, Identities DEF IInv, Ownership, FailedForCause, OrgIds, Procs
<1>13. DefaultsFollow'
  <2> SUFFICES ASSUME faults = 0, NEW m \in members', m[2] = AdminEmail
      PROVE \/ m[1] \in projects \intersect apiKeys
            \/ \E q \in Replicas : Completing(q, m[1])'
    BY <1>1 DEF DefaultsFollow, Memberships
  <2>1. CASE m = new
    BY <1>1, <1>2, <2>1, Identities DEF Completing, Procs
  <2>2. CASE m \in members
    BY <1>1, <1>2, <2>2 DEF IInv, Ownership, DefaultsFollow, Memberships, Completing, Procs
  <2> QED
    BY <1>1, <2>1, <2>2
<1> QED
  BY <1>5, <1>6, <1>7, <1>8, <1>10, <1>11, <1>12, <1>13 DEF Ownership

\* CreateOrg: an organization it creates has a slug of its own and nobody in
\* it; a sign-in it refuses finds its slug with somebody else.
LEMMA CreateStep ==
  ASSUME IInv, NEW p \in Procs, CreateOrg(p)
  PROVE Ownership'
<1> USE DEF IInv, Ownership
<1>1. /\ pc \in [Procs -> Steps \union Ends] /\ org \in [Procs -> OrgIds \union {None}]
      /\ members \subseteq OrgIds \X Emails /\ orgs \in Seq(Slugs)
      /\ settings \in Seq([Fields -> Values]) /\ Len(settings) = Len(orgs)
  BY DEF TypeOK
<1>2. /\ pc[p] = "create"
      /\ UNCHANGED <<users, members, projects, apiKeys, faulted, crowded, faults, edit>>
  BY DEF CreateOrg
<1>3. \A q \in Procs : q # p => pc'[q] = pc[q] /\ (Running(q)' <=> Running(q)) /\ org'[q] = org[q]
  BY <1>1 DEF CreateOrg, Running, Steps
<1>4. Running(p) /\ ~Creator(p)
  BY <1>2 DEF Running, Steps, Creator
<1>5. CrowdKnown' /\ SeenStill'
  <2>1. pc'[p] \in {"failed", "member", "find"}
    BY <1>1 DEF CreateOrg
  <2>2. \A q \in Procs : SameEmail(q)' \subseteq SameEmail(q)
    BY <1>3, <1>4 DEF SameEmail
  <2> QED
    BY <1>2, <1>3, <1>4, <2>1, <2>2 DEF CrowdKnown, SeenStill, Memberships
<1>6. DefaultsFollow'
  <2>1. \A q \in Replicas, o \in OrgIds : Completing(q, o) => Completing(q, o)'
    BY <1>2, <1>3 DEF Completing, Procs
  <2> QED
    BY <1>1, <1>2, <2>1 DEF DefaultsFollow, Memberships
<1>7. CASE pc' = [pc EXCEPT ![p] = "failed"] /\ SlugTaken(p) /\ UNCHANGED <<orgs, settings, org>>
  <2>1. \A q \in Procs : Creator(q)' => q # p /\ Creator(q)
    BY <1>1, <1>3, <1>7 DEF Creator
  <2>2. HoldsOrg' /\ UniqueSlugs' /\ CreatorsApart' /\ MembersCreated' /\ MadeMember' /\ RowsKnown'
    BY <1>1, <1>2, <1>7, <2>1 DEF HoldsOrg, UniqueSlugs, CreatorsApart, MembersCreated, MadeMember,
                             RowsKnown, Memberless, OrgIds
  <2>3. FailedForCause'
    <3> SUFFICES ASSUME NEW l \in Logins, pc'[l] = "failed", ~faulted[l], ~crowded[l]
        PROVE \E o \in OrgIds' : /\ orgs'[o] = Slug[l] /\ <<o, Email[l]>> \notin members
                /\ \A q \in Procs : Creator(q)' /\ EmailOf(q) = Email[l] => org'[q] # o
      BY <1>2 DEF FailedForCause
    <3>1. CASE l = p
      <4>1. PICK o \in OrgIds : orgs[o] = Slug[l]
        BY <1>7, <3>1, Identities DEF SlugTaken
      <4>2. <<o, Email[l]>> \notin members
        BY <1>2, <3>1, Identities DEF SeenStill, Memberships
      <4>3. ASSUME NEW q \in Procs, Creator(q)', EmailOf(q) = Email[l] PROVE FALSE
        <5>1. q \in SameEmail(p)
          BY <1>3, <2>1, <3>1, <4>3, Identities DEF SameEmail, Creator, Running, Steps
        <5> QED
          BY <1>4, <3>1, <5>1 DEF CrowdKnown
      <4> QED
        BY <1>7, <4>1, <4>2, <4>3 DEF OrgIds
    <3>2. CASE l # p
      <4>1. PICK o \in OrgIds : /\ orgs[o] = Slug[l] /\ <<o, Email[l]>> \notin members
                /\ \A q \in Procs : Creator(q) /\ EmailOf(q) = Email[l] => org[q] # o
        BY <1>3, <3>2 DEF FailedForCause, Procs
      <4> QED
        BY <1>7, <2>1, <4>1 DEF OrgIds
    <3> QED
      BY <3>1, <3>2
  <2> QED
    BY <1>5, <1>6, <2>2, <2>3
<1>8. CASE /\ ~SlugTaken(p)
           /\ orgs' = Append(orgs, SlugOf(p)) /\ settings' = Append(settings, Defaults)
           /\ org' = [org EXCEPT ![p] = Len(orgs) + 1]
           /\ pc' = [pc EXCEPT ![p] = IF p \in Logins THEN "member" ELSE "find"]
  <2> DEFINE id == Len(orgs) + 1
  <2>1. /\ OrgIds' = OrgIds \union {id} /\ id \notin OrgIds /\ id # None
        /\ orgs'[id] = SlugOf(p) /\ \A o \in OrgIds : orgs'[o] = orgs[o] /\ settings'[o] = settings[o]
    BY <1>1, <1>8 DEF OrgIds
  <2>2. org'[p] = id
    BY <1>1, <1>8
  <2> HIDE DEF id
  <2>3. \A m \in members : m[1] \in OrgIds /\ m[1] # id
    BY <1>1, <2>1
  <2>4. \A q \in Procs : Creator(q)' /\ q # p => Creator(q) /\ org'[q] = org[q] /\ org[q] \in OrgIds
    <3> SUFFICES ASSUME NEW q \in Procs, q # p, Creator(q)'
        PROVE Creator(q) /\ org'[q] = org[q] /\ org[q] \in OrgIds
      OBVIOUS
    <3>1. pc'[q] = pc[q] /\ org'[q] = org[q]
      BY <1>3
    <3> QED
      BY <1>1, <3>1 DEF Creator
  <2>5. HoldsOrg' /\ UniqueSlugs'
    <3>1. HoldsOrg'
      BY <1>1, <1>3, <1>8, <2>1, <2>2 DEF HoldsOrg
    <3>2. UniqueSlugs'
      <4>1. \A o \in OrgIds : orgs'[o] # orgs'[id]
        BY <1>8, <2>1 DEF SlugTaken
      <4>2. \A o, q \in OrgIds : orgs'[o] = orgs'[q] => o = q
        BY <2>1 DEF UniqueSlugs
      <4> QED
        BY <2>1, <4>1, <4>2 DEF UniqueSlugs
    <3> QED
      BY <3>1, <3>2
  <2>6. CreatorsApart'
    BY <1>2, <2>1, <2>2, <2>3, <2>4 DEF CreatorsApart, Memberless
  <2>7. MembersCreated' /\ MadeMember'
    <3>1. MembersCreated'
      BY <1>2, <2>1, <2>3 DEF MembersCreated
    <3>2. \A q \in Procs : pc'[q] \in {"project", "key", "issue", "done"} => q # p /\ org[q] \in OrgIds
      BY <1>1, <1>3, <1>8 DEF HoldsOrg
    <3>3. MadeMember'
      BY <1>2, <1>3, <2>1, <2>2, <2>4, <3>2 DEF MadeMember, Memberless
    <3> QED
      BY <3>1, <3>3
  <2>8. FailedForCause'
    <3> SUFFICES ASSUME NEW l \in Logins, pc'[l] = "failed", ~faulted[l], ~crowded[l]
        PROVE \E o \in OrgIds' : /\ orgs'[o] = Slug[l] /\ <<o, Email[l]>> \notin members
                /\ \A q \in Procs : Creator(q)' /\ EmailOf(q) = Email[l] => org'[q] # o
      BY <1>2 DEF FailedForCause
    <3>1. l # p /\ pc[l] = "failed"
      BY <1>1, <1>3, <1>8 DEF Procs
    <3>2. PICK o \in OrgIds : /\ orgs[o] = Slug[l] /\ <<o, Email[l]>> \notin members
                /\ \A q \in Procs : Creator(q) /\ EmailOf(q) = Email[l] => org[q] # o
      BY <3>1 DEF FailedForCause
    <3> QED
      BY <2>1, <2>2, <2>4, <3>2
  <2>9. RowsKnown'
    BY <1>2, <2>1 DEF RowsKnown
  <2> QED
    BY <1>5, <1>6, <2>5, <2>6, <2>7, <2>8, <2>9
<1> QED
  BY <1>7, <1>8 DEF CreateOrg

\* Begin: a run that starts crowds those of its email that are running.
LEMMA BeginStep ==
  ASSUME IInv, NEW p \in Procs, NEW label \in {"find", "count"}, Begin(p, label),
         label = "count" => p \in Replicas
  PROVE Ownership'
<1> USE DEF IInv, Ownership
<1>1. /\ pc \in [Procs -> Steps \union Ends] /\ org \in [Procs -> OrgIds \union {None}]
      /\ faulted \in [Procs -> BOOLEAN] /\ crowded \in [Procs -> BOOLEAN]
  BY DEF TypeOK
<1>2. /\ pc[p] \in {"idle", "failed"} /\ pc'[p] = label /\ org'[p] = None
      /\ crowded'[p] = (SameEmail(p) # {})
      /\ UNCHANGED <<users, orgs, settings, members, projects, apiKeys, faults, edit>>
  BY <1>1 DEF Begin
<1>3. \A q \in Procs : q # p =>
        /\ pc'[q] = pc[q] /\ org'[q] = org[q] /\ faulted'[q] = faulted[q]
        /\ crowded'[q] = (crowded[q] \/ q \in SameEmail(p))
        /\ Running(q)' = Running(q)
  BY <1>1 DEF Begin, Running
<1>4. \A q \in Procs : Creator(q)' => q # p /\ Creator(q) /\ org'[q] = org[q]
  BY <1>2, <1>3 DEF Creator
<1>5. HoldsOrg'
  BY <1>2, <1>3 DEF HoldsOrg
<1>6. UniqueSlugs' /\ RowsKnown'
  BY <1>2 DEF UniqueSlugs, RowsKnown, OrgIds
<1>7. CreatorsApart' /\ MembersCreated'
  BY <1>2, <1>4 DEF CreatorsApart, MembersCreated, Memberless
<1>8. MadeMember'
  <2>1. \A q \in Procs : pc'[q] \in {"project", "key", "issue", "done"} => q # p /\ pc'[q] = pc[q]
    BY <1>2, <1>3
  <2> QED
    BY <1>2, <1>3, <1>4, <2>1 DEF MadeMember, Memberless
<1>9. CrowdKnown'
  <2> SUFFICES ASSUME NEW q \in Procs, Running(q)', NEW r \in SameEmail(q)' PROVE crowded'[q]
    BY DEF CrowdKnown
  <2>1. r \in Procs /\ r # q /\ Running(r)' /\ EmailOf(r) = EmailOf(q)
    BY DEF SameEmail
  <2>2. CASE q = p
    BY <1>2, <1>3, <2>1, <2>2 DEF SameEmail
  <2>3. CASE q # p /\ r = p
    BY <1>3, <2>1, <2>3 DEF SameEmail
  <2>4. CASE q # p /\ r # p
    BY <1>3, <2>1, <2>4 DEF SameEmail, CrowdKnown
  <2> QED
    BY <2>2, <2>3, <2>4
<1>10. SeenStill'
  BY <1>2, <1>3 DEF SeenStill, Memberships
<1>11. FailedForCause'
  <2> SUFFICES ASSUME NEW l \in Logins, pc'[l] = "failed", ~faulted'[l], ~crowded'[l]
      PROVE \E o \in OrgIds' : /\ orgs'[o] = Slug[l] /\ <<o, Email[l]>> \notin members'
              /\ \A q \in Procs : Creator(q)' /\ EmailOf(q) = Email[l] => org'[q] # o
    BY DEF FailedForCause
  <2>1. l # p /\ l \in Procs
    BY <1>2 DEF Procs
  <2>2. PICK o \in OrgIds : /\ orgs[o] = Slug[l] /\ <<o, Email[l]>> \notin members
              /\ \A q \in Procs : Creator(q) /\ EmailOf(q) = Email[l] => org[q] # o
    BY <1>3, <2>1 DEF FailedForCause
  <2> QED
    BY <1>2, <1>4, <2>2 DEF OrgIds
<1>12. DefaultsFollow'
  <2>1. \A q \in Replicas, o \in OrgIds : Completing(q, o) => Completing(q, o)'
    BY <1>2, <1>3 DEF Completing, Procs
  <2>2. \A m \in members : m[1] \in OrgIds
    BY DEF TypeOK
  <2> QED
    BY <1>2, <2>1, <2>2 DEF DefaultsFollow, Memberships
<1> QED
  BY <1>5, <1>6, <1>7, <1>8, <1>9, <1>10, <1>11, <1>12

\* The steps that only move a run on: failures, deaths, the queries that
\* find no organization, and the end.
LEMMA MoveStep ==
  ASSUME IInv, NEW p \in Procs,
         \/ StatementFails(p) \/ Dies(p) \/ CountOrgs(p) \/ FindUser(p) \/ Finish(p)
  PROVE Ownership'
<1> USE DEF IInv, Ownership
<1>1. /\ pc \in [Procs -> Steps \union Ends] /\ org \in [Procs -> OrgIds \union {None}]
      /\ faulted \in [Procs -> BOOLEAN]
  BY DEF TypeOK
<1>2. UNCHANGED <<users, orgs, settings, members, projects, apiKeys, org, crowded, edit>>
  BY DEF StatementFails, Dies, CountOrgs, FindUser, Finish
<1>3. \A q \in Procs : q # p => pc'[q] = pc[q] /\ faulted'[q] = faulted[q]
  BY <1>1 DEF StatementFails, Dies, CountOrgs, FindUser, Finish
<1>4. \/ /\ pc[p] \in {"member", "project", "key"} /\ pc'[p] = After(pc[p])
         /\ pc[p] = "member" => p \in Logins
         /\ faulted'[p] /\ faults' # 0
      \/ pc'[p] = "failed" /\ faulted'[p] /\ faults' # 0
      \/ pc[p] = "count" /\ pc'[p] \in {"create", "find"} /\ UNCHANGED <<faulted, faults>>
      \/ /\ pc[p] = "find" /\ pc'[p] \in {"insert", "lookup", "member"}
         /\ pc'[p] = "insert" => EmailOf(p) \notin users
         /\ pc'[p] = "member" => org[p] # None
         /\ UNCHANGED <<faulted, faults>>
      \/ pc[p] = "issue" /\ pc'[p] = "done" /\ UNCHANGED <<faulted, faults>>
  <2>1. CASE StatementFails(p) \/ Dies(p)
    <3>1. pc'[p] = "failed" \/ (Skips(p) /\ pc'[p] = After(pc[p]))
      BY <1>1, <2>1 DEF StatementFails, Dies
    <3>2. faulted'[p] /\ faults' # 0
      BY <1>1, <2>1 DEF StatementFails, Dies, TypeOK
    <3> QED
      BY <3>1, <3>2 DEF Skips
  <2>2. CASE CountOrgs(p)
    BY <1>1, <2>2 DEF CountOrgs
  <2>3. CASE FindUser(p)
    BY <1>1, <2>3 DEF FindUser, UserFound
  <2>4. CASE Finish(p)
    BY <1>1, <2>4 DEF Finish
  <2> QED
    BY <2>1, <2>2, <2>3, <2>4
<1>5. \A q \in Procs : Creator(q)' => Creator(q)
  BY <1>2, <1>3, <1>4, AfterLabel DEF Creator, HoldsOrg
<1>6. HoldsOrg' /\ UniqueSlugs' /\ RowsKnown'
  BY <1>2, <1>3, <1>4, AfterLabel DEF HoldsOrg, UniqueSlugs, RowsKnown, OrgIds
<1>7. CreatorsApart' /\ MembersCreated'
  BY <1>2, <1>5 DEF CreatorsApart, MembersCreated, Memberless
<1>8. MadeMember'
  <2> SUFFICES ASSUME NEW q \in Procs, pc'[q] \in {"project", "key", "issue", "done"}
      PROVE \/ <<org[q], EmailOf(q)>> \in members
            \/ /\ q \in Logins /\ faulted'[q] /\ Memberless(org[q])
               /\ \A r \in Procs : Creator(r)' => org[r] # org[q]
    BY <1>2 DEF MadeMember, Memberless
  <2>1. CASE q # p
    BY <1>3, <1>5, <2>1 DEF MadeMember
  <2>2. CASE q = p /\ pc[p] # "member"
    BY <1>4, <1>5, <2>2, AfterLabel DEF MadeMember
  <2>3. CASE q = p /\ pc[p] = "member"
    <3>1. /\ p \in Logins /\ faulted'[p] /\ ~Creator(p)'
      BY <1>4, <2>3, AfterLabel DEF Creator
    <3>2. Creator(p)
      BY <2>3 DEF Creator, HoldsOrg
    <3> QED
      BY <1>5, <2>3, <3>1, <3>2 DEF CreatorsApart
  <2> QED
    BY <2>1, <2>2, <2>3
<1>9. \A q \in Procs : Running(q)' => Running(q)
  <2>1. pc'[p] \in Steps => pc[p] \in Steps
    BY <1>4 DEF Steps
  <2> QED
    BY <1>3, <2>1 DEF Running
<1>10. CrowdKnown'
  BY <1>2, <1>9 DEF CrowdKnown, SameEmail
<1>11. SeenStill'
  BY <1>2, <1>3, <1>4, AfterLabel, Identities DEF SeenStill, HoldsOrg, Memberships
<1>12. FailedForCause'
  <2> SUFFICES ASSUME NEW l \in Logins, pc'[l] = "failed", ~faulted'[l], ~crowded'[l]
      PROVE \E o \in OrgIds' : /\ orgs'[o] = Slug[l] /\ <<o, Email[l]>> \notin members'
              /\ \A q \in Procs : Creator(q)' /\ EmailOf(q) = Email[l] => org'[q] # o
    BY DEF FailedForCause
  <2>1. l # p /\ l \in Procs
    BY <1>4, AfterLabel DEF Procs
  <2>2. PICK o \in OrgIds : /\ orgs[o] = Slug[l] /\ <<o, Email[l]>> \notin members
              /\ \A q \in Procs : Creator(q) /\ EmailOf(q) = Email[l] => org[q] # o
    BY <1>2, <1>3, <2>1 DEF FailedForCause
  <2> QED
    BY <1>2, <1>5, <2>2 DEF OrgIds
<1>13. DefaultsFollow'
  <2>1. faults' = 0 => faults = 0 /\ pc[p] \notin {"project", "key"}
    BY <1>4
  <2>2. \A q \in Replicas, o \in OrgIds : faults' = 0 /\ Completing(q, o) => Completing(q, o)'
    BY <1>2, <1>3, <2>1 DEF Completing, Procs
  <2>3. \A m \in members : m[1] \in OrgIds
    BY DEF TypeOK
  <2> QED
    BY <1>2, <2>1, <2>2, <2>3 DEF DefaultsFollow, Memberships
<1> QED
  BY <1>6, <1>7, <1>8, <1>10, <1>11, <1>12, <1>13

\* InsertUser is refused only if a run for the same email overlapped.
LEMMA InsertUserStep ==
  ASSUME IInv, NEW p \in Procs, InsertUser(p)
  PROVE Ownership'
<1> USE DEF IInv, Ownership
<1>1. /\ pc \in [Procs -> Steps \union Ends]
      /\ pc[p] = "insert" /\ users' = users \union {EmailOf(p)}
      /\ UNCHANGED <<orgs, settings, members, projects, apiKeys, org, faulted, crowded, faults, edit>>
  BY DEF InsertUser, TypeOK
<1>2. /\ \A q \in Procs : q # p => pc'[q] = pc[q]
      /\ pc'[p] = IF EmailOf(p) \in users THEN "failed" ELSE UserFound(p)
  BY <1>1 DEF InsertUser
<1>3. pc'[p] \in {"failed", "lookup", "member"} /\ (pc'[p] = "member" => org[p] # None)
  BY <1>2 DEF UserFound
<1>4. \A q \in Procs : (Creator(q)' => Creator(q)) /\ (Running(q)' => Running(q))
  BY <1>1, <1>2, <1>3 DEF Creator, Running, Steps
<1>5. HoldsOrg' /\ UniqueSlugs' /\ RowsKnown'
  BY <1>1, <1>2, <1>3 DEF HoldsOrg, UniqueSlugs, RowsKnown, OrgIds
<1>6. CreatorsApart' /\ MembersCreated'
  BY <1>1, <1>4 DEF CreatorsApart, MembersCreated, Memberless
<1>7. MadeMember' /\ CrowdKnown'
  BY <1>1, <1>2, <1>3, <1>4 DEF MadeMember, Memberless, CrowdKnown, SameEmail
<1>8. SeenStill'
  <2> SUFFICES ASSUME NEW q \in Procs, ~crowded[q]
      PROVE /\ pc'[q] = "insert" => EmailOf(q) \notin users'
            /\ pc'[q] = "create" /\ q \in Logins => Memberships(EmailOf(q)) = {}
    BY <1>1 DEF SeenStill, Memberships
  <2>1. CASE q = p
    BY <1>3, <2>1
  <2>2. CASE q # p /\ pc[q] = "insert" /\ EmailOf(q) = EmailOf(p)
    BY <1>1, <2>2 DEF CrowdKnown, SameEmail, Running, Steps
  <2> QED
    BY <1>1, <1>2, <2>1, <2>2 DEF SeenStill
<1>9. FailedForCause'
  <2> SUFFICES ASSUME NEW l \in Logins, pc'[l] = "failed", ~faulted[l], ~crowded[l]
      PROVE \E o \in OrgIds' : /\ orgs'[o] = Slug[l] /\ <<o, Email[l]>> \notin members'
              /\ \A q \in Procs : Creator(q)' /\ EmailOf(q) = Email[l] => org'[q] # o
    BY <1>1 DEF FailedForCause
  <2>1. l # p /\ l \in Procs
    BY <1>1, <1>2, <1>3 DEF SeenStill, UserFound, Procs
  <2>2. PICK o \in OrgIds : /\ orgs[o] = Slug[l] /\ <<o, Email[l]>> \notin members
              /\ \A q \in Procs : Creator(q) /\ EmailOf(q) = Email[l] => org[q] # o
    BY <1>2, <2>1 DEF FailedForCause
  <2> QED
    BY <1>1, <1>4, <2>2 DEF OrgIds
<1>10. DefaultsFollow'
  BY <1>1, <1>2, <1>3 DEF DefaultsFollow, Memberships, Completing, Procs
<1> QED
  BY <1>5, <1>6, <1>7, <1>8, <1>9, <1>10

\* GetOrgByUserID finds an organization the user is a member of, or knows
\* that there is none.
LEMMA LookupStep ==
  ASSUME IInv, NEW p \in Procs, GetOrgByUserID(p)
  PROVE Ownership'
<1> USE DEF IInv, Ownership
<1>1. /\ pc \in [Procs -> Steps \union Ends] /\ org \in [Procs -> OrgIds \union {None}]
      /\ orgs \in Seq(Slugs) /\ members \subseteq OrgIds \X Emails
      /\ pc[p] = "lookup"
      /\ UNCHANGED <<users, orgs, settings, members, projects, apiKeys, faulted, crowded, faults, edit>>
  BY DEF GetOrgByUserID, TypeOK
<1>2. \A q \in Procs : q # p => pc'[q] = pc[q] /\ org'[q] = org[q]
  BY <1>1 DEF GetOrgByUserID
<1>3. \/ /\ pc'[p] = "issue" /\ org'[p] \in OrgIds /\ org'[p] # None
         /\ <<org'[p], EmailOf(p)>> \in members
      \/ pc'[p] = "create" /\ p \in Logins /\ Memberships(EmailOf(p)) = {}
      \/ pc'[p] = "failed" /\ p \notin Logins
  <2> DEFINE mine == {o \in OrgIds : <<o, EmailOf(p)>> \in members}
  <2>1. \A o \in OrgIds : o # None
    BY <1>1 DEF OrgIds
  <2>2. ASSUME mine = {} PROVE Memberships(EmailOf(p)) = {}
    BY <1>1, <2>2 DEF Memberships
  <2> QED
    BY <1>1, <2>1, <2>2 DEF GetOrgByUserID
<1>4. \A q \in Procs : /\ Creator(q)' => q # p /\ Creator(q) /\ org'[q] = org[q]
                       /\ Running(q)' => Running(q)
  BY <1>1, <1>2, <1>3 DEF Creator, Running, Steps
<1>5. HoldsOrg' /\ UniqueSlugs' /\ RowsKnown'
  BY <1>1, <1>2, <1>3 DEF HoldsOrg, UniqueSlugs, RowsKnown, OrgIds
<1>6. CreatorsApart' /\ MembersCreated'
  BY <1>1, <1>4 DEF CreatorsApart, MembersCreated, Memberless
<1>7. MadeMember'
  <2> SUFFICES ASSUME NEW q \in Procs, pc'[q] \in {"project", "key", "issue", "done"}
      PROVE \/ <<org'[q], EmailOf(q)>> \in members
            \/ /\ q \in Logins /\ faulted[q] /\ Memberless(org'[q])
               /\ \A r \in Procs : Creator(r)' => org'[r] # org'[q]
    BY <1>1 DEF MadeMember, Memberless
  <2>1. CASE q = p
    BY <1>3, <2>1
  <2>2. CASE q # p
    BY <1>2, <1>4, <2>2 DEF MadeMember, Memberless
  <2> QED
    BY <2>1, <2>2
<1>8. CrowdKnown'
  BY <1>1, <1>4 DEF CrowdKnown, SameEmail
<1>9. SeenStill'
  BY <1>1, <1>2, <1>3 DEF SeenStill, Memberships
<1>10. FailedForCause'
  <2> SUFFICES ASSUME NEW l \in Logins, pc'[l] = "failed", ~faulted[l], ~crowded[l]
      PROVE \E o \in OrgIds' : /\ orgs'[o] = Slug[l] /\ <<o, Email[l]>> \notin members'
              /\ \A q \in Procs : Creator(q)' /\ EmailOf(q) = Email[l] => org'[q] # o
    BY <1>1 DEF FailedForCause
  <2>1. l # p /\ l \in Procs
    BY <1>3 DEF Procs
  <2>2. PICK o \in OrgIds : /\ orgs[o] = Slug[l] /\ <<o, Email[l]>> \notin members
              /\ \A q \in Procs : Creator(q) /\ EmailOf(q) = Email[l] => org[q] # o
    BY <1>2, <2>1 DEF FailedForCause
  <2> QED
    BY <1>1, <1>4, <2>2 DEF OrgIds
<1>11. DefaultsFollow'
  <2>1. \A q \in Replicas, o \in OrgIds : Completing(q, o) => Completing(q, o)'
    BY <1>1, <1>2 DEF Completing, Procs
  <2>2. \A m \in members : m[1] \in OrgIds
    BY <1>1
  <2> QED
    BY <1>1, <2>1, <2>2 DEF DefaultsFollow, Memberships
<1> QED
  BY <1>5, <1>6, <1>7, <1>8, <1>9, <1>10, <1>11

\* CreateProject and CreateAPIKey complete the organization their run holds.
LEMMA DefaultsStep ==
  ASSUME IInv, NEW p \in Procs, CreateProject(p) \/ CreateAPIKey(p)
  PROVE Ownership'
<1> USE DEF IInv, Ownership
<1>1. /\ pc \in [Procs -> Steps \union Ends]
      /\ UNCHANGED <<users, orgs, settings, members, org, faulted, crowded, faults, edit>>
      /\ projects \subseteq projects' /\ apiKeys \subseteq apiKeys'
  BY DEF CreateProject, CreateAPIKey, TypeOK
<1>2. /\ \A q \in Procs : q # p => pc'[q] = pc[q]
      /\ \/ pc[p] = "project" /\ pc'[p] = "key" /\ org[p] \in projects'
         \/ pc[p] = "key" /\ pc'[p] = "issue" /\ org[p] \in apiKeys'
  BY <1>1, AfterLabel DEF CreateProject, CreateAPIKey
<1>3. \A q \in Procs : (Creator(q)' => Creator(q)) /\ (Running(q)' => Running(q))
  BY <1>1, <1>2 DEF Creator, Running, Steps
<1>4. HoldsOrg' /\ UniqueSlugs' /\ RowsKnown'
  BY <1>1, <1>2 DEF HoldsOrg, UniqueSlugs, RowsKnown, OrgIds
<1>5. CreatorsApart' /\ MembersCreated'
  BY <1>1, <1>3 DEF CreatorsApart, MembersCreated, Memberless
<1>6. MadeMember' /\ CrowdKnown' /\ SeenStill'
  BY <1>1, <1>2, <1>3 DEF MadeMember, Memberless, CrowdKnown, SameEmail, SeenStill, Memberships
<1>7. FailedForCause'
  <2> SUFFICES ASSUME NEW l \in Logins, pc'[l] = "failed", ~faulted[l], ~crowded[l]
      PROVE \E o \in OrgIds' : /\ orgs'[o] = Slug[l] /\ <<o, Email[l]>> \notin members'
              /\ \A q \in Procs : Creator(q)' /\ EmailOf(q) = Email[l] => org'[q] # o
    BY <1>1 DEF FailedForCause
  <2>1. PICK o \in OrgIds : /\ orgs[o] = Slug[l] /\ <<o, Email[l]>> \notin members
              /\ \A q \in Procs : Creator(q) /\ EmailOf(q) = Email[l] => org[q] # o
    BY <1>2 DEF FailedForCause, Procs
  <2> QED
    BY <1>1, <1>3, <2>1 DEF OrgIds
<1>8. DefaultsFollow'
  <2> SUFFICES ASSUME faults = 0, NEW m \in Memberships(AdminEmail)
      PROVE m[1] \in projects' \intersect apiKeys' \/ \E q \in Replicas : Completing(q, m[1])'
    BY <1>1 DEF DefaultsFollow, Memberships
  <2>1. CASE m[1] \in projects \intersect apiKeys
    BY <1>1, <2>1
  <2>2. ASSUME NEW q \in Replicas, Completing(q, m[1])
        PROVE m[1] \in projects' \intersect apiKeys' \/ Completing(q, m[1])'
    BY <1>1, <1>2, <2>2 DEF Completing, Procs
  <2> QED
    BY <2>1, <2>2 DEF DefaultsFollow
<1> QED
  BY <1>4, <1>5, <1>6, <1>7, <1>8

\* HandleUpdate: whoever writes a row makes what the others read of it stale.
LEMMA UpdateStep ==
  ASSUME IInv, NEW u \in Updates,
         UpdateOrg(u) \/ UpdateFails(u) \/ \E asks \in Asks : ReadOrg(u, asks)
  PROVE Ownership'
<1> USE DEF IInv, Ownership
<1>1. /\ UNCHANGED <<users, orgs, members, projects, apiKeys, pc, org, faulted, crowded>>
      /\ faults' = faults \/ faults' # 0
  BY DEF UpdateOrg, UpdateFails, ReadOrg, TypeOK
<1>2. HoldsOrg' /\ UniqueSlugs' /\ CreatorsApart'
  BY <1>1 DEF HoldsOrg, UniqueSlugs, CreatorsApart, Creator, Memberless, OrgIds
<1>3. MembersCreated' /\ MadeMember'
  BY <1>1 DEF MembersCreated, MadeMember, Creator, Memberless
<1>4. CrowdKnown' /\ SeenStill'
  BY <1>1 DEF CrowdKnown, Running, SameEmail, SeenStill, Memberships
<1>5. FailedForCause' /\ DefaultsFollow'
  BY <1>1 DEF FailedForCause, Creator, OrgIds, DefaultsFollow, Memberships, Completing
<1>6. edit \in [Updates -> Edit(OrgIds \union {None})]
  BY DEF TypeOK
<1>7. RowsKnown'
  <2>1. CASE UpdateOrg(u)
    <3> SUFFICES ASSUME NEW v \in Updates, edit'[v].pc = "write"
        PROVE /\ edit'[v].org \in OrgIds /\ edit'[v].asks \in Asks
              /\ edit'[v].stale \/ edit'[v].row = settings'[edit'[v].org]
      BY <1>1 DEF RowsKnown, OrgIds
    <3> DEFINE written == Valid(edit[u].asks)
               hit == written /\ edit[v].pc = "write" /\ edit[v].org = edit[u].org
    <3>1. PICK l \in {"done", "refused"} : edit'[u] = [edit[u] EXCEPT !.pc = l]
      BY <2>1 DEF UpdateOrg
    <3>2. v # u
      <4>1. [edit[u] EXCEPT !.pc = l].pc = l
        BY <1>6 DEF Edit
      <4> QED
        BY <3>1, <4>1
    <3>3. edit'[v] = [edit[v] EXCEPT !.stale = @ \/ hit]
      BY <2>1, <3>2 DEF UpdateOrg
    <3>4. /\ edit'[v].org = edit[v].org /\ edit'[v].asks = edit[v].asks
          /\ edit'[v].row = edit[v].row /\ edit'[v].pc = edit[v].pc
          /\ edit'[v].stale = (edit[v].stale \/ hit)
      <4> HIDE DEF hit
      <4>1. hit \in BOOLEAN
        BY DEF hit
      <4> QED
        BY <1>6, <3>3, <4>1, EditRecord
    <3>5. settings' = IF written THEN [settings EXCEPT ![edit[u].org] = Overlay(edit[u].row, edit[u].asks)]
                      ELSE settings
      BY <2>1 DEF UpdateOrg
    <3>6. \/ hit
          \/ settings'[edit[v].org] = settings[edit[v].org]
      <4>1. edit[v].org \in OrgIds /\ OrgIds = DOMAIN settings
        BY <3>4 DEF RowsKnown, TypeOK, OrgIds
      <4> QED
        BY <3>4, <3>5, <4>1
    <3> QED
      BY <3>4, <3>6 DEF RowsKnown
  <2>2. CASE UpdateFails(u)
    <3>1. edit' = [edit EXCEPT ![u] = [edit[u] EXCEPT !.pc = "failed"]] /\ settings' = settings
      BY <2>2 DEF UpdateFails
    <3>2. \A v \in Updates : edit'[v].pc = "write" => edit'[v] = edit[v]
      BY <1>6, <3>1, EditRecord
    <3> QED
      BY <1>1, <3>1, <3>2 DEF RowsKnown, OrgIds
  <2>3. ASSUME NEW asks \in Asks, ReadOrg(u, asks) PROVE RowsKnown'
    <3>1. PICK o \in Tokens : /\ edit' = [edit EXCEPT ![u] = [pc |-> "write", org |-> o, asks |-> asks,
                                    row |-> settings[o], stale |-> FALSE]]
                              /\ settings' = settings
      BY <2>3 DEF ReadOrg
    <3>2. o \in OrgIds
      BY DEF Tokens, TypeOK
    <3> QED
      BY <1>1, <1>6, <3>1, <3>2 DEF RowsKnown, OrgIds
  <2> QED
    BY <2>1, <2>2, <2>3
<1> QED
  BY <1>2, <1>3, <1>4, <1>5, <1>7

\* Every step preserves the inductive invariant.
LEMMA IInvStep == IInv /\ [Next]_vars => IInv'
<1> SUFFICES ASSUME IInv, [Next]_vars PROVE IInv'
  OBVIOUS
<1>1. TypeOK'
  BY TypeStep
<1>2. Ownership'
  <2>1. CASE UNCHANGED vars
    BY <2>1 DEF IInv, Ownership, vars, HoldsOrg, UniqueSlugs, CreatorsApart, MembersCreated, MadeMember,
         CrowdKnown, SeenStill, FailedForCause, DefaultsFollow, RowsKnown, Creator, Memberless,
         Memberships, Completing, Running, SameEmail, OrgIds
  <2>2. ASSUME NEW l \in Logins, OAuthCallback(l) PROVE Ownership'
    BY <2>2, BeginStep DEF OAuthCallback, Procs
  <2>3. ASSUME NEW p \in Replicas, Bootstrap(p) PROVE Ownership'
    BY <2>3, BeginStep DEF Bootstrap, Procs
  <2>4. ASSUME NEW p \in Procs, Step(p) \/ StatementFails(p) \/ Dies(p) PROVE Ownership'
    BY <2>4, MoveStep, InsertUserStep, LookupStep, CreateStep, MemberStep, DefaultsStep DEF Step
  <2> QED
    BY <2>1, <2>2, <2>3, <2>4, UpdateStep DEF Next
<1> QED
  BY <1>1, <1>2 DEF IInv

\* The inductive invariant is one of the specification.
LEMMA Invariance == Spec => []IInv
BY IInvInit, IInvStep, PTL DEF Spec

\* Whatever sign-ins, bootstraps and updates interleave, fail and repeat, the
\* tables and the processes keep their types: no row refers to an
\* organization that does not exist.
THEOREM AccountsTypes == Spec => []TypeOK
<1>1. IInv => TypeOK
  BY DEF IInv
<1> QED
  BY <1>1, Invariance, PTL

\* Without a transaction around them, the statements of HandleOAuthCallback
\* and bootstrapSelfHosted never put two users into one organization, nor a
\* user whose sign-ins bring one name into two.
THEOREM UsersApart == Spec => []OneOrgPerUser
<1>1. ASSUME IInv, NEW m \in members, NEW n \in members, m[2] = n[2], OneName(m[2]) PROVE m = n
  <2> USE <1>1 DEF IInv, Ownership
  <2>1. PICK p \in Procs : EmailOf(p) = m[2] /\ orgs[m[1]] = SlugOf(p)
    BY DEF MembersCreated
  <2>2. PICK q \in Procs : EmailOf(q) = n[2] /\ orgs[n[1]] = SlugOf(q)
    BY DEF MembersCreated
  <2>3. SlugOf(p) = SlugOf(q)
    BY <2>1, <2>2, Identities DEF Procs, OneName
  <2>4. m[1] \in OrgIds /\ n[1] \in OrgIds
    BY DEF TypeOK
  <2> QED
    BY <2>1, <2>2, <2>3, <2>4 DEF UniqueSlugs, MembersCreated
<1>2. IInv => OneOrgPerUser
  BY <1>1 DEF IInv, Ownership, MembersCreated, OneOrgPerUser
<1> QED
  BY <1>2, Invariance, PTL

\* All processes in autologin mode serve one organization, the administrator's.
THEOREM ReplicasServeOne == Spec => []ReplicasAgree
<1>1. ASSUME IInv, NEW p \in Replicas, NEW q \in Replicas, pc[p] = "done", pc[q] = "done"
      PROVE org[p] = org[q] /\ <<org[p], AdminEmail>> \in members
  <2> USE <1>1 DEF IInv, Ownership
  <2>1. \A r \in {p, q} : <<org[r], AdminEmail>> \in members
    BY Identities DEF MadeMember, Procs
  <2>2. \A o \in OrgIds : <<o, AdminEmail>> \in members => orgs[o] = AdminSlug
    <3> SUFFICES ASSUME NEW o \in OrgIds, <<o, AdminEmail>> \in members PROVE orgs[o] = AdminSlug
      OBVIOUS
    <3>1. PICK r \in Procs : EmailOf(r) = AdminEmail /\ orgs[o] = SlugOf(r)
      BY DEF MembersCreated
    <3> QED
      BY <3>1, Identities DEF Procs
  <2>3. org[p] \in OrgIds /\ org[q] \in OrgIds
    BY <2>1 DEF TypeOK
  <2> QED
    BY <2>1, <2>2, <2>3 DEF UniqueSlugs
<1>2. IInv => ReplicasAgree
  BY <1>1 DEF ReplicasAgree
<1> QED
  BY <1>2, Invariance, PTL

\* A sign-in without a failure, an overlapping run or a foreign slug succeeds.
THEOREM RefusalsHaveCause == Spec => []RefusedForCause
<1>1. IInv => RefusedForCause
  BY DEF IInv, Ownership, FailedForCause, RefusedForCause
<1> QED
  BY <1>1, Invariance, PTL

\* No session opens an organization of another user.
THEOREM SessionsOpenOwn == Spec => []SessionIsOwn
<1>1. ASSUME IInv, NEW l \in Logins, pc[l] = "done"
      PROVE LET mine == {m \in members : m[1] = org[l]}
            IN mine = {<<org[l], Email[l]>>} \/ (faulted[l] /\ mine = {})
  <2> USE <1>1 DEF IInv, Ownership
  <2>1. CASE <<org[l], Email[l]>> \in members
    BY <2>1 DEF MembersCreated
  <2>2. CASE faulted[l] /\ Memberless(org[l])
    BY <2>2 DEF Memberless
  <2> QED
    BY <2>1, <2>2, Identities DEF MadeMember, Procs
<1>2. IInv => SessionIsOwn
  BY <1>1 DEF SessionIsOwn
<1> QED
  BY <1>2, Invariance, PTL

\* Without failures, a process serves only when the defaults exist or are
\* being created.
THEOREM BootstrapCompletes == Spec => []BootstrapEnsures
<1>1. ASSUME IInv, NEW p \in Replicas, pc[p] = "done", faults = 0
      PROVE \/ org[p] \in projects \intersect apiKeys
            \/ \E q \in Replicas : pc[q] \in {"project", "key"} /\ org[q] = org[p]
  <2> USE <1>1 DEF IInv, Ownership
  <2>1. <<org[p], AdminEmail>> \in Memberships(AdminEmail)
    BY Identities DEF MadeMember, Memberships, Procs
  <2> QED
    BY <2>1 DEF DefaultsFollow, Completing
<1>2. IInv => BootstrapEnsures
  BY <1>1 DEF BootstrapEnsures
<1> QED
  BY <1>2, Invariance, PTL

\* HandleUpdate reverts a column it was not asked to change only if another
\* update came between its read and its write.
THEOREM UpdatesKeepTheRest == Spec => UntouchedUnlessOverlapped
<1> DEFINE Kept ==
      \A u \in Updates : edit[u].pc = "write" /\ edit'[u].pc = "done" /\ ~edit[u].stale =>
        \A f \in Fields \ DOMAIN edit[u].asks :
          settings'[edit[u].org][f] = settings[edit[u].org][f]
<1>1. ASSUME IInv, Next, NEW u \in Updates,
             edit[u].pc = "write", edit'[u].pc = "done", ~edit[u].stale
      PROVE \A f \in Fields \ DOMAIN edit[u].asks :
              settings'[edit[u].org][f] = settings[edit[u].org][f]
  <2> USE <1>1 DEF IInv, Ownership
  <2>1. edit \in [Updates -> Edit(OrgIds \union {None})]
    BY DEF TypeOK
  <2>2. PICK v \in Updates : UpdateOrg(v) \/ UpdateFails(v) \/ \E asks \in Asks : ReadOrg(v, asks)
    <3>1. ASSUME NEW p \in Procs, Step(p) PROVE edit' = edit
      BY <3>1 DEF Step, CountOrgs, FindUser, InsertUser, GetOrgByUserID, CreateOrg, AddOrgMember,
                  CreateProject, CreateAPIKey, Finish
    <3> QED
      BY <3>1 DEF Next, OAuthCallback, Bootstrap, Begin, StatementFails, Dies
  <2>3. v = u
    <3>1. ASSUME v # u PROVE FALSE
      <4>1. edit'[u] = edit[u] \/ \E b \in BOOLEAN : edit'[u] = [edit[u] EXCEPT !.stale = @ \/ b]
        <5>1. CASE UpdateOrg(v)
          <6> DEFINE hit == Valid(edit[v].asks) /\ edit[u].pc = "write" /\ edit[u].org = edit[v].org
          <6>1. edit'[u] = [edit[u] EXCEPT !.stale = @ \/ hit] /\ hit \in BOOLEAN
            BY <3>1, <5>1 DEF UpdateOrg
          <6> QED
            BY <6>1
        <5>2. CASE UpdateFails(v)
          BY <2>1, <3>1, <5>2 DEF UpdateFails
        <5>3. ASSUME NEW asks \in Asks, ReadOrg(v, asks) PROVE edit'[u] = edit[u]
          BY <2>1, <3>1, <5>3 DEF ReadOrg
        <5> QED
          BY <2>2, <5>1, <5>2, <5>3
      <4>2. \A b \in BOOLEAN : [edit[u] EXCEPT !.stale = @ \/ b].pc = edit[u].pc
        BY <2>1 DEF Edit
      <4> QED
        BY <4>1, <4>2
    <3> QED
      BY <3>1
  <2>4. ~UpdateFails(u) /\ ~\E asks \in Asks : ReadOrg(u, asks)
    <3>1. [edit[u] EXCEPT !.pc = "failed"].pc = "failed"
      BY <2>1 DEF Edit
    <3>2. UpdateFails(u) => edit'[u] = [edit[u] EXCEPT !.pc = "failed"]
      BY <2>1 DEF UpdateFails
    <3> QED
      BY <3>1, <3>2 DEF ReadOrg
  <2>5. settings' \in {settings, [settings EXCEPT ![edit[u].org] = Overlay(edit[u].row, edit[u].asks)]}
    BY <2>2, <2>3, <2>4 DEF UpdateOrg
  <2>6. /\ edit[u].row = settings[edit[u].org] /\ edit[u].org \in DOMAIN settings
    BY DEF RowsKnown, TypeOK, OrgIds
  <2> QED
    BY <2>5, <2>6 DEF Overlay
<1>2. IInv /\ [Next]_vars => [Kept]_vars
  BY <1>1
<1> QED
  BY <1>2, Invariance, PTL DEF Spec, UntouchedUnlessOverlapped
=============================================================================
