------------------------------ MODULE Accounts ------------------------------
(***************************************************************************)
(* Users, organizations, default projects and default keys in PostgreSQL,  *)
(* and the three handlers that write them: HandleOAuthCallback (a sign-in  *)
(* that creates what is missing), bootstrapSelfHosted (run by each         *)
(* dashboard process before it serves in autologin mode) and HandleUpdate  *)
(* of the organization's settings.  None of them uses a transaction: each  *)
(* statement is a step, and a process may die or a statement fail between  *)
(* any two.                                                                *)
(***************************************************************************)
EXTENDS Integers, FiniteSets, Sequences

CONSTANTS
  Logins,     \* sign-ins that may be running at once
  Replicas,   \* dashboard processes
  Updates,    \* requests to HandleUpdate
  Email,      \* the email each sign-in brings
  Slug,       \* the slug made from the name it brings
  AdminEmail, \* "admin@localhost"
  AdminSlug,  \* "default"
  Fields,     \* columns of organizations that HandleUpdate may change
  Free,       \* the columns of which any value is valid
  MaxFaults   \* bound: failed statements and deaths

Procs == Logins \union Replicas
Emails == {Email[l] : l \in Logins} \union {AdminEmail}
Slugs == {Slug[l] : l \in Logins} \union {AdminSlug}

\* Values of a column; HandleUpdate refuses "bad" except in a Free column.
Values == {"old", "new", "bad"}
Defaults == [f \in Fields |-> "old"]

ASSUME AccountsAssumption ==
  /\ Logins \intersect Replicas = {}
  /\ Email \in [Logins -> Emails \ {AdminEmail}]
  /\ Slug \in [Logins -> Slugs \ {AdminSlug}]
  /\ Free \subseteq Fields
  /\ MaxFaults \in Nat

VARIABLES
  users,     \* emails with a row in users (the column is unique)
  orgs,      \* the slug of each row of organizations, in order of creation
  settings,  \* the other columns of each of them
  members,   \* org_members, as pairs of an organization and an email
  projects,  \* organizations with a default project
  apiKeys,   \* organizations with a default key
  pc,        \* control state of each process
  org,       \* the organization it holds, 0 when none
  faulted,   \* a statement of this run of it failed
  crowded,   \* a run for the same email overlapped this one
  faults,    \* failures so far
  edit       \* requests to HandleUpdate

tables == <<users, orgs, settings, members, projects, apiKeys>>
local == <<pc, org, faulted, crowded, faults>>
vars == <<tables, local, edit>>

None == 0
OrgIds == DOMAIN orgs
Steps == {"count", "find", "insert", "lookup", "create", "member", "project", "key", "issue"}
Ends == {"idle", "done", "failed"}

EmailOf(p) == IF p \in Logins THEN Email[p] ELSE AdminEmail
SlugOf(p) == IF p \in Logins THEN Slug[p] ELSE AdminSlug
Running(p) == pc[p] \in Steps
SameEmail(p) == {q \in Procs : q # p /\ Running(q) /\ EmailOf(q) = EmailOf(p)}

Init ==
  /\ users = {} /\ orgs = <<>> /\ settings = <<>>
  /\ members = {} /\ projects = {} /\ apiKeys = {}
  /\ pc = [p \in Procs |-> "idle"]
  /\ org = [p \in Procs |-> None]
  /\ faulted = [p \in Procs |-> FALSE]
  /\ crowded = [p \in Procs |-> FALSE]
  /\ faults = 0
  /\ edit = [u \in Updates |-> [pc |-> "idle", org |-> None, asks |-> <<>>,
                                row |-> Defaults, stale |-> FALSE]]

Fault == faults < MaxFaults /\ faults' = faults + 1
Goto(p, label) == pc' = [pc EXCEPT ![p] = label]

(***************************************************************************)
(* Beginnings: a request with the internal secret, or a process's start.   *)
(***************************************************************************)
Begin(p, label) ==
  /\ pc[p] \in {"idle", "failed"}
  /\ Goto(p, label)
  /\ org' = [org EXCEPT ![p] = None]
  /\ faulted' = [faulted EXCEPT ![p] = FALSE]
  /\ crowded' = [q \in Procs |-> IF q = p THEN SameEmail(p) # {}
                                 ELSE crowded[q] \/ q \in SameEmail(p)]
  /\ UNCHANGED <<tables, faults, edit>>

\* A callback without the secret, a body or an email changes nothing.
OAuthCallback(l) == Begin(l, "find")

Bootstrap(p) == Begin(p, "count")

(***************************************************************************)
(* A statement that fails ends the run, except AddOrgMember of a sign-in,  *)
(* CreateProject and CreateAPIKey, whose errors are logged only.           *)
(***************************************************************************)
\* Mutant: a failed AddOrgMember is logged only, in bootstrapSelfHosted too.
SkipsMember(p) == pc[p] \in {"member", "project", "key"}

Skips(p) == pc[p] \in {"project", "key"} \/ (pc[p] = "member" /\ p \in Logins)
\* Mutant: no key is created.
AfterWithoutKey(label) == CASE label = "member" -> "project"
                            [] label \in {"project", "key"} -> "issue"

After(label) == CASE label = "member"  -> "project"
                  [] label = "project" -> "key"
                  [] label = "key"     -> "issue"

StatementFails(p) ==
  /\ Running(p)
  /\ ~(p \in Replicas /\ pc[p] = "issue")
  /\ Fault
  /\ faulted' = [faulted EXCEPT ![p] = TRUE]
  /\ Goto(p, IF Skips(p) THEN After(pc[p]) ELSE "failed")
  /\ UNCHANGED <<tables, org, crowded, edit>>

\* The process dies, or the client's context is cancelled.
Dies(p) ==
  /\ Running(p) \/ (p \in Replicas /\ pc[p] = "done")
  /\ Fault
  /\ faulted' = [faulted EXCEPT ![p] = TRUE]
  /\ Goto(p, "failed")
  /\ UNCHANGED <<tables, org, crowded, edit>>

CountOrgs(p) ==
  /\ pc[p] = "count"
  /\ Goto(p, IF orgs = <<>> THEN "create" ELSE "find")
  /\ UNCHANGED <<tables, org, faulted, crowded, faults, edit>>

\* CreateOrGetUser: SELECT by email, then INSERT under the unique column.
UserFound(p) == IF org[p] = None THEN "lookup" ELSE "member"

FindUser(p) ==
  /\ pc[p] = "find"
  /\ Goto(p, IF EmailOf(p) \in users THEN UserFound(p) ELSE "insert")
  /\ UNCHANGED <<tables, org, faulted, crowded, faults, edit>>

InsertUser(p) ==
  /\ pc[p] = "insert"
  /\ users' = users \union {EmailOf(p)}
  /\ Goto(p, IF EmailOf(p) \in users THEN "failed" ELSE UserFound(p))
  /\ UNCHANGED <<orgs, settings, members, projects, apiKeys, org, faulted, crowded, faults, edit>>

\* Mutants: an organization that is not found is used all the same, or ends
\* a sign-in; the user of the organization is not looked at.
GetOrgUnchecked(p) ==
  /\ pc[p] = "lookup"
  /\ LET mine == {o \in OrgIds : <<o, EmailOf(p)>> \in members}
     IN \/ \E o \in mine : org' = [org EXCEPT ![p] = o] /\ Goto(p, "issue")
        \/ mine = {} /\ Goto(p, "member") /\ UNCHANGED org
  /\ UNCHANGED <<tables, faulted, crowded, faults, edit>>
GetOrgRequired(p) ==
  /\ pc[p] = "lookup"
  /\ LET mine == {o \in OrgIds : <<o, EmailOf(p)>> \in members}
     IN \/ \E o \in mine : org' = [org EXCEPT ![p] = o] /\ Goto(p, "issue")
        \/ mine = {} /\ Goto(p, "failed") /\ UNCHANGED org
  /\ UNCHANGED <<tables, faulted, crowded, faults, edit>>
GetOrgOfAnyone(p) ==
  /\ pc[p] = "lookup"
  /\ \/ \E o \in OrgIds : org' = [org EXCEPT ![p] = o] /\ Goto(p, "issue")
     \/ OrgIds = {} /\ Goto(p, "create") /\ UNCHANGED org
  /\ UNCHANGED <<tables, faulted, crowded, faults, edit>>

\* GetOrgByUserID: LIMIT 1 without an order, any of the user's organizations.
GetOrgByUserID(p) ==
  /\ pc[p] = "lookup"
  /\ LET mine == {o \in OrgIds : <<o, EmailOf(p)>> \in members}
     IN \/ \E o \in mine : org' = [org EXCEPT ![p] = o] /\ Goto(p, "issue")
        \/ mine = {} /\ Goto(p, IF p \in Logins THEN "create" ELSE "failed") /\ UNCHANGED org
  /\ UNCHANGED <<tables, faulted, crowded, faults, edit>>

\* Mutant: slugs need not be unique.
SlugNeverTaken(p) == FALSE

\* CreateOrg under the unique slug.
SlugTaken(p) == \E o \in OrgIds : orgs[o] = SlugOf(p)

CreateOrg(p) ==
  /\ pc[p] = "create"
  /\ \/ SlugTaken(p) /\ Goto(p, "failed") /\ UNCHANGED <<orgs, settings, org>>
     \/ /\ ~SlugTaken(p)
        /\ orgs' = Append(orgs, SlugOf(p))
        /\ settings' = Append(settings, Defaults)
        /\ org' = [org EXCEPT ![p] = Len(orgs) + 1]
        /\ Goto(p, IF p \in Logins THEN "member" ELSE "find")
  /\ UNCHANGED <<users, members, projects, apiKeys, faulted, crowded, faults, edit>>

AddOrgMember(p) ==
  /\ pc[p] = "member"
  /\ members' = members \union {<<org[p], EmailOf(p)>>}
  /\ Goto(p, After("member"))
  /\ UNCHANGED <<users, orgs, settings, projects, apiKeys, org, faulted, crowded, faults, edit>>

CreateProject(p) ==
  /\ pc[p] = "project"
  /\ projects' = projects \union {org[p]}
  /\ Goto(p, After("project"))
  /\ UNCHANGED <<users, orgs, settings, members, apiKeys, org, faulted, crowded, faults, edit>>

CreateAPIKey(p) ==
  /\ pc[p] = "key"
  /\ apiKeys' = apiKeys \union {org[p]}
  /\ Goto(p, After("key"))
  /\ UNCHANGED <<users, orgs, settings, members, projects, org, faulted, crowded, faults, edit>>

\* issueTokenPair and the cookies of a sign-in; a process starts to serve.
Finish(p) ==
  /\ pc[p] = "issue"
  /\ Goto(p, "done")
  /\ UNCHANGED <<tables, org, faulted, crowded, faults, edit>>

(***************************************************************************)
(* HandleUpdate: reads the row of the organization in the caller's token,  *)
(* lays the requested columns over it, and writes all columns back.        *)
(***************************************************************************)
Tokens == {org[p] : p \in {q \in Procs : pc[q] = "done"}} \ {None}

ReadOrg(u, asks) ==
  /\ edit[u].pc = "idle"
  /\ \E o \in Tokens :
       edit' = [edit EXCEPT ![u] = [pc |-> "write", org |-> o, asks |-> asks,
                                    row |-> settings[o], stale |-> FALSE]]
  /\ UNCHANGED <<tables, local>>

Valid(asks) == \A f \in DOMAIN asks : f \in Free \/ asks[f] # "bad"
\* Mutant: a column the request does not name gets its default.
OverlayDefaults(row, asks) == [f \in Fields |-> IF f \in DOMAIN asks THEN asks[f] ELSE Defaults[f]]

Overlay(row, asks) == [f \in Fields |-> IF f \in DOMAIN asks THEN asks[f] ELSE row[f]]

UpdateOrg(u) ==
  /\ edit[u].pc = "write"
  /\ LET o == edit[u].org
         written == Valid(edit[u].asks)
     IN /\ settings' = IF written
                       THEN [settings EXCEPT ![o] = Overlay(edit[u].row, edit[u].asks)]
                       ELSE settings
        /\ edit' = [v \in Updates |->
             IF v = u THEN [edit[u] EXCEPT !.pc = IF written THEN "done" ELSE "refused"]
             ELSE [edit[v] EXCEPT !.stale = @ \/ (written /\ edit[v].pc = "write" /\ edit[v].org = o)]]
  /\ UNCHANGED <<users, orgs, members, projects, apiKeys, local>>

UpdateFails(u) ==
  /\ edit[u].pc = "write"
  /\ Fault
  /\ edit' = [edit EXCEPT ![u].pc = "failed"]
  /\ UNCHANGED <<tables, pc, org, faulted, crowded>>

Asks == UNION {[fs -> Values \ {"old"}] : fs \in SUBSET Fields \ {{}}}

Step(p) ==
  \/ CountOrgs(p) \/ FindUser(p) \/ InsertUser(p) \/ GetOrgByUserID(p) \/ CreateOrg(p)
  \/ AddOrgMember(p) \/ CreateProject(p) \/ CreateAPIKey(p) \/ Finish(p)

Next ==
  \/ \E l \in Logins : OAuthCallback(l)
  \/ \E p \in Replicas : Bootstrap(p)
  \/ \E p \in Procs : Step(p) \/ StatementFails(p) \/ Dies(p)
  \/ \E u \in Updates : UpdateOrg(u) \/ UpdateFails(u) \/ \E asks \in Asks : ReadOrg(u, asks)

Spec == Init /\ [][Next]_vars

(***************************************************************************)
(* Properties.                                                             *)
(***************************************************************************)
Edit(ids) == [pc : {"idle", "write", "done", "refused", "failed"}, org : ids,
              asks : Asks \union {<<>>}, row : [Fields -> Values], stale : BOOLEAN]

\* Types of the tables and of the processes.
TypeOK ==
  /\ users \subseteq Emails
  /\ orgs \in Seq(Slugs)
  /\ settings \in Seq([Fields -> Values]) /\ Len(settings) = Len(orgs)
  /\ members \subseteq OrgIds \X Emails
  /\ projects \subseteq OrgIds /\ apiKeys \subseteq OrgIds
  /\ pc \in [Procs -> Steps \union Ends]
  /\ org \in [Procs -> OrgIds \union {None}]
  /\ faulted \in [Procs -> BOOLEAN] /\ crowded \in [Procs -> BOOLEAN]
  /\ faults \in 0..MaxFaults
  /\ edit \in [Updates -> Edit(OrgIds \union {None})]

\* HandleOAuthCallback and bootstrapSelfHosted look for an organization and
\* create one in separate statements; however their runs interleave, fail
\* and repeat, an organization never has two users, and a user whose
\* sign-ins bring one name is never a member of two organizations
\* (GetOrgByUserID would pick either).
OneName(email) ==
  \A l, k \in Logins : Email[l] = email /\ Email[k] = email => Slug[l] = Slug[k]
OneOrgPerUser ==
  \A m, n \in members : m[1] = n[1] \/ (m[2] = n[2] /\ OneName(m[2])) => m = n

\* Every process that serves in autologin mode signs requests for the same
\* organization, of which the administrator is a member, whatever starts
\* and deaths of other processes bootstrapSelfHosted ran through.
ReplicasAgree ==
  \A p, q \in Replicas : pc[p] = "done" /\ pc[q] = "done" =>
    org[p] = org[q] /\ <<org[p], AdminEmail>> \in members

\* A sign-in that ended without a session had a reason: a statement failed,
\* another run for the same email overlapped it, or the slug made from the
\* name belongs to an organization the user is not a member of (another
\* user's, or his own left without a member by an earlier sign-in).
RefusedForCause ==
  \A l \in Logins : pc[l] = "failed" =>
    \/ faulted[l]
    \/ crowded[l]
    \/ \E o \in OrgIds : orgs[o] = Slug[l] /\ <<o, Email[l]>> \notin members

\* A session never opens an organization that has another user: its user is
\* the only member, unless the statement that adds him failed.
SessionIsOwn ==
  \A l \in Logins : pc[l] = "done" =>
    LET mine == {m \in members : m[1] = org[l]}
    IN mine = {<<org[l], Email[l]>>} \/ (faulted[l] /\ mine = {})

\* HandleUpdate writes back every column it read; a column the request does
\* not name keeps its value unless another update of the organization was
\* written between the read and the write.
UntouchedUnlessOverlapped ==
  [][\A u \in Updates : edit[u].pc = "write" /\ edit'[u].pc = "done" /\ ~edit[u].stale =>
       \A f \in Fields \ DOMAIN edit[u].asks :
         settings'[edit[u].org][f] = settings[edit[u].org][f]]_vars

\* bootstrapSelfHosted "ensures a default org, user, project, and API key
\* exist": when nothing failed, a serving process's organization has them or
\* another process is just creating them.  (After a failure between the
\* inserts no later start creates what is missing: it finds count > 0.)
BootstrapEnsures ==
  \A p \in Replicas : pc[p] = "done" /\ faults = 0 =>
    \/ org[p] \in projects \intersect apiKeys
    \/ \E q \in Replicas : pc[q] \in {"project", "key"} /\ org[q] = org[p]

(***************************************************************************)
(* The inductive invariant behind them.  A slug names one organization;    *)
(* the run that created it, and no other, may add its member.              *)
(***************************************************************************)
Creator(p) == org[p] # None /\ pc[p] \in {"find", "insert", "member"}
Memberless(o) == \A m \in members : m[1] # o
Memberships(e) == {m \in members : m[2] = e}

HoldsOrg ==
  \A p \in Procs :
    /\ pc[p] \in {"member", "project", "key", "issue", "done"} => org[p] # None
    /\ pc[p] = "count" => p \in Replicas /\ org[p] = None
UniqueSlugs == \A o, q \in OrgIds : orgs[o] = orgs[q] => o = q
CreatorsApart ==
  \A p \in Procs : Creator(p) =>
    /\ orgs[org[p]] = SlugOf(p) /\ Memberless(org[p])
    /\ \A q \in Procs \ {p} : Creator(q) => org[q] # org[p]
MembersCreated ==
  \A m \in members :
    /\ \E p \in Procs : EmailOf(p) = m[2] /\ orgs[m[1]] = SlugOf(p)
    /\ \A n \in members : m[1] = n[1] => m = n
\* A run past AddOrgMember made its user a member, unless that failed for good.
MadeMember ==
  \A p \in Procs : pc[p] \in {"project", "key", "issue", "done"} =>
    \/ <<org[p], EmailOf(p)>> \in members
    \/ /\ p \in Logins /\ faulted[p] /\ Memberless(org[p])
       /\ \A q \in Procs : Creator(q) => org[q] # org[p]

\* What FindUser and GetOrgByUserID saw is still so, unless the run is crowded.
CrowdKnown == \A p \in Procs : Running(p) /\ SameEmail(p) # {} => crowded[p]
SeenStill ==
  \A p \in Procs : ~crowded[p] =>
    /\ pc[p] = "insert" => EmailOf(p) \notin users
    /\ pc[p] = "create" /\ p \in Logins => Memberships(EmailOf(p)) = {}
FailedForCause ==
  \A l \in Logins : pc[l] = "failed" /\ ~faulted[l] /\ ~crowded[l] =>
    \E o \in OrgIds : /\ orgs[o] = Slug[l] /\ <<o, Email[l]>> \notin members
                     /\ \A q \in Procs : Creator(q) /\ EmailOf(q) = Email[l] => org[q] # o

\* While nothing failed, an administrator's organization is complete, or the
\* process that made it is still at it.
Completing(q, o) ==
  org[q] = o /\ (pc[q] = "project" \/ (pc[q] = "key" /\ o \in projects))
DefaultsFollow ==
  faults = 0 => \A m \in Memberships(AdminEmail) :
    m[1] \in projects \intersect apiKeys \/ \E q \in Replicas : Completing(q, m[1])

\* A pending update holds the row as it is, unless another one was written.
RowsKnown ==
  \A u \in Updates : edit[u].pc = "write" =>
    /\ edit[u].org \in OrgIds /\ edit[u].asks \in Asks
    /\ edit[u].stale \/ edit[u].row = settings[edit[u].org]

Ownership ==
  /\ HoldsOrg /\ UniqueSlugs /\ CreatorsApart /\ MembersCreated /\ MadeMember
  /\ CrowdKnown /\ SeenStill /\ FailedForCause /\ DefaultsFollow /\ RowsKnown
IInv == TypeOK /\ Ownership
=============================================================================
