----------------------------- MODULE MCAccounts -----------------------------
(***************************************************************************)
(* A small instance of Accounts for TLC: two sign-ins of one user, one of  *)
(* another user with the same name, two dashboard processes and two        *)
(* requests to HandleUpdate.                                               *)
(***************************************************************************)
EXTENDS Accounts, TLC
CONSTANTS l1, l2, l3, p1, p2, u1, u2, ana, bob, admin

EmailAddresses == [l \in Logins |-> IF l = l3 THEN bob ELSE ana]
NameSlugs == [l \in Logins |-> "ana-org"]
\* Bound: updates of settings are explored beside one sign-in or process
\* only; no statement of the others touches a column HandleUpdate writes.
Apart == (\E u \in Updates : edit[u].pc # "idle") =>
           Cardinality({p \in Procs : pc[p] # "idle"}) = 1

Interchangeable ==
  Permutations({l1, l2}) \union Permutations({p1, p2}) \union Permutations({u1, u2})
=============================================================================
