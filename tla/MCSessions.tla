----------------------------- MODULE MCSessions -----------------------------
(***************************************************************************)
(* A small instance of Sessions for TLC: one user with two browsers, and   *)
(* two requests that may come from one of them or from both.               *)
(***************************************************************************)
EXTENDS Sessions, TLC
CONSTANT ana

Owners == [b \in Browsers |-> ana]
Interchangeable == Permutations(Browsers) \union Permutations(Requests)
=============================================================================
