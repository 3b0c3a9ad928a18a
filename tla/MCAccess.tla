------------------------------ MODULE MCAccess ------------------------------
(***************************************************************************)
(* A small instance of Access for TLC.                                     *)
(***************************************************************************)
EXTENDS Access, TLC

Limits == [free |-> 1, pro |-> 2]
Windows == [c \in Counters |-> IF c = "ip" THEN 2 ELSE 1]
Interchangeable == Permutations(Requests)
=============================================================================
