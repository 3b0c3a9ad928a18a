---------------------------- MODULE MCEventWorker ----------------------------
(***************************************************************************)
(* Small instances of EventWorker for TLC.                                 *)
(***************************************************************************)
EXTENDS EventWorker, TLC

CONSTANTS m1, m2, m3

\* Different sizes, so that the memory count tells the messages apart.
Sizes == [m \in Msgs |-> CASE m = m1 -> 1 [] m = m2 -> 2 [] m = m3 -> 4]

Interchangeable == Permutations(Consumers) \cup Permutations(AsyncFlushers)
=============================================================================
