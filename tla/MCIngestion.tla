----------------------------- MODULE MCIngestion -----------------------------
(***************************************************************************)
(* A small instance of Ingestion for TLC: a plain event, one with a long   *)
(* response and one the server rejects (the default provider of track).    *)
(***************************************************************************)
EXTENDS Ingestion

CONSTANTS plain, texts, unknown

Good == [missing |-> {}, bad |-> {}, prompt |-> "nil", response |-> "nil"]

Requests == [e \in Events |->
  CASE e = plain -> [Good EXCEPT !.prompt = "fits"]
    [] e = texts -> [Good EXCEPT !.response = "long"]
    [] e = unknown -> [Good EXCEPT !.bad = {"provider"}]]
=============================================================================
