---------------------------- MODULE MCIngestion ----------------------------
(***************************************************************************)
(* Small instances of the ingestion pipeline for TLC.                      *)
(***************************************************************************)
EXTENDS IngestionProperties, TLC

CONSTANTS c1, c2, w1, w2, k1

AllProcs  == Clients \cup Workers
NoProcs   == {}

AllFaults == {"ingest", "db", "redis", "crash"}
Ingesting == {"ingest"}
NoFaults  == {}
Crashing  == {"crash"}
RedisDown == {"redis"}

(***************************************************************************)
(* Requests and workers on the same backend are interchangeable, in the    *)
(* runs that check no liveness.                                            *)
(***************************************************************************)
Symmetry == Permutations(Clients) \cup Permutations(Workers)
=============================================================================
