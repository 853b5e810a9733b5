----------------------------- MODULE MCProcess -----------------------------
(***************************************************************************)
(* Small instances of processes on one database for TLC: a server with the *)
(* worker embedded and one without, on a new file or an old one.           *)
(***************************************************************************)
EXTENDS ProcessProperties, TLC

CONSTANTS p1, p2

Created   == <<"ingestion_jobs", "roles">>
JobTable  == "ingestion_jobs"
Added     == <<"idempotency_key", "trace_id">>
SeedMap   == ("admin" :> {"admin:full", "sessions:read"}) @@ ("viewer" :> {"sessions:read"})
SeedCodes == {"admin:full", "sessions:read"}
SeedRoles == {"admin", "viewer"}
=============================================================================
