------------------------------- MODULE MCApi -------------------------------
(***************************************************************************)
(* Small instances of the API for TLC: two requests, one session they may  *)
(* share, one user with one key.                                           *)
(***************************************************************************)
EXTENDS ApiProperties, TLC

CONSTANTS r1, r2, u1, k1, s1

(***************************************************************************)
(* A secured mock server, for who is admitted, and an open live server,    *)
(* for every chain of fallbacks.                                           *)
(***************************************************************************)
Server(secured, mock, keys) ==
  [secured |-> secured, mock |-> mock, graphAgent |-> TRUE, graphRag |-> TRUE, keys |-> keys]

LiveServer == {Server(FALSE, FALSE, {"openai", "tavily", "pinecone"})}
Servers    == {Server(TRUE, TRUE, {})} \cup LiveServer

Offered  == (r1 :> {"login", "session", "ingest", "key", "chat"}) @@ (r2 :> {"chat"})
OnlyChat == [r \in Requests |-> {"chat"}]

StartRoles == {{"admin"}, {"operator"}}
KeyRows    == {k1} \cup Requests

AllFaults == {"db", "external", "limit", "crash"}
NoFaults  == {}
=============================================================================
