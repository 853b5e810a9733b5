---------------------------- MODULE SessionStore ----------------------------
(***************************************************************************)
(* Chat sessions and their messages (src/app/storage/session_repository.py *)
(* and the tables of src/app/storage/database.py).  Each operator is one   *)
(* transaction.  A message is a role and the request that wrote it; route, *)
(* latency and metadata are payload.                                       *)
(***************************************************************************)
EXTENDS Naturals, Sequences

CONSTANTS Requests,     \* the requests that write messages
          Named,        \* the session ids that requests may bring along
          MaxHistory    \* the default limit of get_messages, 200 in the code

ASSUME StoreAssumption == Named \cap Requests = {} /\ MaxHistory \in Nat

VARIABLES sessions,     \* ids of the rows of "sessions"
          messages      \* per session id: its chat_messages, by ascending id

storeVars == <<sessions, messages>>

(***************************************************************************)
(* A request that brings no id gets a new uuid: the session is named after *)
(* the request.                                                            *)
(***************************************************************************)
SessionId == Named \cup Requests

Speakers == {"user", "assistant"}

Message == [role : Speakers, of : Requests]

Says(role, r) == [role |-> role, of |-> r]

StoreInit == sessions = {} /\ messages = [s \in SessionId |-> <<>>]

(***************************************************************************)
(* create_session: INSERT OR IGNORE.                                       *)
(***************************************************************************)
MutantNoSession(s) == sessions' = sessions    \* add_message without it

CreateSession(s) == sessions' = sessions \cup {s}

(***************************************************************************)
(* The INSERT of add_message.  The foreign key of chat_messages is         *)
(* declared, and SQLite does not enforce it unless asked to: the row is    *)
(* inserted whether its session exists or not.                             *)
(***************************************************************************)
InsertMessage(s, m) == messages' = [messages EXCEPT ![s] = Append(@, m)]

(***************************************************************************)
(* get_messages: the first rows by ascending id, so the oldest ones of a   *)
(* session with more than the limit.                                       *)
(***************************************************************************)
Least(m, n) == IF m <= n THEN m ELSE n

MutantNewestFirst(s) ==                       \* ORDER BY id DESC
  LET n == Least(MaxHistory, Len(messages[s])) IN
    [i \in 1..n |-> messages[s][Len(messages[s]) + 1 - i]]

GetMessages(s) == SubSeq(messages[s], 1, Least(MaxHistory, Len(messages[s])))
=============================================================================
