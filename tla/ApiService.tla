----------------------------- MODULE ApiService -----------------------------
(***************************************************************************)
(* The requests of the API (src/app/api/): who asks is established by      *)
(* get_current_principal and require_permissions, the handler does its     *)
(* work on the session store, the answering chain, the ingestion queue or  *)
(* the access tables, the audit trail gets a row, the client a response.   *)
(*                                                                         *)
(* Handlers run in a pool of threads.  A step is one transaction with the  *)
(* local work that follows it, or one piece of the answering chain; other  *)
(* requests, the ingestion of documents and the operator act in between.   *)
(***************************************************************************)
EXTENDS SessionStore, AccessControl, Answering

CONSTANTS Offers,       \* per request: the kinds of request it may be
          MaxPrompt     \* messages the agent is prompted with, 8 in the code

Kinds == {"login", "chat", "session", "ingest", "key"}

ASSUME ApiAssumption ==
  /\ Questions = Requests /\ TokenIds = Requests
  /\ Requests \subseteq KeyIds /\ OldKeys \cap Requests = {}
  /\ None \notin KeyIds \cup SessionId \cup Kinds
  /\ MaxPrompt \in Nat \ {0}
  /\ Offers \in [Requests -> SUBSET Kinds]
  /\ Faults \subseteq {"db", "external", "limit", "crash"}

VARIABLES request,      \* local state of the handlers
          enqueued,     \* requests whose ingestion job is queued
          audits        \* requests with a row in audit_logs

vars == <<storeVars, accessVars, answeringVars, request, enqueued, audits>>

Reading == {"loginUser", "loginRoles", "loginPermissions", "bearer", "keyUser",
            "keyRoles", "keyPermissions", "admit"}

Working == {"openSession", "history", "sessionOfQuestion", "question", "answer",
            "sessionOfAnswer", "reply", "enqueue", "createKey", "audit", "respond"}

(***************************************************************************)
(* "at", "held", "wasActive" and "arrived" are history: the clock, the     *)
(* user's roles, whether the user was active and the length of the session *)
(* when the request arrived.  "wrote" counts the messages it has stored.   *)
(***************************************************************************)
Request == [pc : {"new", "done", "lost"} \cup Reading \cup Working,
            kind : Kinds \cup {None}, status : {0, 200, 401, 403, 429, 500},
            user : Users \cup {System, None}, token : Requests \cup {None},
            mock : BOOLEAN, session : SessionId \cup {None},
            roles : SUBSET Roles, permissions : SUBSET Permissions,
            history : Seq(Message), wrote : {0, 1, 2},
            at : Time, held : SUBSET Roles, wasActive : BOOLEAN, arrived : Nat]

NewRequest == [pc |-> "new", kind |-> None, status |-> 0, user |-> None,
               token |-> None, mock |-> FALSE, session |-> None,
               roles |-> {}, permissions |-> {}, history |-> <<>>, wrote |-> 0,
               at |-> 0, held |-> {}, wasActive |-> FALSE, arrived |-> 0]

Init == /\ StoreInit /\ AccessInit /\ AnsweringInit
        /\ request = [r \in Requests |-> NewRequest]
        /\ enqueued = {} /\ audits = {}

Becomes(r, state) == request' = [request EXCEPT ![r] = state]

Goes(r, pc) == Becomes(r, [request[r] EXCEPT !.pc = pc])

(***************************************************************************)
(* The local variables of a handler are gone when it ends.                 *)
(***************************************************************************)
Leaving(r, pc, status) ==
  [NewRequest EXCEPT !.pc = pc, !.status = status, !.kind = request[r].kind,
                     !.session = request[r].session, !.wrote = request[r].wrote]

Ends(r, status) == Becomes(r, Leaving(r, "done", status))

Is(r, pc) == request[r].pc = pc

Succeeded(r) == Is(r, "done") /\ request[r].status = 200

-----------------------------------------------------------------------------
(* Arrival.  Tokens and keys are known to clients from the response to the *)
(* request that made them.                                                 *)

FirstStep(q) == CASE q.kind = "chat" /\ q.session # None -> "history"
                  [] q.kind = "chat" /\ q.session = None -> "openSession"
                  [] q.kind = "session" -> "openSession"
                  [] q.kind = "ingest"  -> "enqueue"
                  [] q.kind = "key"     -> "createKey"

Needed(kind) == CASE kind = "chat"    -> "chat:write"
                  [] kind = "session" -> "sessions:write"
                  [] kind = "ingest"  -> "ingestion:write"
                  [] kind = "key"     -> "auth:manage_api_keys"

(***************************************************************************)
(* What a request brings along, and what the properties remember of the    *)
(* moment it arrives.                                                      *)
(***************************************************************************)
Arriving(kind, u, pc) ==
  [NewRequest EXCEPT !.pc = pc, !.kind = kind, !.user = u, !.at = clock,
                     !.held = IF u \in Users THEN assigned[u] ELSE {},
                     !.wasActive = u \in active]

ArriveLogin(r) ==
  /\ Is(r, "new") /\ "login" \in Offers[r]
  /\ \E u \in Users : Becomes(r, Arriving("login", u, "loginUser"))
  /\ UNCHANGED <<storeVars, accessVars, answeringVars, enqueued, audits>>

(***************************************************************************)
(* Any other request: with a bearer token, with an API key, or with        *)
(* neither, which is good enough when security is switched off.            *)
(***************************************************************************)
Bearing(kind) ==
  {[Arriving(kind, tokens[t].user, "bearer") EXCEPT !.token = t] :
     t \in {x \in Requests : Succeeded(x) /\ request[x].kind = "login"}}

Keyed(kind) ==
  {Arriving(kind, keyOwner[k], "keyUser") :
     k \in {x \in KeyIds : keyOwner[x] # None /\ (x \in OldKeys \/ Succeeded(x))}}

Bare(kind) == [Arriving(kind, None, "done") EXCEPT !.status = 401]

AsSystem(kind) == [Arriving(kind, System, "admit") EXCEPT !.roles = {"admin"},
                                                          !.permissions = {"admin:full"}]

Credentialed(kind) == IF settings.secured
                      THEN Bearing(kind) \cup Keyed(kind) \cup {Bare(kind)}
                      ELSE {AsSystem(kind)}

ArriveOther(r) ==
  /\ Is(r, "new")
  /\ \E kind \in Offers[r] \ {"login", "chat"} : \E q \in Credentialed(kind) : Becomes(r, q)
  /\ UNCHANGED <<storeVars, accessVars, answeringVars, enqueued, audits>>

(***************************************************************************)
(* A client may make up a session id, or know one from a response.  The    *)
(* handler's runtime_settings are mock if the server or the request is.    *)
(***************************************************************************)
KnownSessions == Named \cup {x \in Requests : Succeeded(x) /\ request[x].session = x}

ArriveChat(r) ==
  /\ Is(r, "new") /\ "chat" \in Offers[r]
  /\ \E q \in Credentialed("chat"), s \in KnownSessions \cup {None}, asksMock \in BOOLEAN :
       Becomes(r, [q EXCEPT !.mock = settings.mock \/ asksMock, !.session = s,
                            !.arrived = IF s = None THEN 0 ELSE Len(messages[s])])
  /\ UNCHANGED <<storeVars, accessVars, answeringVars, enqueued, audits>>

-----------------------------------------------------------------------------
(* Who asks.                                                               *)

(***************************************************************************)
(* Of the principal the handlers use no more than who it is.               *)
(***************************************************************************)
Admitted(q) == [q EXCEPT !.token = None, !.roles = {}, !.permissions = {},
                         !.at = 0, !.held = {}, !.wasActive = FALSE]

(***************************************************************************)
(* login_with_password.  A wrong password or an inactive user raises a     *)
(* ValueError that the handler does not catch.                             *)
(***************************************************************************)
LoginUser(r) ==
  /\ Is(r, "loginUser")
  /\ \E passwordOk \in BOOLEAN :
       IF passwordOk /\ request[r].user \in active THEN Goes(r, "loginRoles") ELSE Ends(r, 500)
  /\ UNCHANGED <<storeVars, accessVars, answeringVars, enqueued, audits>>

(***************************************************************************)
(* list_roles and list_permissions, one transaction each.                  *)
(***************************************************************************)
LoginRoles(r) ==
  /\ Is(r, "loginRoles")
  /\ Becomes(r, [request[r] EXCEPT !.pc = "loginPermissions",
                                   !.roles = ListRoles(request[r].user)])
  /\ UNCHANGED <<storeVars, accessVars, answeringVars, enqueued, audits>>

LoginPermissions(r) ==
  LET u == request[r].user IN
  /\ Is(r, "loginPermissions")
  /\ Issue(r, u, request[r].roles, ListPermissions(u), request[r].held)
  /\ Becomes(r, [Admitted(request[r]) EXCEPT !.pc = "audit"])
  /\ UNCHANGED <<clock, active, assigned, keyOwner>>
  /\ UNCHANGED <<storeVars, answeringVars, enqueued, audits>>

(***************************************************************************)
(* authenticate_bearer_token: roles and permissions are the token's.       *)
(***************************************************************************)
Bearer(r) ==
  LET t == request[r].token IN
  /\ Is(r, "bearer")
  /\ IF Expired(t) \/ tokens[t].user \notin active
     THEN Ends(r, 401)
     ELSE Becomes(r, [request[r] EXCEPT !.pc = "admit", !.roles = tokens[t].roles,
                                        !.permissions = tokens[t].permissions])
  /\ UNCHANGED <<storeVars, accessVars, answeringVars, enqueued, audits>>

(***************************************************************************)
(* authenticate_api_key.  The row of the key never changes but for         *)
(* last_used_at, which nothing reads: the lookup and touch_api_key are     *)
(* part of the step that looks at the user.                                *)
(***************************************************************************)
KeyUser(r) ==
  /\ Is(r, "keyUser")
  /\ IF request[r].user \in active THEN Goes(r, "keyRoles") ELSE Ends(r, 401)
  /\ UNCHANGED <<storeVars, accessVars, answeringVars, enqueued, audits>>

KeyRoles(r) ==
  /\ Is(r, "keyRoles")
  /\ Becomes(r, [request[r] EXCEPT !.pc = "keyPermissions",
                                   !.roles = ListRoles(request[r].user)])
  /\ UNCHANGED <<storeVars, accessVars, answeringVars, enqueued, audits>>

KeyPermissions(r) ==
  /\ Is(r, "keyPermissions")
  /\ Becomes(r, [request[r] EXCEPT !.pc = "admit",
                                   !.permissions = ListPermissions(request[r].user)])
  /\ UNCHANGED <<storeVars, accessVars, answeringVars, enqueued, audits>>

(***************************************************************************)
(* The rate limit, which may refuse anybody but the system (RateLimiter    *)
(* models it), and require_permissions.                                    *)
(***************************************************************************)
Admit(r) ==
  /\ Is(r, "admit")
  /\ \/ "limit" \in Faults /\ request[r].user # System /\ Ends(r, 429)
     \/ IF Permitted(request[r].roles, request[r].permissions, Needed(request[r].kind))
        THEN Becomes(r, [Admitted(request[r]) EXCEPT !.pc = FirstStep(request[r])])
        ELSE Ends(r, 403)
  /\ UNCHANGED <<storeVars, accessVars, answeringVars, enqueued, audits>>

-----------------------------------------------------------------------------
(* POST /sessions and POST /chat                                           *)

(***************************************************************************)
(* create_session() for a request that brings no id.                       *)
(***************************************************************************)
OpenSession(r) ==
  /\ Is(r, "openSession")
  /\ CreateSession(r)
  /\ Becomes(r, [request[r] EXCEPT !.session = r,
                   !.pc = IF request[r].kind = "chat" THEN "history" ELSE "respond"])
  /\ UNCHANGED <<messages, accessVars, answeringVars, enqueued, audits>>

ReadHistory(r) ==
  /\ Is(r, "history")
  /\ Becomes(r, [request[r] EXCEPT !.pc = "sessionOfQuestion",
                                   !.history = GetMessages(request[r].session)])
  /\ UNCHANGED <<storeVars, accessVars, answeringVars, enqueued, audits>>

(***************************************************************************)
(* _history_to_text: the last of the messages the agent was given.         *)
(***************************************************************************)
Prompt(history) ==
  IF Len(history) <= MaxPrompt THEN history
  ELSE SubSeq(history, Len(history) + 1 - MaxPrompt, Len(history))

(***************************************************************************)
(* add_message, twice: the session in one transaction, the row in the next.*)
(***************************************************************************)
EnsureSession(r) ==
  /\ Is(r, "sessionOfQuestion") \/ Is(r, "sessionOfAnswer")
  /\ CreateSession(request[r].session)
  /\ Goes(r, IF Is(r, "sessionOfQuestion") THEN "question" ELSE "reply")
  /\ UNCHANGED <<messages, accessVars, answeringVars, enqueued, audits>>

StoreQuestion(r) ==
  /\ Is(r, "question")
  /\ InsertMessage(request[r].session, Says("user", r))
  /\ Ask(r, request[r].mock)
  /\ Becomes(r, [request[r] EXCEPT !.pc = "answer", !.wrote = 1])
  /\ UNCHANGED <<sessions, accessVars, settings, base, enqueued, audits>>

AnswerTurn(r) ==
  /\ Is(r, "answer")
  /\ AnswerStep(r)
  /\ UNCHANGED <<storeVars, accessVars, request, enqueued, audits>>

(***************************************************************************)
(* The answer is there, or the chain of fallbacks has raised: 500, and the *)
(* question stays in the session.                                          *)
(***************************************************************************)
MutantTakeAnswer(r) ==                        \* 200 with an error text
  /\ Is(r, "answer")
  /\ \/ /\ At(r, "answered")
        /\ Becomes(r, [request[r] EXCEPT !.pc = "sessionOfAnswer", !.history = <<>>,
                                         !.arrived = 0])
     \/ At(r, "raised") /\ Goes(r, "audit")
  /\ Turns(r, NoAnswer)
  /\ UNCHANGED <<storeVars, accessVars, settings, base, enqueued, audits>>

TakeAnswer(r) ==
  /\ Is(r, "answer")
  /\ \/ /\ At(r, "answered")
        /\ Becomes(r, [request[r] EXCEPT !.pc = "sessionOfAnswer", !.history = <<>>,
                                         !.arrived = 0])
     \/ At(r, "raised") /\ Ends(r, 500)
  /\ Turns(r, NoAnswer)
  /\ UNCHANGED <<storeVars, accessVars, settings, base, enqueued, audits>>

MutantStoreReply(r) ==                        \* ... under a session of its own
  /\ Is(r, "reply")
  /\ InsertMessage(r, Says("assistant", r))
  /\ Becomes(r, [request[r] EXCEPT !.pc = "audit", !.wrote = 2])
  /\ UNCHANGED <<sessions, accessVars, answeringVars, enqueued, audits>>

StoreReply(r) ==
  /\ Is(r, "reply")
  /\ InsertMessage(request[r].session, Says("assistant", r))
  /\ Becomes(r, [request[r] EXCEPT !.pc = "audit", !.wrote = 2])
  /\ UNCHANGED <<sessions, accessVars, answeringVars, enqueued, audits>>

-----------------------------------------------------------------------------
(* POST /ingestion/text and /ingestion/upload (IngestionService models the *)
(* queue), POST /auth/api-keys.                                            *)

Enqueue(r) ==
  /\ Is(r, "enqueue")
  /\ enqueued' = enqueued \cup {r}
  /\ Goes(r, "audit")
  /\ UNCHANGED <<storeVars, accessVars, answeringVars, audits>>

CreateKey(r) ==
  /\ Is(r, "createKey")
  /\ InsertKey(r, request[r].user)
  /\ Goes(r, "audit")
  /\ UNCHANGED <<clock, active, assigned, tokens>>
  /\ UNCHANGED <<storeVars, answeringVars, enqueued, audits>>

-----------------------------------------------------------------------------
(* The end of every request.                                               *)

(***************************************************************************)
(* AuditService.record, in a transaction of its own.                       *)
(***************************************************************************)
MutantAudit(r) ==                             \* a failure to audit is swallowed
  /\ Is(r, "audit")
  /\ audits' = IF "db" \in Faults THEN audits ELSE audits \cup {r}
  /\ Goes(r, "respond")
  /\ UNCHANGED <<storeVars, accessVars, answeringVars, enqueued>>

Audit(r) ==
  /\ Is(r, "audit")
  /\ audits' = audits \cup {r}
  /\ Goes(r, "respond")
  /\ UNCHANGED <<storeVars, accessVars, answeringVars, enqueued>>

Respond(r) ==
  /\ Is(r, "respond")
  /\ Ends(r, 200)
  /\ UNCHANGED <<storeVars, accessVars, answeringVars, enqueued, audits>>

(***************************************************************************)
(* A transaction raises (a locked or full database): nothing of it is      *)
(* kept, nothing before it is undone, and no handler catches it.           *)
(***************************************************************************)
Transactions == (Reading \ {"admit"}) \cup (Working \ {"answer", "respond"})

DbRaises(r) ==
  /\ "db" \in Faults
  /\ request[r].pc \in Transactions
  /\ Ends(r, 500)
  /\ UNCHANGED <<storeVars, accessVars, answeringVars, enqueued, audits>>

(***************************************************************************)
(* The process dies with every request it was handling.                    *)
(***************************************************************************)
UnderWay(r) == request[r].pc \in Reading \cup Working

Crash ==
  /\ "crash" \in Faults
  /\ \E r \in Requests : UnderWay(r)
  /\ request' = [r \in Requests |->
                   IF UnderWay(r) THEN Leaving(r, "lost", 0) ELSE request[r]]
  /\ answer' = [r \in Requests |-> NoAnswer]
  /\ UNCHANGED <<storeVars, accessVars, settings, base, enqueued, audits>>

-----------------------------------------------------------------------------
Step(r) == \/ ArriveLogin(r) \/ ArriveOther(r) \/ ArriveChat(r)
           \/ LoginUser(r) \/ LoginRoles(r) \/ LoginPermissions(r)
           \/ Bearer(r) \/ KeyUser(r) \/ KeyRoles(r) \/ KeyPermissions(r) \/ Admit(r)
           \/ OpenSession(r) \/ ReadHistory(r) \/ EnsureSession(r) \/ StoreQuestion(r)
           \/ AnswerTurn(r) \/ TakeAnswer(r) \/ StoreReply(r)
           \/ Enqueue(r) \/ CreateKey(r) \/ Audit(r) \/ Respond(r) \/ DbRaises(r)

(***************************************************************************)
(* Bound: with security off nobody reads the clock and the access tables,  *)
(* and they are left alone.                                                *)
(***************************************************************************)
Environment ==
  \/ settings.secured /\ AccessNext /\ UNCHANGED <<storeVars, answeringVars, request, enqueued, audits>>
  \/ AddDocument /\ UNCHANGED <<storeVars, accessVars, request, enqueued, audits>>

Next == Crash \/ Environment \/ \E r \in Requests : Step(r)

Spec == Init /\ [][Next]_vars
=============================================================================
