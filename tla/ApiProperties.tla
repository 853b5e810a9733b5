--------------------------- MODULE ApiProperties ---------------------------
(***************************************************************************)
(* What is expected of the API: of conversations, of access, of answers    *)
(* and of the audit trail.                                                 *)
(***************************************************************************)
EXTENDS ApiService

(***************************************************************************)
(* Every variable has values of its type.                                  *)
(***************************************************************************)
TypeOK == /\ sessions \subseteq SessionId
          /\ messages \in [SessionId -> Seq(Message)]
          /\ clock \in Time
          /\ active \subseteq Users
          /\ assigned \in [Users -> SUBSET Roles]
          /\ keyOwner \in [KeyIds -> Users \cup {System, None}]
          /\ tokens \in [Requests -> Token \cup {NoToken}]
          /\ settings \in SettingsChoices
          /\ base \in 0..MaxDocs
          /\ answer \in [Requests -> Answer]
          /\ request \in [Requests -> Request]
          /\ enqueued \subseteq Requests
          /\ audits \subseteq Requests

-----------------------------------------------------------------------------
(* The parts of the inductive invariant.                                   *)

Asking == {"history", "sessionOfQuestion", "question"}

Replying == {"answer", "sessionOfAnswer", "reply"}

LoginReading == {"loginUser", "loginRoles", "loginPermissions"}

(***************************************************************************)
(* Where a handler is tells what kind of request it handles and what it    *)
(* has written.                                                            *)
(***************************************************************************)
Progress ==
  \A r \in Requests : LET q == request[r] IN
    /\ q.pc = "new" => q.kind = None /\ q.session = None
    /\ q.pc \in LoginReading => q.kind = "login"
    /\ q.pc \in Reading \ LoginReading => q.kind \in Kinds \ {"login"}
    /\ q.pc = "openSession" => q.kind \in {"chat", "session"}
    /\ q.pc = "enqueue" => q.kind = "ingest"
    /\ q.pc = "createKey" => q.kind = "key"
    /\ q.pc \in Asking \cup Replying => q.kind = "chat" /\ q.session \in SessionId
    /\ q.pc \in {"new", "openSession"} \cup Reading \cup Asking => q.wrote = 0
    /\ q.pc \in Replying => q.wrote = 1
    /\ q.pc \in {"audit", "respond"} /\ q.kind = "chat" => q.wrote = 2
    /\ Succeeded(r) /\ q.kind = "chat" => q.wrote = 2
    /\ q.wrote > 0 => q.kind = "chat" /\ q.session \in SessionId

(***************************************************************************)
(* A row of a session belongs to a request of that session that has        *)
(* counted it, a row counted is there, and no row is there twice.          *)
(***************************************************************************)
Speaker(n) == IF n = 1 THEN "user" ELSE "assistant"

RowsCounted ==
  \A s \in SessionId : \A i \in 1..Len(messages[s]) :
    LET m == messages[s][i] IN
      /\ request[m.of].session = s
      /\ request[m.of].wrote >= IF m.role = "user" THEN 1 ELSE 2

CountedRows ==
  \A r \in Requests : \A n \in 1..request[r].wrote :
    \E i \in 1..Len(messages[request[r].session]) :
      messages[request[r].session][i] = Says(Speaker(n), r)

RowsOrdered ==
  \A s \in SessionId : \A i \in 1..Len(messages[s]) :
    messages[s][i].role = "assistant" =>
      \E j \in 1..(i - 1) : messages[s][j] = Says("user", messages[s][i].of)

RowsOnce ==
  \A s \in SessionId : \A i, j \in 1..Len(messages[s]) :
    messages[s][i] = messages[s][j] => i = j

(***************************************************************************)
(* Between login and token, and between a key and admission, nobody has    *)
(* read more roles than the user had when the request arrived.             *)
(***************************************************************************)
ReadingOwn == LoginReading \cup {"keyUser", "keyRoles", "keyPermissions"}

WithinHeld(roles, permissions, held) ==
  roles \subseteq held /\ permissions \subseteq GrantedTo(held)

ReadsHeld ==
  /\ \A r \in Requests : LET q == request[r] IN
       /\ q.pc \in Reading \cup Working => q.user # None
       /\ q.pc \in LoginReading => q.user \in Users
       /\ q.pc \in ReadingOwn /\ q.user \in Users => assigned[q.user] \subseteq q.held
       /\ q.pc \in ReadingOwn => WithinHeld(q.roles, q.permissions, q.held)
       /\ q.user \in active /\ q.pc \in Reading => q.wasActive
       /\ q.pc \in {"keyRoles", "keyPermissions"} => q.user \in Users /\ q.wasActive
       /\ q.pc \in Reading => q.at <= clock
  /\ \A t \in Requests : WithinHeld(tokens[t].roles, tokens[t].permissions, tokens[t].held)

(***************************************************************************)
(* Who is about to be admitted, and why.                                   *)
(***************************************************************************)
Bears(q) == q.token # None

Vouched ==
  \A r \in Requests : LET q == request[r] IN
    /\ q.pc = "bearer" => q.token \in Requests
    /\ Bears(q) => /\ q.token \in Requests
                   /\ request[q.token].pc = "done"
                   /\ tokens[q.token].user = q.user
                   /\ q.pc \in {"bearer", "admit"} \/ request[r].pc \notin Working \cup Reading
    /\ q.pc = "admit" /\ q.user = System => ~settings.secured
    /\ q.pc = "admit" /\ q.user # System =>
         /\ q.wasActive
         /\ IF Bears(q)
            THEN /\ WithinHeld(q.roles, q.permissions, tokens[q.token].held)
                 /\ q.at <= tokens[q.token].exp
            ELSE WithinHeld(q.roles, q.permissions, q.held)

(***************************************************************************)
(* The history of a question is a beginning of its session, without the    *)
(* question itself, that reaches over everything the session held when the *)
(* request arrived, up to the limit of get_messages.  The handler reads it *)
(* before it stores the question, and other requests of the session write  *)
(* in between (routes.py 94-117).                                          *)
(***************************************************************************)
ContextFaithful ==
  \A r \in Requests : LET q == request[r] IN
    request[r].pc \in {"sessionOfQuestion", "question", "answer"} =>
      /\ Len(q.history) <= Len(messages[q.session])
      /\ \A i \in 1..Len(q.history) : /\ q.history[i] = messages[q.session][i]
                                      /\ q.history[i].of # r
      /\ q.arrived <= Len(q.history) \/ Len(q.history) = MaxHistory

ArrivedWithin ==
  \A r \in Requests : LET q == request[r] IN
    /\ q.session \in SessionId => q.arrived <= Len(messages[q.session])
    /\ q.session = None => q.arrived = 0
    /\ q.pc = "openSession" \/ (q.pc \in Reading /\ q.kind # "chat") => q.session = None

(***************************************************************************)
(* Every message has its session: SQLite does not enforce the foreign key, *)
(* and a client may bring an id of its own making (session_repository.py   *)
(* 42).                                                                    *)
(***************************************************************************)
MessagesHaveSession ==
  \A s \in SessionId : messages[s] # <<>> => s \in sessions

SessionOpen ==
  \A r \in Requests :
    request[r].pc \in {"question", "reply"} => request[r].session \in sessions

(***************************************************************************)
(* The audit trail is what happened: a request answered with 200 is in it, *)
(* and what is in it was done before, although work and audit are separate *)
(* transactions (routes.py 131, auth_routes.py 38 and 90).                 *)
(***************************************************************************)
Done(r) == CASE request[r].kind = "login"  -> tokens[r] # NoToken
             [] request[r].kind = "chat"   -> request[r].wrote = 2
             [] request[r].kind = "ingest" -> r \in enqueued
             [] request[r].kind = "key"    -> keyOwner[r] # None
             [] OTHER                      -> FALSE

AuditTrail ==
  \A r \in Requests :
    /\ Succeeded(r) /\ request[r].kind # "session" => r \in audits
    /\ r \in audits => Done(r)

DoneBeforeAudit ==
  \A r \in Requests :
    /\ request[r].pc \in {"audit", "respond"} /\ request[r].kind # "session" => Done(r)
    /\ request[r].pc = "respond" /\ request[r].kind # "session" => r \in audits
    /\ request[r].pc = "audit" => request[r].kind # "session"

(***************************************************************************)
(* What an answer is built from was in the knowledge base, which only      *)
(* grows.                                                                  *)
(***************************************************************************)
AnswersGrow ==
  \A r \in Requests : LET a == answer[r] IN
    /\ a.context.docs <= base
    /\ a.context.source = "base" => base > 0
    /\ \/ a.stage \in {"generate", "evidence", "build"}
       \/ a.stage = "answered" /\ a.route \in {"graph", "policy"}
       => (a.known > 0 => a.context.source = "base" /\ a.context.docs >= a.known)
    /\ a.stage = "build" => a.evidence = a.context
    /\ a.known <= base

-----------------------------------------------------------------------------
(* Conversations.                                                          *)

(***************************************************************************)
(* A session is a conversation: no line is stored twice, every answer      *)
(* stands after its own question, and a chat answered with 200 has left    *)
(* both, in whatever order the requests of a session get ahead of each     *)
(* other (routes.py 107-129).                                              *)
(***************************************************************************)
AnswersFollow ==
  /\ RowsOnce /\ RowsOrdered
  /\ \A r \in Requests : Succeeded(r) /\ request[r].kind = "chat" =>
       \E i \in 1..Len(messages[request[r].session]) :
         messages[request[r].session][i] = Says("assistant", r)

(***************************************************************************)
(* The agent is given the recent conversation: what it is prompted with    *)
(* ends with a line at least as recent as the last one the session held    *)
(* when the request arrived (README.md 66).  get_messages returns the      *)
(* oldest rows of a long session (session_repository.py 88).               *)
(***************************************************************************)
Continues(r) ==
  Is(r, "answer") /\ At(r, "agent") /\ UsesGraphAgent(r) /\ request[r].arrived > 0 =>
    LET prompt == Prompt(request[r].history)
        s == request[r].session
    IN /\ prompt # <<>>
       /\ \E i \in request[r].arrived..Len(messages[s]) : messages[s][i] = prompt[Len(prompt)]

ContextContinues == \A r \in Requests : Continues(r)

(***************************************************************************)
(* The same of a session that held no more lines than get_messages reads   *)
(* when the request arrived, however many others have come in since.       *)
(***************************************************************************)
ContextContinuesWithin ==
  \A r \in Requests : request[r].arrived <= MaxHistory => Continues(r)

(***************************************************************************)
(* The API implements the exchange a client may rely on: see ChatExchange. *)
(***************************************************************************)
StageOf(q) ==
  IF q.kind # "chat" THEN "none"
  ELSE IF q.pc \in {"done", "lost"} THEN IF q.status = 200 THEN "confirmed" ELSE "over"
  ELSE IF q.wrote = 0 THEN "none"
  ELSE IF q.wrote = 1 THEN "asked" ELSE "replied"

ExchangeOf(q) == [stage |-> StageOf(q), session |-> IF q.wrote = 0 THEN None ELSE q.session]

Exchanging == [r \in Requests |-> ExchangeOf(request[r])]

Exchanges == INSTANCE ChatExchange WITH
  Asker <- Requests, Sessions <- SessionId, Nowhere <- None,
  transcript <- messages, exchange <- Exchanging

ImplementsExchange == Exchanges!ChatSpec

-----------------------------------------------------------------------------
(* Access.                                                                 *)

Admits(r) == Is(r, "admit") /\ request'[r].pc \in Working

(***************************************************************************)
(* Whoever is admitted was entitled to it: with security on, the user was  *)
(* active when the request arrived, and had a role that grants what the    *)
(* request needs at that moment, or, with a token, at the login it stems   *)
(* from, no longer ago than a token lives.  Roles and permissions are read *)
(* in two transactions (auth/service.py 37-38, 95-96), a token carries     *)
(* them along while the tables change.                                     *)
(***************************************************************************)
EntitledNow(r) ==
  LET q == request[r]
      held == IF Bears(q) THEN tokens[q.token].held ELSE q.held
  IN IF q.user = System THEN ~settings.secured
     ELSE /\ q.wasActive
          /\ Needed(q.kind) \in GrantedTo(held)
          /\ Bears(q) => tokens[q.token].user = q.user /\ q.at <= tokens[q.token].exp

Entitled == [][\A r \in Requests : Admits(r) => EntitledNow(r)]_vars

-----------------------------------------------------------------------------
(* Answers.                                                                *)

(***************************************************************************)
(* A mock request never leaves the process, on a live server either: the   *)
(* policy search, the web search, the embedder and both LangGraph chains   *)
(* take their settings from the request (routes.py 81-92).                 *)
(***************************************************************************)
MockIsolated == \A r \in Requests : answer[r].mock => ~answer[r].outside

(***************************************************************************)
(* A policy answer rests on the knowledge base: with documents there when  *)
(* the question was stored, it is built from them and shows evidence from  *)
(* them, never older than what it was built from, although the LangGraph   *)
(* chain searches twice and every search may fall through to Pinecone and  *)
(* the static documents (rag/service.py 108-145, vector_store.py 103-140). *)
(***************************************************************************)
Grounded ==
  \A r \in Requests : LET a == answer[r] IN
    a.stage = "answered" /\ a.route \in {"graph", "policy"} =>
      /\ a.known > 0 => a.context.source = "base" /\ a.context.docs >= a.known
      /\ a.evidence.docs >= a.context.docs
      /\ a.context.source = "base" => a.evidence.source = "base"
      /\ a.route = "policy" => a.evidence = a.context

-----------------------------------------------------------------------------
(* The inductive invariant.                                                *)

Conversing == /\ Progress
              /\ RowsCounted /\ CountedRows /\ RowsOnce /\ RowsOrdered
              /\ MessagesHaveSession /\ SessionOpen

Remembering == ArrivedWithin /\ ContextFaithful

Answered == MockIsolated /\ AnswersGrow /\ Grounded

Accounting == AuditTrail /\ DoneBeforeAudit

IInv == /\ TypeOK
        /\ Conversing
        /\ Remembering
        /\ ReadsHeld /\ Vouched
        /\ Answered
        /\ Accounting
=============================================================================
