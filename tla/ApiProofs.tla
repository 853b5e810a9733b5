----------------------------- MODULE ApiProofs -----------------------------
(***************************************************************************)
(* Theorems about the API, for any number of requests, users, sessions and *)
(* keys, any settings and any fault.                                       *)
(***************************************************************************)
EXTENDS ApiProperties, SequenceTheorems, TLAPS

-----------------------------------------------------------------------------
(* Types.                                                                  *)

(***************************************************************************)
(* The record of a request stays one whatever a step does to it.           *)
(***************************************************************************)
LEMMA RequestStays ==
  ASSUME TypeOK, NEW r \in Requests, NEW q \in Request, Becomes(r, q)
  PROVE  /\ request' \in [Requests -> Request]
         /\ request'[r] = q
         /\ \A i \in Requests \ {r} : request'[i] = request[i]
  BY DEF TypeOK, Becomes

(***************************************************************************)
(* Each field of the record may be set to any value of its type; several   *)
(* fields are set one after the other.                                     *)
(***************************************************************************)
PCs == {"new", "done", "lost"} \cup Reading \cup Working

Statuses == {0, 200, 401, 403, 429, 500}

LEMMA FieldsTyped ==
  \A q \in Request :
    /\ \A x \in PCs                          : [q EXCEPT !.pc = x] \in Request
    /\ \A x \in Kinds \cup {None}            : [q EXCEPT !.kind = x] \in Request
    /\ \A x \in Statuses                     : [q EXCEPT !.status = x] \in Request
    /\ \A x \in Users \cup {System, None}    : [q EXCEPT !.user = x] \in Request
    /\ \A x \in Requests \cup {None}         : [q EXCEPT !.token = x] \in Request
    /\ \A x \in BOOLEAN                      : [q EXCEPT !.mock = x] \in Request
    /\ \A x \in SessionId \cup {None}        : [q EXCEPT !.session = x] \in Request
    /\ \A x \in SUBSET Roles                 : [q EXCEPT !.roles = x] \in Request
    /\ \A x \in SUBSET Permissions           : [q EXCEPT !.permissions = x] \in Request
    /\ \A x \in Seq(Message)                 : [q EXCEPT !.history = x] \in Request
    /\ \A x \in {0, 1, 2}                    : [q EXCEPT !.wrote = x] \in Request
    /\ \A x \in Time                         : [q EXCEPT !.at = x] \in Request
    /\ \A x \in SUBSET Roles                 : [q EXCEPT !.held = x] \in Request
    /\ \A x \in BOOLEAN                      : [q EXCEPT !.wasActive = x] \in Request
    /\ \A x \in Nat                          : [q EXCEPT !.arrived = x] \in Request
  <1> TAKE q \in Request
  <1>1. \A x \in PCs : [q EXCEPT !.pc = x] \in Request
    BY DEF Request, PCs
  <1>2. \A x \in Kinds \cup {None} : [q EXCEPT !.kind = x] \in Request
    BY DEF Request
  <1>3. \A x \in Statuses : [q EXCEPT !.status = x] \in Request
    BY DEF Request, Statuses
  <1>4. \A x \in Users \cup {System, None} : [q EXCEPT !.user = x] \in Request
    BY DEF Request
  <1>5. \A x \in Requests \cup {None} : [q EXCEPT !.token = x] \in Request
    BY DEF Request
  <1>6. \A x \in BOOLEAN : [q EXCEPT !.mock = x] \in Request
    BY DEF Request
  <1>7. \A x \in SessionId \cup {None} : [q EXCEPT !.session = x] \in Request
    BY DEF Request
  <1>8. \A x \in SUBSET Roles : [q EXCEPT !.roles = x] \in Request
    BY DEF Request
  <1>9. \A x \in SUBSET Permissions : [q EXCEPT !.permissions = x] \in Request
    BY DEF Request
  <1>10. \A x \in Seq(Message) : [q EXCEPT !.history = x] \in Request
    BY SMTT(60) DEF Request
  <1>11. \A x \in {0, 1, 2} : [q EXCEPT !.wrote = x] \in Request
    BY DEF Request
  <1>12. \A x \in Time : [q EXCEPT !.at = x] \in Request
    BY DEF Request
  <1>13. \A x \in SUBSET Roles : [q EXCEPT !.held = x] \in Request
    BY DEF Request
  <1>14. \A x \in BOOLEAN : [q EXCEPT !.wasActive = x] \in Request
    BY DEF Request
  <1>15. \A x \in Nat : [q EXCEPT !.arrived = x] \in Request
    BY DEF Request
  <1> QED
    BY <1>1, <1>2, <1>3, <1>4, <1>5, <1>6, <1>7, <1>8, <1>9, <1>10, <1>11, <1>12, <1>13,
       <1>14, <1>15

LEMMA NewTyped == NewRequest \in Request
  BY StoreAssumption, AccessAssumption DEF NewRequest, Request, Time

LEMMA LeavingTyped ==
  ASSUME TypeOK, NEW r \in Requests, NEW pc \in {"done", "lost"}, NEW status \in Statuses
  PROVE  Leaving(r, pc, status) \in Request
  <1>1. request[r] \in Request
    BY DEF TypeOK
  <1>2. /\ request[r].kind \in Kinds \cup {None}
        /\ request[r].session \in SessionId \cup {None}
        /\ request[r].wrote \in {0, 1, 2}
    BY <1>1 DEF Request
  <1>3. pc \in PCs
    BY DEF PCs
  <1> QED
    BY <1>2, <1>3, NewTyped, FieldsTyped, Zenon DEF Leaving

(***************************************************************************)
(* The record of an answer stays one.                                      *)
(***************************************************************************)
LEMMA AnswerStays ==
  ASSUME TypeOK, NEW r \in Requests, NEW a \in Answer, Turns(r, a)
  PROVE  answer' \in [Requests -> Answer]
  BY DEF TypeOK, Turns

LEMMA NoAnswerTyped == NoAnswer \in Answer
  BY AnsweringAssumption DEF NoAnswer, Answer, Hit, NoHit, Stages

LEMMA HitsTyped ==
  ASSUME base \in 0..MaxDocs, NEW r, NEW hit \in Hits(r)
  PROVE  hit \in Hit
  BY AnsweringAssumption DEF Hits, Hit

LEMMA AnswerStepTyped ==
  ASSUME TypeOK, NEW r \in Requests, AnswerStep(r)
  PROVE  answer' \in [Requests -> Answer]
  <1> DEFINE open == Reaches(r, "openai")
             web  == Reaches(r, "tavily")
             a    == answer[r]
             tried    == UsesGraphAgent(r) /\ open
             searched == a.outside \/ open
             surfed   == a.outside \/ web
  <1>1. a \in Answer
    BY DEF TypeOK
  <1>2. tried \in BOOLEAN /\ searched \in BOOLEAN /\ surfed \in BOOLEAN
    OBVIOUS
  <1>3. \A hit \in Hits(r) : hit \in Hit
    BY HitsTyped DEF TypeOK
  <1>4. CASE \/ AgentAnswers(r) \/ WebRaises(r) \/ Generate(r)
             \/ SearchPolicy(r) \/ FindEvidence(r)
    BY <1>1, <1>3, <1>4, AnswerStays
       DEF AgentAnswers, WebRaises, Generate, SearchPolicy, FindEvidence, Answer, Stages
  <1>5. CASE AgentFallsBack(r)
    <2>1. Turns(r, [a EXCEPT !.stage = "dispatch", !.outside = tried])
      BY <1>5 DEF AgentFallsBack
    <2> HIDE DEF tried
    <2> QED
      BY <1>1, <1>2, <2>1, AnswerStays DEF Answer, Stages
  <1>6. CASE SearchWeb(r)
    <2>1. Turns(r, [a EXCEPT !.stage = "answered", !.route = "tavily", !.outside = surfed])
      BY <1>6 DEF SearchWeb
    <2> HIDE DEF surfed
    <2> QED
      BY <1>1, <1>2, <2>1, AnswerStays DEF Answer, Stages
  <1>7. CASE Retrieve(r)
    <2>1. PICK hit \in Hits(r) :
            Turns(r, [a EXCEPT !.stage = "generate", !.context = hit, !.outside = searched])
      BY <1>7 DEF Retrieve
    <2> HIDE DEF searched
    <2> QED
      BY <1>1, <1>2, <1>3, <2>1, AnswerStays DEF Answer, Stages
  <1>8. CASE GraphFallsBack(r)
    <2>1. Turns(r, [a EXCEPT !.stage = "search", !.context = NoHit, !.outside = searched])
      BY <1>8 DEF GraphFallsBack
    <2> HIDE DEF searched
    <2> QED
      BY <1>1, <1>2, <2>1, AnswerStays, NoAnswerTyped DEF Answer, Stages, NoAnswer
  <1>9. CASE Search(r)
    <2>1. PICK hit \in Hits(r) :
            Turns(r, [a EXCEPT !.stage = "build", !.context = hit, !.evidence = hit,
                               !.outside = searched])
      BY <1>9 DEF Search
    <2> HIDE DEF searched
    <2> QED
      BY <1>1, <1>2, <1>3, <2>1, AnswerStays DEF Answer, Stages
  <1>10. CASE Build(r)
    <2>1. Turns(r, [a EXCEPT !.stage = "answered", !.route = "policy", !.outside = searched])
      BY <1>10 DEF Build
    <2> HIDE DEF searched
    <2> QED
      BY <1>1, <1>2, <2>1, AnswerStays DEF Answer, Stages
  <1>11. CASE PolicyRaises(r)
    <2>1. Turns(r, [a EXCEPT !.stage = "raised", !.outside = searched])
      BY <1>11 DEF PolicyRaises
    <2> HIDE DEF searched
    <2> QED
      BY <1>1, <1>2, <2>1, AnswerStays DEF Answer, Stages
  <1> QED
    BY <1>4, <1>5, <1>6, <1>7, <1>8, <1>9, <1>10, <1>11 DEF AnswerStep

(***************************************************************************)
(* What arrives is a request.                                              *)
(***************************************************************************)
LEMMA ArrivingTyped ==
  ASSUME TypeOK, NEW kind \in Kinds, NEW u \in Users \cup {System, None}, NEW pc \in PCs
  PROVE  Arriving(kind, u, pc) \in Request
  <1> DEFINE roles == IF u \in Users THEN assigned[u] ELSE {}
             wasActive == u \in active
  <1>1. roles \in SUBSET Roles
    BY DEF TypeOK
  <1>2. wasActive \in BOOLEAN
    OBVIOUS
  <1>3. clock \in Time
    BY DEF TypeOK
  <1>4. kind \in Kinds \cup {None}
    OBVIOUS
  <1>5. Arriving(kind, u, pc) =
          [NewRequest EXCEPT !.pc = pc, !.kind = kind, !.user = u, !.at = clock,
                             !.held = roles, !.wasActive = wasActive]
    BY Zenon DEF Arriving
  <1> HIDE DEF roles, wasActive
  <1> DEFINE q == [NewRequest EXCEPT !.pc = pc, !.kind = kind, !.user = u]
  <1>6. q \in Request
    BY <1>4, NewTyped, FieldsTyped, Zenon
  <1> DEFINE p == [q EXCEPT !.at = clock]
  <1>7. Arriving(kind, u, pc) = [p EXCEPT !.held = roles, !.wasActive = wasActive]
    BY <1>5, Zenon
  <1> HIDE DEF q
  <1>8. p \in Request
    BY <1>3, <1>6, FieldsTyped, Zenon
  <1> HIDE DEF p
  <1>9. [p EXCEPT !.held = roles] \in Request
    BY <1>1, <1>8, FieldsTyped, Zenon
  <1> QED
    BY <1>2, <1>7, <1>9, FieldsTyped, Zenon

LEMMA CredentialedTyped ==
  ASSUME TypeOK, NEW kind \in Kinds, NEW q \in Credentialed(kind)
  PROVE  q \in Request
  <1>1. "done" \in PCs /\ "admit" \in PCs /\ "bearer" \in PCs /\ "keyUser" \in PCs
    BY DEF PCs, Reading
  <1>2. CASE q \in Bearing(kind)
    <2>1. PICK t \in Requests :
            /\ Succeeded(t) /\ request[t].kind = "login"
            /\ q = [Arriving(kind, tokens[t].user, "bearer") EXCEPT !.token = t]
      BY <1>2, Zenon DEF Bearing
    <2>2. tokens[t].user \in Users \cup {System, None}
      BY DEF TypeOK, Token, NoToken
    <2>3. Arriving(kind, tokens[t].user, "bearer") \in Request
      BY <1>1, <2>2, ArrivingTyped
    <2> QED
      BY <2>1, <2>3, FieldsTyped, Zenon
  <1>3. CASE q \in Keyed(kind)
    <2>1. PICK k \in KeyIds : q = Arriving(kind, keyOwner[k], "keyUser")
      BY <1>3 DEF Keyed
    <2>2. keyOwner[k] \in Users \cup {System, None}
      BY DEF TypeOK
    <2> QED
      BY <1>1, <2>1, <2>2, ArrivingTyped
  <1>4. CASE q = Bare(kind)
    <2>1. Arriving(kind, None, "done") \in Request /\ 401 \in Statuses
      BY <1>1, ArrivingTyped DEF Statuses
    <2> QED
      BY <1>4, <2>1 DEF Bare, Request
  <1>5. CASE q = AsSystem(kind)
    <2>1. Arriving(kind, System, "admit") \in Request
      BY <1>1, ArrivingTyped
    <2>2. {"admin"} \in SUBSET Roles /\ {"admin:full"} \in SUBSET Permissions
      BY DEF Roles, Permissions
    <2> QED
      BY <1>5, <2>1, <2>2, FieldsTyped, Zenon DEF AsSystem
  <1> QED
    BY <1>2, <1>3, <1>4, <1>5, Zenon DEF Credentialed

LEMMA AdmittedTyped ==
  ASSUME NEW q \in Request
  PROVE  Admitted(q) \in Request
  <1>1. None \in Requests \cup {None} /\ {} \in SUBSET Roles /\ {} \in SUBSET Permissions
        /\ FALSE \in BOOLEAN
    OBVIOUS
  <1>2. 0 \in Time
    BY AccessAssumption DEF Time
  <1> QED
    BY <1>1, <1>2, FieldsTyped, Zenon DEF Admitted

(***************************************************************************)
(* Every step leaves request records where request records were.           *)
(***************************************************************************)
LEMMA GoesTyped ==
  ASSUME TypeOK, NEW r \in Requests, NEW pc \in PCs, Goes(r, pc)
  PROVE  request' \in [Requests -> Request]
  <1>1. [request[r] EXCEPT !.pc = pc] \in Request
    BY FieldsTyped, Zenon DEF TypeOK
  <1> QED
    BY <1>1, RequestStays DEF Goes

LEMMA EndsTyped ==
  ASSUME TypeOK, NEW r \in Requests, NEW status \in Statuses, Ends(r, status)
  PROVE  request' \in [Requests -> Request]
  BY LeavingTyped, RequestStays DEF Ends

LEMMA ArrivalTyped ==
  ASSUME TypeOK, NEW r \in Requests, ArriveLogin(r) \/ ArriveOther(r) \/ ArriveChat(r)
  PROVE  request' \in [Requests -> Request]
  <1>1. CASE ArriveLogin(r)
    <2>1. PICK u \in Users : Becomes(r, Arriving("login", u, "loginUser"))
      BY <1>1 DEF ArriveLogin
    <2>2. "login" \in Kinds /\ "loginUser" \in PCs
      BY DEF Kinds, PCs, Reading
    <2> QED
      BY <2>1, <2>2, ArrivingTyped, RequestStays
  <1>2. CASE ArriveOther(r)
    <2>1. PICK kind \in Offers[r] : \E q \in Credentialed(kind) : Becomes(r, q)
      BY <1>2, Zenon DEF ArriveOther
    <2>2. PICK q \in Credentialed(kind) : Becomes(r, q)
      BY <2>1
    <2>3. kind \in Kinds
      BY ApiAssumption
    <2>4. q \in Request
      BY <2>3, CredentialedTyped
    <2> QED
      BY <2>2, <2>4, RequestStays
  <1>3. CASE ArriveChat(r)
    <2> DEFINE past(s) == IF s = None THEN 0 ELSE Len(messages[s])
    <2>1. PICK q \in Credentialed("chat"), s \in KnownSessions \cup {None}, asksMock \in BOOLEAN :
            Becomes(r, [q EXCEPT !.mock = settings.mock \/ asksMock, !.session = s,
                                 !.arrived = past(s)])
      BY <1>3, Zenon DEF ArriveChat
    <2> DEFINE mock == settings.mock \/ asksMock
    <2>2. q \in Request
      BY CredentialedTyped DEF Kinds
    <2>3. s \in SessionId \cup {None}
      BY DEF KnownSessions, SessionId
    <2>4. past(s) \in Nat
      BY <2>3 DEF TypeOK
    <2>5. mock \in BOOLEAN
      OBVIOUS
    <2>6. Becomes(r, [q EXCEPT !.mock = mock, !.session = s, !.arrived = past(s)])
      BY <2>1
    <2> HIDE DEF past, mock
    <2>7. [q EXCEPT !.mock = mock, !.session = s, !.arrived = past(s)] \in Request
      BY <2>2, <2>3, <2>4, <2>5, FieldsTyped, Zenon
    <2> QED
      BY <2>6, <2>7, RequestStays
  <1> QED
    BY <1>1, <1>2, <1>3

LEMMA TokensTyped ==
  ASSUME TypeOK, NEW t \in Requests
  PROVE  /\ tokens[t].roles \in SUBSET Roles
         /\ tokens[t].permissions \in SUBSET Permissions
         /\ tokens[t].held \in SUBSET Roles
         /\ tokens[t].user \in Users \cup {None}
         /\ tokens[t].exp \in Int
  <1>1. CASE tokens[t] \in Token
    BY <1>1 DEF Token
  <1>2. CASE tokens[t] = NoToken
    BY <1>2 DEF NoToken
  <1> QED
    BY <1>1, <1>2 DEF TypeOK

LEMMA ReadingTyped ==
  ASSUME TypeOK, Progress, ReadsHeld, Vouched, NEW r \in Requests,
         \/ LoginUser(r) \/ LoginRoles(r) \/ LoginPermissions(r)
         \/ Bearer(r) \/ KeyUser(r) \/ KeyRoles(r) \/ KeyPermissions(r) \/ Admit(r)
  PROVE  request' \in [Requests -> Request]
  <1>1. request[r] \in Request
    BY DEF TypeOK
  <1>2. {401, 403, 429, 500} \subseteq Statuses
    BY DEF Statuses
  <1>3. Reading \cup Working \subseteq PCs
    BY DEF PCs
  <1>4. /\ \A u \in Users : ListRoles(u) \in SUBSET Roles
        /\ \A u \in Users : ListPermissions(u) \in SUBSET Permissions
    <2>1. \A u \in Users : ListRoles(u) \in SUBSET Roles
      BY DEF TypeOK, ListRoles
    <2>2. \A roles \in SUBSET Roles : GrantedTo(roles) \in SUBSET Permissions
      BY DEF GrantedTo, Grants, Roles, Permissions, OperatorGrants, ViewerGrants
    <2> QED
      BY <2>1, <2>2 DEF ListRoles, ListPermissions
  <1>5. request[r].pc \in LoginReading \cup {"keyRoles", "keyPermissions"} =>
          request[r].user \in Users
    BY DEF ReadsHeld
  <1>6. CASE LoginUser(r)
    BY <1>2, <1>3, <1>6, GoesTyped, EndsTyped DEF LoginUser, Reading
  <1>7. CASE LoginPermissions(r)
    <2>1. Admitted(request[r]) \in Request /\ "audit" \in PCs
      BY <1>1, <1>3, AdmittedTyped DEF Working
    <2>2. [Admitted(request[r]) EXCEPT !.pc = "audit"] \in Request
      BY <2>1, FieldsTyped, Zenon
    <2> QED
      BY <1>7, <2>2, RequestStays DEF LoginPermissions
  <1>8. CASE Bearer(r)
    <2> DEFINE t == request[r].token
               q == [request[r] EXCEPT !.pc = "admit", !.roles = tokens[t].roles,
                                       !.permissions = tokens[t].permissions]
    <2>1. t \in Requests
      BY <1>8 DEF Bearer, Is, Vouched
    <2>2. tokens[t].roles \in SUBSET Roles /\ tokens[t].permissions \in SUBSET Permissions
      BY <2>1, TokensTyped
    <2>3. "admit" \in PCs
      BY <1>3 DEF Reading
    <2>4. q \in Request
      BY <1>1, <2>2, <2>3, FieldsTyped, Zenon
    <2>5. Ends(r, 401) \/ Becomes(r, q)
      BY <1>8, Zenon DEF Bearer
    <2> QED
      BY <1>2, <2>4, <2>5, EndsTyped, RequestStays
  <1>9. CASE KeyUser(r)
    BY <1>2, <1>3, <1>9, GoesTyped, EndsTyped DEF KeyUser, Reading
  <1>10. CASE LoginRoles(r) \/ KeyRoles(r)
    <2>1. ListRoles(request[r].user) \in SUBSET Roles
      BY <1>4, <1>5, <1>10 DEF LoginRoles, KeyRoles, Is, LoginReading
    <2>2. PICK pc \in {"loginPermissions", "keyPermissions"} :
            Becomes(r, [request[r] EXCEPT !.pc = pc, !.roles = ListRoles(request[r].user)])
      BY <1>10, Zenon DEF LoginRoles, KeyRoles
    <2>3. pc \in PCs
      BY <1>3 DEF Reading
    <2>4. [request[r] EXCEPT !.pc = pc, !.roles = ListRoles(request[r].user)] \in Request
      BY <1>1, <2>1, <2>3, FieldsTyped, Zenon
    <2> QED
      BY <2>2, <2>4, RequestStays
  <1>11. CASE KeyPermissions(r)
    <2>1. ListPermissions(request[r].user) \in SUBSET Permissions /\ "admit" \in PCs
      BY <1>3, <1>4, <1>5, <1>11 DEF KeyPermissions, Is, Reading
    <2>2. [request[r] EXCEPT !.pc = "admit",
                             !.permissions = ListPermissions(request[r].user)] \in Request
      BY <1>1, <2>1, FieldsTyped, Zenon
    <2> QED
      BY <1>11, <2>2, RequestStays DEF KeyPermissions
  <1>12. CASE Admit(r)
    <2>1. request[r].kind \in Kinds \ {"login"}
      BY <1>12 DEF Admit, Is, Progress, Reading, LoginReading
    <2>2. FirstStep(request[r]) \in PCs
      BY <1>3, <2>1 DEF FirstStep, Working, Kinds
    <2>3. Admitted(request[r]) \in Request
      BY <1>1, AdmittedTyped
    <2>4. [Admitted(request[r]) EXCEPT !.pc = FirstStep(request[r])] \in Request
      BY <2>2, <2>3, FieldsTyped, Zenon
    <2> QED
      BY <1>2, <1>12, <2>4, EndsTyped, RequestStays DEF Admit
  <1> QED
    BY <1>6, <1>7, <1>8, <1>9, <1>10, <1>11, <1>12

LEMMA GetMessagesTyped ==
  ASSUME TypeOK, NEW s \in SessionId
  PROVE  /\ GetMessages(s) \in Seq(Message)
         /\ Len(GetMessages(s)) = Least(MaxHistory, Len(messages[s]))
         /\ Least(MaxHistory, Len(messages[s])) \in 0..Len(messages[s])
         /\ \A i \in 1..Len(GetMessages(s)) : GetMessages(s)[i] = messages[s][i]
  <1> DEFINE n == Least(MaxHistory, Len(messages[s]))
  <1>1. messages[s] \in Seq(Message) /\ Len(messages[s]) \in Nat
    BY DEF TypeOK
  <1>2. n \in 0..Len(messages[s])
    BY <1>1, StoreAssumption DEF Least
  <1> HIDE DEF n
  <1>3. /\ SubSeq(messages[s], 1, n) \in Seq(Message)
        /\ Len(SubSeq(messages[s], 1, n)) = n
        /\ \A i \in 1..n : SubSeq(messages[s], 1, n)[i] = messages[s][i]
    BY <1>1, <1>2, SubSeqProperties
  <1> QED
    BY <1>2, <1>3 DEF GetMessages, n

LEMMA WorkingTyped ==
  ASSUME TypeOK, Progress, NEW r \in Requests,
         \/ OpenSession(r) \/ ReadHistory(r) \/ EnsureSession(r) \/ StoreQuestion(r)
         \/ TakeAnswer(r) \/ StoreReply(r) \/ Enqueue(r) \/ CreateKey(r)
         \/ Audit(r) \/ Respond(r) \/ DbRaises(r)
  PROVE  request' \in [Requests -> Request]
  <1>1. request[r] \in Request
    BY DEF TypeOK
  <1>2. {200, 500} \subseteq Statuses
    BY DEF Statuses
  <1>3. Working \subseteq PCs
    BY DEF PCs
  <1>4. CASE OpenSession(r)
    <2> DEFINE pc == IF request[r].kind = "chat" THEN "history" ELSE "respond"
    <2>1. pc \in PCs
      BY <1>3 DEF Working
    <2>2. r \in SessionId \cup {None}
      BY DEF SessionId
    <2>3. Becomes(r, [request[r] EXCEPT !.session = r, !.pc = pc])
      BY <1>4, Zenon DEF OpenSession
    <2> HIDE DEF pc
    <2>4. [request[r] EXCEPT !.session = r, !.pc = pc] \in Request
      BY <1>1, <2>1, <2>2, FieldsTyped, Zenon
    <2> QED
      BY <2>3, <2>4, RequestStays
  <1>5. CASE ReadHistory(r)
    <2>1. request[r].session \in SessionId
      BY <1>5 DEF ReadHistory, Is, Progress, Asking
    <2>2. GetMessages(request[r].session) \in Seq(Message)
      BY <2>1, GetMessagesTyped
    <2>3. "sessionOfQuestion" \in PCs
      BY <1>3 DEF Working
    <2>4. [request[r] EXCEPT !.pc = "sessionOfQuestion",
                             !.history = GetMessages(request[r].session)] \in Request
      BY <1>1, <2>2, <2>3, FieldsTyped, Zenon
    <2> QED
      BY <1>5, <2>4, RequestStays DEF ReadHistory
  <1>6. CASE EnsureSession(r)
    <2>1. Goes(r, "question") \/ Goes(r, "reply")
      BY <1>6 DEF EnsureSession
    <2> QED
      BY <1>3, <2>1, GoesTyped DEF Working
  <1>7. CASE StoreQuestion(r) \/ StoreReply(r)
    <2>1. PICK pc \in {"answer", "audit"}, n \in {1, 2} :
            Becomes(r, [request[r] EXCEPT !.pc = pc, !.wrote = n])
      BY <1>7, Zenon DEF StoreQuestion, StoreReply
    <2>2. pc \in PCs /\ n \in {0, 1, 2}
      BY <1>3 DEF Working
    <2>3. [request[r] EXCEPT !.pc = pc, !.wrote = n] \in Request
      BY <1>1, <2>2, FieldsTyped, Zenon
    <2> QED
      BY <2>1, <2>3, RequestStays
  <1>8. CASE TakeAnswer(r)
    <2> DEFINE none == <<>>
    <2>1. none \in Seq(Message) /\ 0 \in Nat /\ "sessionOfAnswer" \in PCs
      BY <1>3 DEF Working
    <2> HIDE DEF none
    <2>2. [request[r] EXCEPT !.pc = "sessionOfAnswer", !.history = none, !.arrived = 0]
            \in Request
      BY <1>1, <2>1, FieldsTyped, Zenon
    <2>3. \/ Becomes(r, [request[r] EXCEPT !.pc = "sessionOfAnswer", !.history = none,
                                           !.arrived = 0])
          \/ Ends(r, 500)
      BY <1>8, Zenon DEF TakeAnswer, none
    <2> QED
      BY <1>2, <2>2, <2>3, RequestStays, EndsTyped
  <1>9. CASE Enqueue(r) \/ CreateKey(r) \/ Audit(r)
    <2>1. Goes(r, "audit") \/ Goes(r, "respond")
      BY <1>9 DEF Enqueue, CreateKey, Audit
    <2> QED
      BY <1>3, <2>1, GoesTyped DEF Working
  <1>10. CASE Respond(r) \/ DbRaises(r)
    BY <1>2, <1>10, EndsTyped DEF Respond, DbRaises
  <1> QED
    BY <1>4, <1>5, <1>6, <1>7, <1>8, <1>9, <1>10

LEMMA StepTyped ==
  ASSUME TypeOK, Progress, ReadsHeld, Vouched, NEW r \in Requests, Step(r)
  PROVE  request' \in [Requests -> Request]
  BY ArrivalTyped, ReadingTyped, WorkingTyped DEF Step, AnswerTurn, TypeOK

LEMMA InsertTyped ==
  ASSUME TypeOK, NEW s \in SessionId, NEW m \in Message, InsertMessage(s, m)
  PROVE  /\ messages' \in [SessionId -> Seq(Message)]
         /\ messages'[s] = Append(messages[s], m)
         /\ \A i \in SessionId \ {s} : messages'[i] = messages[i]
  BY DEF TypeOK, InsertMessage

(***************************************************************************)
(* Type correctness is preserved.                                          *)
(***************************************************************************)
LEMMA TypeOfStep ==
  ASSUME TypeOK, Progress, ReadsHeld, Vouched, NEW r \in Requests, Step(r)
  PROVE  TypeOK'
  <1>1. request' \in [Requests -> Request]
    BY StepTyped
  <1>2. CASE \/ ArriveLogin(r) \/ ArriveOther(r) \/ ArriveChat(r)
             \/ LoginUser(r) \/ LoginRoles(r) \/ Bearer(r)
             \/ KeyUser(r) \/ KeyRoles(r) \/ KeyPermissions(r) \/ Admit(r)
             \/ ReadHistory(r) \/ Respond(r) \/ DbRaises(r)
    <2>1. UNCHANGED <<storeVars, accessVars, answeringVars, enqueued, audits>>
      BY <1>2, Zenon DEF ArriveLogin, ArriveOther, ArriveChat, LoginUser, LoginRoles, Bearer, KeyUser,
                  KeyRoles, KeyPermissions, Admit, ReadHistory, Respond, DbRaises
    <2> QED
      BY <1>1, <2>1 DEF TypeOK, storeVars, accessVars, answeringVars
  <1>3. CASE LoginPermissions(r)
    <2> DEFINE u == request[r].user
               t == [user |-> u, roles |-> request[r].roles,
                     permissions |-> ListPermissions(u),
                     exp |-> clock + Lifetime, held |-> request[r].held]
    <2>1. u \in Users
      BY <1>3 DEF LoginPermissions, Is, ReadsHeld, LoginReading
    <2>2. ListPermissions(u) \in SUBSET Permissions
      BY <2>1 DEF TypeOK, ListPermissions, GrantedTo, Grants, Roles, Permissions,
                  OperatorGrants, ViewerGrants
    <2>3. request[r].roles \in SUBSET Roles /\ request[r].held \in SUBSET Roles
      BY DEF TypeOK, Request
    <2>4. clock + Lifetime \in Int
      BY AccessAssumption DEF TypeOK, Time, Lifetime
    <2>5. t \in Token
      BY <2>1, <2>2, <2>3, <2>4 DEF Token
    <2>6. tokens' = [tokens EXCEPT ![r] = t]
      BY <1>3 DEF LoginPermissions, Issue
    <2> HIDE DEF t
    <2>7. tokens' \in [Requests -> Token \cup {NoToken}]
      BY <2>5, <2>6 DEF TypeOK
    <2> QED
      BY <1>1, <1>3, <2>7 DEF LoginPermissions, TypeOK, storeVars, answeringVars
  <1>4. CASE OpenSession(r) \/ EnsureSession(r)
    <2>1. PICK s \in SessionId : sessions' = sessions \cup {s}
      BY <1>4 DEF OpenSession, EnsureSession, CreateSession, Is, Progress, Asking, Replying,
                  SessionId
    <2>2. UNCHANGED <<messages, accessVars, answeringVars, enqueued, audits>>
      BY <1>4 DEF OpenSession, EnsureSession
    <2> QED
      BY <1>1, <2>1, <2>2 DEF TypeOK, accessVars, answeringVars
  <1>5. CASE StoreQuestion(r)
    <2>1. request[r].session \in SessionId /\ Says("user", r) \in Message
      BY <1>5 DEF StoreQuestion, Is, Progress, Asking, Says, Message, Speakers
    <2>2. messages' \in [SessionId -> Seq(Message)]
      BY <1>5, <2>1, InsertTyped DEF StoreQuestion
    <2> DEFINE a == [NoAnswer EXCEPT !.stage = "agent", !.mock = request[r].mock,
                                     !.known = base]
    <2>3. request[r].mock \in BOOLEAN /\ base \in 0..MaxDocs
      BY DEF TypeOK, Request
    <2>4. a \in Answer
      BY <2>3, NoAnswerTyped DEF Answer, Stages
    <2>5. Turns(r, a)
      BY <1>5, Zenon DEF StoreQuestion, Ask
    <2> HIDE DEF a
    <2>6. answer' \in [Requests -> Answer]
      BY <2>4, <2>5, AnswerStays
    <2> QED
      BY <1>1, <1>5, <2>2, <2>6 DEF StoreQuestion, TypeOK, accessVars
  <1>6. CASE StoreReply(r)
    <2>1. request[r].session \in SessionId /\ Says("assistant", r) \in Message
      BY <1>6 DEF StoreReply, Is, Progress, Replying, Says, Message, Speakers
    <2>2. messages' \in [SessionId -> Seq(Message)]
      BY <1>6, <2>1, InsertTyped DEF StoreReply
    <2> QED
      BY <1>1, <1>6, <2>2 DEF StoreReply, TypeOK, accessVars, answeringVars
  <1>7. CASE AnswerTurn(r)
    <2>1. answer' \in [Requests -> Answer]
      BY <1>7, AnswerStepTyped DEF AnswerTurn
    <2> QED
      BY <1>1, <1>7, <2>1 DEF AnswerTurn, AnswerStep, TypeOK, storeVars, accessVars
  <1>8. CASE TakeAnswer(r)
    <2>1. answer' \in [Requests -> Answer]
      BY <1>8, AnswerStays, NoAnswerTyped DEF TakeAnswer
    <2> QED
      BY <1>1, <1>8, <2>1 DEF TakeAnswer, TypeOK, storeVars, accessVars
  <1>9. CASE Enqueue(r) \/ Audit(r)
    BY <1>1, <1>9 DEF Enqueue, Audit, TypeOK, storeVars, accessVars, answeringVars
  <1>10. CASE CreateKey(r)
    <2>1. request[r].user \in Users \cup {System, None}
      BY DEF TypeOK, Request
    <2>2. keyOwner' \in [KeyIds -> Users \cup {System, None}]
      BY <1>10, <2>1 DEF CreateKey, InsertKey, TypeOK
    <2> QED
      BY <1>1, <1>10, <2>2 DEF CreateKey, TypeOK, storeVars, answeringVars
  <1> QED
    BY <1>2, <1>3, <1>4, <1>5, <1>6, <1>7, <1>8, <1>9, <1>10 DEF Step

LEMMA TypeOfCrash ==
  ASSUME TypeOK, Crash
  PROVE  TypeOK'
  <1> DEFINE f == [r \in Requests |-> IF UnderWay(r) THEN Leaving(r, "lost", 0) ELSE request[r]]
  <1>1. ASSUME NEW r \in Requests
        PROVE  Leaving(r, "lost", 0) \in Request
    <2>1. 0 \in Statuses /\ "lost" \in {"done", "lost"}
      BY DEF Statuses
    <2> QED
      BY <2>1, LeavingTyped
  <1>2. \A r \in Requests : request[r] \in Request
    BY DEF TypeOK
  <1>3. f \in [Requests -> Request]
    BY <1>1, <1>2
  <1>4. [r \in Requests |-> NoAnswer] \in [Requests -> Answer]
    BY NoAnswerTyped
  <1>5. request' = f /\ answer' = [r \in Requests |-> NoAnswer]
    BY DEF Crash
  <1>6. UNCHANGED <<storeVars, accessVars, settings, base, enqueued, audits>>
    BY DEF Crash
  <1> HIDE DEF f
  <1> QED
    BY <1>3, <1>4, <1>5, <1>6 DEF TypeOK, storeVars, accessVars

LEMMA TypeOfEnvironment ==
  ASSUME TypeOK, Environment
  PROVE  TypeOK'
  <1>1. UNCHANGED <<storeVars, request, enqueued, audits>>
    BY DEF Environment
  <1>2. CASE AccessNext /\ UNCHANGED answeringVars
    <2>1. CASE Tick
      BY <1>1, <1>2, <2>1, AccessAssumption DEF Tick, TypeOK, Time, storeVars, answeringVars
    <2>2. ASSUME NEW u \in Users, NEW role \in Roles, Revoke(u, role)
          PROVE  TypeOK'
      BY <1>1, <1>2, <2>2 DEF Revoke, TypeOK, storeVars, answeringVars
    <2>3. ASSUME NEW u \in Users, Deactivate(u)
          PROVE  TypeOK'
      BY <1>1, <1>2, <2>3 DEF Deactivate, TypeOK, storeVars, answeringVars
    <2> QED
      BY <1>2, <2>1, <2>2, <2>3 DEF AccessNext
  <1>3. CASE AddDocument /\ UNCHANGED accessVars
    BY <1>1, <1>3, AnsweringAssumption DEF AddDocument, TypeOK, storeVars, accessVars
  <1> QED
    BY <1>2, <1>3 DEF Environment

-----------------------------------------------------------------------------
(* Answers.                                                                *)

LEMMA AnswerChanges ==
  ASSUME TypeOK, NEW r \in Requests, NEW a, Turns(r, a)
  PROVE  answer'[r] = a /\ \A i \in Requests \ {r} : answer'[i] = answer[i]
  BY DEF TypeOK, Turns

(***************************************************************************)
(* What the three invariants say of one answer.                            *)
(***************************************************************************)
Isolated(a) == a.mock => ~a.outside

Built(a) == a.known > 0 => a.context.source = "base" /\ a.context.docs >= a.known

Grows(a, n) ==
  /\ a.context.docs <= n
  /\ a.context.source = "base" => n > 0
  /\ \/ a.stage \in {"generate", "evidence", "build"}
     \/ a.stage = "answered" /\ a.route \in {"graph", "policy"}
     => Built(a)
  /\ a.stage = "build" => a.evidence = a.context
  /\ a.known <= n

Rests(a) ==
  a.stage = "answered" /\ a.route \in {"graph", "policy"} =>
    /\ Built(a)
    /\ a.evidence.docs >= a.context.docs
    /\ a.context.source = "base" => a.evidence.source = "base"
    /\ a.route = "policy" => a.evidence = a.context

LEMMA AnsweredEach ==
  Answered <=> \A r \in Requests : Isolated(answer[r]) /\ Grows(answer[r], base) /\ Rests(answer[r])
  BY DEF Answered, MockIsolated, AnswersGrow, Grounded, Isolated, Grows, Built, Rests

LEMMA NoAnswerRests ==
  ASSUME TypeOK
  PROVE  Isolated(NoAnswer) /\ Grows(NoAnswer, base) /\ Rests(NoAnswer)
  BY AnsweringAssumption DEF NoAnswer, NoHit, Isolated, Grows, Built, Rests, TypeOK

LEMMA HitsRest ==
  ASSUME TypeOK, NEW r, NEW hit \in Hits(r)
  PROVE  /\ hit.docs \in Nat /\ hit.docs <= base
         /\ hit.source = "base" <=> base > 0
         /\ hit.source = "base" => hit.docs = base
         /\ hit.source # "base" => hit.docs = 0
  BY AnsweringAssumption DEF Hits, TypeOK

(***************************************************************************)
(* Each piece of the answering chain keeps them.                           *)
(***************************************************************************)
LEMMA AnswerStepRests ==
  ASSUME TypeOK, NEW r \in Requests, AnswerStep(r),
         Isolated(answer[r]), Grows(answer[r], base), Rests(answer[r])
  PROVE  /\ \A i \in Requests \ {r} : answer'[i] = answer[i]
         /\ Isolated(answer'[r]) /\ Grows(answer'[r], base') /\ Rests(answer'[r])
  <1> DEFINE a == answer[r]
  <1>1. a \in Answer /\ base \in Nat /\ UNCHANGED base
    BY AnsweringAssumption DEF TypeOK, AnswerStep
  <1>2. \A key : Reaches(r, key) => ~a.mock
    BY DEF Reaches, Live
  <1>3. UsesGraphAgent(r) => ~a.mock
    BY DEF UsesGraphAgent, Live
  <1>4. ASSUME NEW b, Turns(r, b), Isolated(b), Grows(b, base), Rests(b)
        PROVE  /\ \A i \in Requests \ {r} : answer'[i] = answer[i]
               /\ Isolated(answer'[r]) /\ Grows(answer'[r], base') /\ Rests(answer'[r])
    <2>1. answer'[r] = b /\ \A i \in Requests \ {r} : answer'[i] = answer[i]
      BY <1>4, AnswerChanges
    <2> QED
      BY <1>1, <1>4, <2>1 DEF Isolated, Grows
  <1>5. CASE AgentAnswers(r)
    <2> DEFINE b == [a EXCEPT !.stage = "answered", !.route = "agent", !.outside = TRUE]
    <2>1. Turns(r, b)
      BY <1>5 DEF AgentAnswers
    <2>2. Isolated(b) /\ Grows(b, base) /\ Rests(b)
      BY <1>1, <1>2, <1>5 DEF AgentAnswers, Isolated, Rests, Grows, Answer, At
    <2> HIDE DEF b
    <2> QED
      BY <1>4, <2>1, <2>2
  <1>6. CASE AgentFallsBack(r)
    <2> DEFINE b == [a EXCEPT !.stage = "dispatch",
                              !.outside = UsesGraphAgent(r) /\ Reaches(r, "openai")]
    <2>1. Turns(r, b)
      BY <1>6 DEF AgentFallsBack
    <2>2. Isolated(b) /\ Grows(b, base) /\ Rests(b)
      BY <1>1, <1>2, <1>6 DEF AgentFallsBack, Isolated, Rests, Grows, Answer, At
    <2> HIDE DEF b
    <2> QED
      BY <1>4, <2>1, <2>2
  <1>7. CASE SearchWeb(r)
    <2> DEFINE b == [a EXCEPT !.stage = "answered", !.route = "tavily",
                              !.outside = a.outside \/ Reaches(r, "tavily")]
    <2>1. Turns(r, b)
      BY <1>7 DEF SearchWeb
    <2>2. Isolated(b) /\ Grows(b, base) /\ Rests(b)
      BY <1>1, <1>2, <1>7 DEF SearchWeb, Isolated, Rests, Grows, Answer, At
    <2> HIDE DEF b
    <2> QED
      BY <1>4, <2>1, <2>2
  <1>8. CASE WebRaises(r)
    <2> DEFINE b == [a EXCEPT !.stage = "raised", !.outside = TRUE]
    <2>1. Turns(r, b)
      BY <1>8 DEF WebRaises
    <2>2. Isolated(b) /\ Grows(b, base) /\ Rests(b)
      BY <1>1, <1>2, <1>8 DEF WebRaises, Isolated, Rests, Grows, Answer, At
    <2> HIDE DEF b
    <2> QED
      BY <1>4, <2>1, <2>2
  <1>9. CASE SearchPolicy(r)
    <2> DEFINE b == [a EXCEPT !.stage = IF UsesGraphRag(r) THEN "retrieve" ELSE "search"]
    <2>1. Turns(r, b)
      BY <1>9 DEF SearchPolicy
    <2>2. Isolated(b) /\ Grows(b, base) /\ Rests(b)
      BY <1>1, <1>9 DEF SearchPolicy, Isolated, Rests, Grows, Answer, At
    <2> HIDE DEF b
    <2> QED
      BY <1>4, <2>1, <2>2
  <1>10. CASE Retrieve(r)
    <2>1. PICK hit \in Hits(r) :
            Turns(r, [a EXCEPT !.stage = "generate", !.context = hit,
                               !.outside = a.outside \/ Reaches(r, "openai")])
      BY <1>10 DEF Retrieve
    <2> DEFINE b == [a EXCEPT !.stage = "generate", !.context = hit,
                              !.outside = a.outside \/ Reaches(r, "openai")]
    <2>2. Isolated(b) /\ Grows(b, base) /\ Rests(b)
      BY <1>1, <1>2, <1>10, HitsRest
         DEF Retrieve, Isolated, Rests, Grows, Built, Answer, At
    <2>3. Turns(r, b)
      BY <2>1
    <2> HIDE DEF b
    <2> QED
      BY <1>4, <2>2, <2>3
  <1>11. CASE Generate(r)
    <2> DEFINE b == [a EXCEPT !.stage = "evidence", !.outside = TRUE]
    <2>1. Turns(r, b)
      BY <1>11 DEF Generate
    <2>2. Isolated(b) /\ Grows(b, base) /\ Rests(b)
      BY <1>1, <1>2, <1>11 DEF Generate, Isolated, Rests, Grows, Built, Answer, At
    <2> HIDE DEF b
    <2> QED
      BY <1>4, <2>1, <2>2
  <1>12. CASE FindEvidence(r)
    <2>1. PICK hit \in Hits(r) :
            Turns(r, [a EXCEPT !.stage = "answered", !.route = "graph", !.evidence = hit])
      BY <1>12 DEF FindEvidence
    <2> DEFINE b == [a EXCEPT !.stage = "answered", !.route = "graph", !.evidence = hit]
    <2>2. Isolated(b) /\ Grows(b, base) /\ Rests(b)
      BY <1>1, <1>12, HitsRest DEF FindEvidence, Isolated, Rests, Grows, Built, Answer, At, Hit
    <2>3. Turns(r, b)
      BY <2>1
    <2> HIDE DEF b
    <2> QED
      BY <1>4, <2>2, <2>3
  <1>13. CASE GraphFallsBack(r)
    <2> DEFINE b == [a EXCEPT !.stage = "search", !.context = NoHit,
                              !.outside = a.outside \/ Reaches(r, "openai")]
    <2>1. Turns(r, b)
      BY <1>13 DEF GraphFallsBack
    <2>2. Isolated(b) /\ Grows(b, base) /\ Rests(b)
      BY <1>1, <1>2 DEF Isolated, Rests, Grows, Answer, NoHit
    <2> HIDE DEF b
    <2> QED
      BY <1>4, <2>1, <2>2
  <1>14. CASE Search(r)
    <2>1. PICK hit \in Hits(r) :
            Turns(r, [a EXCEPT !.stage = "build", !.context = hit, !.evidence = hit,
                               !.outside = a.outside \/ Reaches(r, "openai")])
      BY <1>14 DEF Search
    <2> DEFINE b == [a EXCEPT !.stage = "build", !.context = hit, !.evidence = hit,
                              !.outside = a.outside \/ Reaches(r, "openai")]
    <2>2. Isolated(b) /\ Grows(b, base) /\ Rests(b)
      BY <1>1, <1>2, <1>14, HitsRest
         DEF Search, Isolated, Rests, Grows, Built, Answer, At
    <2>3. Turns(r, b)
      BY <2>1
    <2> HIDE DEF b
    <2> QED
      BY <1>4, <2>2, <2>3
  <1>15. CASE Build(r)
    <2> DEFINE b == [a EXCEPT !.stage = "answered", !.route = "policy",
                              !.outside = a.outside \/ Reaches(r, "openai")]
    <2>1. Turns(r, b)
      BY <1>15 DEF Build
    <2>2. Isolated(b) /\ Grows(b, base) /\ Rests(b)
      BY <1>1, <1>2, <1>15 DEF Build, Isolated, Rests, Grows, Built, Answer, At, Hit
    <2> HIDE DEF b
    <2> QED
      BY <1>4, <2>1, <2>2
  <1>16. CASE PolicyRaises(r)
    <2> DEFINE b == [a EXCEPT !.stage = "raised",
                              !.outside = a.outside \/ Reaches(r, "openai")]
    <2>1. Turns(r, b)
      BY <1>16 DEF PolicyRaises
    <2>2. Isolated(b) /\ Grows(b, base) /\ Rests(b)
      BY <1>1, <1>2, <1>16 DEF PolicyRaises, Isolated, Rests, Grows, Answer, At
    <2> HIDE DEF b
    <2> QED
      BY <1>4, <2>1, <2>2
  <1> QED
    BY <1>5, <1>6, <1>7, <1>8, <1>9, <1>10, <1>11, <1>12, <1>13, <1>14, <1>15, <1>16 DEF AnswerStep

LEMMA AnsweredOfNext ==
  ASSUME TypeOK, TypeOK', Answered, Next
  PROVE  Answered'
  <1> USE AnsweredEach
  <1>1. SUFFICES ASSUME NEW i \in Requests
                 PROVE  Isolated(answer'[i]) /\ Grows(answer'[i], base') /\ Rests(answer'[i])
    BY DEF Answered, MockIsolated, AnswersGrow, Grounded, Isolated, Grows, Built, Rests
  <1>2. Isolated(answer[i]) /\ Grows(answer[i], base) /\ Rests(answer[i])
    OBVIOUS
  <1>3. base \in Nat /\ answer[i] \in Answer
    BY AnsweringAssumption DEF TypeOK
  <1>4. CASE Crash
    <2>1. answer'[i] = NoAnswer /\ base' = base
      BY <1>4 DEF Crash
    <2> QED
      BY <2>1, NoAnswerRests
  <1>5. CASE Environment
    <2>1. answer' = answer /\ base' \in Nat /\ base' >= base
      BY <1>3, <1>5 DEF Environment, AddDocument, answeringVars
    <2>2. answer[i].context.docs \in Int /\ answer[i].known \in Int
      BY <1>3, AnsweringAssumption DEF Answer, Hit
    <2> QED
      BY <1>2, <1>3, <2>1, <2>2 DEF Grows
  <1>6. ASSUME NEW r \in Requests, Step(r)
        PROVE  Isolated(answer'[i]) /\ Grows(answer'[i], base') /\ Rests(answer'[i])
    <2>1. CASE AnswerTurn(r)
      <3>1. AnswerStep(r) /\ Isolated(answer[r]) /\ Grows(answer[r], base) /\ Rests(answer[r])
        BY <2>1 DEF AnswerTurn
      <3>2. base' = base
        BY <3>1 DEF AnswerStep
      <3> QED
        BY <1>2, <3>1, <3>2, AnswerStepRests
    <2>2. CASE StoreQuestion(r)
      <3> DEFINE a == [NoAnswer EXCEPT !.stage = "agent", !.mock = request[r].mock,
                                       !.known = base]
      <3>1. Turns(r, a) /\ base' = base
        BY <2>2, Zenon DEF StoreQuestion, Ask
      <3>2. Isolated(a) /\ Grows(a, base) /\ Rests(a)
        BY <1>3 DEF NoAnswer, NoHit, Isolated, Grows, Rests
      <3> HIDE DEF a
      <3> QED
        BY <1>2, <3>1, <3>2, AnswerChanges
    <2>3. CASE TakeAnswer(r)
      <3>1. Turns(r, NoAnswer) /\ base' = base
        BY <2>3 DEF TakeAnswer
      <3> QED
        BY <1>2, <3>1, AnswerChanges, NoAnswerRests
    <2>4. CASE ~(AnswerTurn(r) \/ StoreQuestion(r) \/ TakeAnswer(r))
      <3>1. UNCHANGED <<answer, base>>
        BY <1>6, <2>4 DEF Step, answeringVars, ArriveLogin, ArriveOther, ArriveChat,
           LoginUser, LoginRoles, LoginPermissions, Bearer, KeyUser, KeyRoles, KeyPermissions,
           Admit, OpenSession, ReadHistory, EnsureSession, StoreReply, Enqueue, CreateKey,
           Audit, Respond, DbRaises
      <3> QED
        BY <1>2, <3>1
    <2> QED
      BY <2>1, <2>2, <2>3, <2>4
  <1> QED
    BY <1>4, <1>5, <1>6 DEF Next

-----------------------------------------------------------------------------
(* Where the handlers are.                                                 *)

LEMMA RequestChanges ==
  ASSUME TypeOK, NEW r \in Requests, NEW q, Becomes(r, q)
  PROVE  request'[r] = q /\ \A i \in Requests \ {r} : request'[i] = request[i]
  BY DEF TypeOK, Becomes

LEMMA LeavingFields ==
  ASSUME TypeOK, NEW r \in Requests, NEW pc \in PCs, NEW status \in Statuses
  PROVE  LET q == Leaving(r, pc, status) IN
         /\ q.pc = pc /\ q.status = status /\ q.kind = request[r].kind
         /\ q.session = request[r].session /\ q.wrote = request[r].wrote
         /\ q.user = None /\ q.token = None /\ q.history = <<>> /\ q.arrived = 0
  BY DEF Leaving, NewRequest

LEMMA AdmittedFields ==
  ASSUME NEW q \in Request, NEW pc
  PROVE  LET n == [Admitted(q) EXCEPT !.pc = pc] IN
         /\ n.pc = pc /\ n.status = q.status /\ n.kind = q.kind /\ n.user = q.user
         /\ n.session = q.session /\ n.wrote = q.wrote /\ n.history = q.history
         /\ n.arrived = q.arrived /\ n.mock = q.mock
         /\ n.token = None /\ n.roles = {} /\ n.permissions = {} /\ n.held = {}
  BY DEF Request, Admitted

LEMMA ArrivingFields ==
  ASSUME NEW kind \in Kinds, NEW u, NEW pc \in PCs
  PROVE  LET q == Arriving(kind, u, pc) IN
         /\ q.pc = pc /\ q.kind = kind /\ q.user = u /\ q.at = clock
         /\ q.held = (IF u \in Users THEN assigned[u] ELSE {})
         /\ q.wasActive = (u \in active)
         /\ q.status = 0 /\ q.token = None /\ q.roles = {} /\ q.permissions = {}
         /\ q.session = None /\ q.wrote = 0 /\ q.history = <<>> /\ q.arrived = 0
  BY DEF Arriving, NewRequest

LEMMA CredentialedFields ==
  ASSUME TypeOK, NEW kind \in Kinds, NEW q \in Credentialed(kind)
  PROVE  /\ q.kind = kind /\ q.session = None /\ q.wrote = 0
         /\ q.history = <<>> /\ q.arrived = 0
         /\ \/ /\ q.pc = "bearer" /\ q.token \in Requests /\ request[q.token].pc = "done"
               /\ Succeeded(q.token) /\ request[q.token].kind = "login"
               /\ tokens[q.token].user = q.user
            \/ q.pc = "keyUser" /\ q.token = None /\ q.user # None
            \/ q.pc = "done" /\ q.status = 401 /\ q.token = None
            \/ /\ q.pc = "admit" /\ q.user = System /\ ~settings.secured
               /\ q.token = None
         /\ q.status \in {0, 401}
         /\ q.at = clock
         /\ q.wasActive = (q.user \in active)
         /\ q.held = IF q.user \in Users THEN assigned[q.user] ELSE {}
         /\ q.pc \in {"bearer", "keyUser"} => q.roles = {} /\ q.permissions = {}
  <1>1. {"done", "admit", "bearer", "keyUser"} \subseteq PCs
    BY DEF PCs, Reading
  <1>2. CASE q \in Bearing(kind)
    <2>1. PICK t \in Requests :
            /\ Succeeded(t) /\ request[t].kind = "login"
            /\ q = [Arriving(kind, tokens[t].user, "bearer") EXCEPT !.token = t]
      BY <1>2, Zenon DEF Bearing
    <2> DEFINE n == Arriving(kind, tokens[t].user, "bearer")
    <2>2. tokens[t].user \in Users \cup {System, None}
      BY TokensTyped
    <2>3. n \in Request
      BY <1>1, <2>2, ArrivingTyped
    <2>4. /\ n.kind = kind /\ n.session = None /\ n.wrote = 0 /\ n.pc = "bearer"
          /\ n.history = <<>> /\ n.arrived = 0 /\ n.user = tokens[t].user /\ n.at = clock
          /\ n.wasActive = (n.user \in active)
          /\ n.held = (IF n.user \in Users THEN assigned[n.user] ELSE {})
          /\ n.status = 0 /\ n.roles = {} /\ n.permissions = {}
      BY <1>1, ArrivingFields
    <2>5. q = [n EXCEPT !.token = t] /\ request[t].pc = "done"
          /\ Succeeded(t) /\ request[t].kind = "login"
      BY <2>1 DEF Succeeded, Is
    <2> HIDE DEF n
    <2> QED
      BY <2>3, <2>4, <2>5 DEF Request
  <1>3. CASE q \in Keyed(kind)
    <2>1. PICK k \in KeyIds : keyOwner[k] # None /\ q = Arriving(kind, keyOwner[k], "keyUser")
      BY <1>3 DEF Keyed
    <2> QED
      BY <1>1, <2>1, ArrivingFields
  <1>4. CASE q = Bare(kind)
    <2> DEFINE n == Arriving(kind, None, "done")
    <2>1. n \in Request
      BY <1>1, ArrivingTyped
    <2>2. /\ n.kind = kind /\ n.session = None /\ n.wrote = 0 /\ n.pc = "done"
          /\ n.history = <<>> /\ n.arrived = 0 /\ n.user = None /\ n.at = clock
          /\ n.wasActive = (n.user \in active) /\ n.token = None
          /\ n.held = (IF n.user \in Users THEN assigned[n.user] ELSE {})
      BY <1>1, ArrivingFields
    <2>3. q = [n EXCEPT !.status = 401]
      BY <1>4 DEF Bare
    <2> HIDE DEF n
    <2> QED
      BY <2>1, <2>2, <2>3 DEF Request
  <1>5. CASE q = AsSystem(kind) /\ ~settings.secured
    <2> DEFINE n == Arriving(kind, System, "admit")
    <2>1. n \in Request
      BY <1>1, ArrivingTyped
    <2>2. /\ n.kind = kind /\ n.session = None /\ n.wrote = 0 /\ n.pc = "admit"
          /\ n.history = <<>> /\ n.arrived = 0 /\ n.user = System /\ n.at = clock
          /\ n.wasActive = (n.user \in active) /\ n.token = None /\ n.status = 0
          /\ n.held = (IF n.user \in Users THEN assigned[n.user] ELSE {})
      BY <1>1, ArrivingFields
    <2>3. q = [n EXCEPT !.roles = {"admin"}, !.permissions = {"admin:full"}]
      BY <1>5 DEF AsSystem
    <2> HIDE DEF n
    <2> QED
      BY <1>5, <2>1, <2>2, <2>3 DEF Request
  <1> QED
    BY <1>2, <1>3, <1>4, <1>5, Zenon DEF Credentialed

ProgressOf(q) ==
  /\ q.pc = "new" => q.kind = None /\ q.session = None
  /\ q.pc \in LoginReading => q.kind = "login"
  /\ q.pc \in Reading \ LoginReading => q.kind \in Kinds \ {"login"}
  /\ q.pc = "openSession" => q.kind \in {"chat", "session"}
  /\ q.pc = "enqueue" => q.kind = "ingest"
  /\ q.pc = "createKey" => q.kind = "key"
  /\ q.pc \in Asking \cup Replying => q.kind = "chat" /\ q.session \in SessionId
  /\ q.pc \in {"new", "openSession"} \cup Reading \cup Asking => q.wrote = 0
  /\ q.pc \in Replying => q.wrote = 1
  /\ q.pc \in {"audit", "respond"} /\ q.kind = "chat" => q.wrote = 2
  /\ q.pc = "done" /\ q.status = 200 /\ q.kind = "chat" => q.wrote = 2
  /\ q.wrote > 0 => q.kind = "chat" /\ q.session \in SessionId

LEMMA ProgressEach == Progress <=> \A r \in Requests : ProgressOf(request[r])
  BY DEF Progress, ProgressOf, Succeeded, Is

(***************************************************************************)
(* A step of a request leaves the rows alone or adds the next one.         *)
(***************************************************************************)
Quiet(r) == /\ messages' = messages
            /\ request'[r].wrote = request[r].wrote
            /\ request[r].wrote > 0 => request'[r].session = request[r].session

Writes(r) == /\ request[r].wrote \in {0, 1}
             /\ request'[r].wrote = request[r].wrote + 1
             /\ request[r].session \in SessionId
             /\ request'[r].session = request[r].session
             /\ InsertMessage(request[r].session, Says(Speaker(request'[r].wrote), r))

LEMMA EndsMoves ==
  ASSUME TypeOK, Progress, NEW r \in Requests, NEW status \in Statuses, Ends(r, status),
         status = 200 /\ request[r].kind = "chat" => request[r].wrote = 2,
         UNCHANGED messages
  PROVE  /\ \A i \in Requests \ {r} : request'[i] = request[i]
         /\ ProgressOf(request'[r]) /\ Quiet(r)
  <1> DEFINE q == Leaving(r, "done", status)
  <1>1. "done" \in PCs
    BY DEF PCs
  <1>2. /\ q.pc = "done" /\ q.status = status /\ q.kind = request[r].kind
        /\ q.session = request[r].session /\ q.wrote = request[r].wrote
    BY <1>1, LeavingFields
  <1>3. request'[r] = q /\ \A i \in Requests \ {r} : request'[i] = request[i]
    BY RequestChanges DEF Ends
  <1>4. ProgressOf(request[r])
    BY ProgressEach
  <1> HIDE DEF q
  <1> QED
    BY <1>2, <1>3, <1>4 DEF ProgressOf, Quiet, LoginReading, Reading, Asking, Replying

LEMMA ArrivalMoves ==
  ASSUME TypeOK, Progress, NEW r \in Requests, ArriveLogin(r) \/ ArriveOther(r) \/ ArriveChat(r)
  PROVE  /\ \A i \in Requests \ {r} : request'[i] = request[i]
         /\ ProgressOf(request'[r]) /\ Quiet(r)
  <1>1. request[r].wrote = 0 /\ UNCHANGED messages
    BY DEF ArriveLogin, ArriveOther, ArriveChat, Is, Progress, storeVars
  <1>2. CASE ArriveLogin(r)
    <2>1. PICK u \in Users : Becomes(r, Arriving("login", u, "loginUser"))
      BY <1>2 DEF ArriveLogin
    <2> DEFINE q == Arriving("login", u, "loginUser")
    <2>2. q.pc = "loginUser" /\ q.kind = "login" /\ q.wrote = 0 /\ q.status = 0
      BY ArrivingFields DEF Kinds, PCs, Reading
    <2>3. request'[r] = q /\ \A i \in Requests \ {r} : request'[i] = request[i]
      BY <2>1, RequestChanges
    <2> HIDE DEF q
    <2> QED
      BY <1>1, <2>2, <2>3 DEF ProgressOf, Quiet, LoginReading, Reading, Asking, Replying
  <1>3. CASE ArriveOther(r)
    <2>1. PICK kind \in Offers[r] \ {"login", "chat"} : \E q \in Credentialed(kind) : Becomes(r, q)
      BY <1>3, Zenon DEF ArriveOther
    <2>2. PICK q \in Credentialed(kind) : Becomes(r, q)
      BY <2>1
    <2>3. kind \in Kinds
      BY ApiAssumption
    <2>4. /\ q.kind = kind /\ q.wrote = 0 /\ q.status \in {0, 401}
          /\ q.pc \in {"bearer", "keyUser", "done", "admit"}
      BY <2>3, CredentialedFields
    <2>5. request'[r] = q /\ \A i \in Requests \ {r} : request'[i] = request[i]
      BY <2>2, RequestChanges
    <2> QED
      BY <1>1, <2>1, <2>3, <2>4, <2>5
         DEF ProgressOf, Quiet, LoginReading, Reading, Asking, Replying
  <1>4. CASE ArriveChat(r)
    <2> DEFINE past(s) == IF s = None THEN 0 ELSE Len(messages[s])
    <2>1. PICK q \in Credentialed("chat"), s \in KnownSessions \cup {None}, asksMock \in BOOLEAN :
            Becomes(r, [q EXCEPT !.mock = settings.mock \/ asksMock, !.session = s,
                                 !.arrived = past(s)])
      BY <1>4, Zenon DEF ArriveChat
    <2> DEFINE n == [q EXCEPT !.mock = settings.mock \/ asksMock, !.session = s,
                              !.arrived = past(s)]
    <2>2. q \in Request
      BY CredentialedTyped DEF Kinds
    <2>3. /\ q.kind = "chat" /\ q.wrote = 0 /\ q.status \in {0, 401}
          /\ q.pc \in {"bearer", "keyUser", "done", "admit"}
      BY CredentialedFields DEF Kinds
    <2>4. n.kind = "chat" /\ n.wrote = 0 /\ n.status \in {0, 401} /\ n.pc = q.pc
      BY <2>2, <2>3 DEF Request
    <2>5. request'[r] = n /\ \A i \in Requests \ {r} : request'[i] = request[i]
      BY <2>1, RequestChanges
    <2> HIDE DEF n
    <2> QED
      BY <1>1, <2>3, <2>4, <2>5
         DEF ProgressOf, Quiet, LoginReading, Reading, Asking, Replying, Kinds
  <1> QED
    BY <1>2, <1>3, <1>4

LEMMA ReadingMoves ==
  ASSUME TypeOK, Progress, NEW r \in Requests,
         \/ LoginUser(r) \/ LoginRoles(r) \/ LoginPermissions(r)
         \/ Bearer(r) \/ KeyUser(r) \/ KeyRoles(r) \/ KeyPermissions(r) \/ Admit(r)
  PROVE  /\ \A i \in Requests \ {r} : request'[i] = request[i]
         /\ ProgressOf(request'[r]) /\ Quiet(r)
  <1>1. request[r] \in Request /\ ProgressOf(request[r])
    BY ProgressEach DEF TypeOK
  <1>2. UNCHANGED messages
    BY DEF LoginUser, LoginRoles, LoginPermissions, Bearer, KeyUser, KeyRoles, KeyPermissions,
           Admit, storeVars
  <1>3. ASSUME NEW status \in {401, 403, 429, 500}, Ends(r, status)
        PROVE  /\ \A i \in Requests \ {r} : request'[i] = request[i]
               /\ ProgressOf(request'[r]) /\ Quiet(r)
    <2>1. status \in Statuses /\ status # 200
      BY DEF Statuses
    <2> QED
      BY <1>2, <1>3, <2>1, EndsMoves
  <1>4. ASSUME NEW q, Becomes(r, q), q.kind = request[r].kind, q.wrote = request[r].wrote,
               q.session = request[r].session, ProgressOf(q)
        PROVE  /\ \A i \in Requests \ {r} : request'[i] = request[i]
               /\ ProgressOf(request'[r]) /\ Quiet(r)
    BY <1>2, <1>4, RequestChanges DEF Quiet
  <1>5. CASE LoginUser(r) /\ Goes(r, "loginRoles")
    <2> DEFINE q == [request[r] EXCEPT !.pc = "loginRoles"]
    <2>1. /\ q.pc = "loginRoles" /\ q.kind = request[r].kind /\ q.wrote = request[r].wrote
          /\ q.session = request[r].session
      BY <1>1 DEF Request
    <2>2. Becomes(r, q)
      BY <1>5 DEF Goes
    <2> HIDE DEF q
    <2>3. ProgressOf(q)
      BY <1>1, <1>5, <2>1
         DEF LoginUser, Is, ProgressOf, LoginReading, Reading, Asking, Replying
    <2> QED
      BY <1>4, <2>1, <2>2, <2>3
  <1>6. CASE LoginRoles(r)
    <2> DEFINE q == [request[r] EXCEPT !.pc = "loginPermissions", !.roles = ListRoles(request[r].user)]
    <2>1. /\ q.pc = "loginPermissions" /\ q.kind = request[r].kind /\ q.wrote = request[r].wrote
          /\ q.session = request[r].session
      BY <1>1 DEF Request
    <2>2. Becomes(r, q)
      BY <1>6 DEF LoginRoles
    <2> HIDE DEF q
    <2>3. ProgressOf(q)
      BY <1>1, <1>6, <2>1
         DEF LoginRoles, Is, ProgressOf, LoginReading, Reading, Asking, Replying
    <2> QED
      BY <1>4, <2>1, <2>2, <2>3
  <1>11. CASE KeyRoles(r)
    <2> DEFINE q == [request[r] EXCEPT !.pc = "keyPermissions", !.roles = ListRoles(request[r].user)]
    <2>1. /\ q.pc = "keyPermissions" /\ q.kind = request[r].kind /\ q.wrote = request[r].wrote
          /\ q.session = request[r].session
      BY <1>1 DEF Request
    <2>2. Becomes(r, q)
      BY <1>11 DEF KeyRoles
    <2> HIDE DEF q
    <2>3. ProgressOf(q)
      BY <1>1, <1>11, <2>1
         DEF KeyRoles, Is, ProgressOf, LoginReading, Reading, Asking, Replying
    <2> QED
      BY <1>4, <2>1, <2>2, <2>3
  <1>12. CASE KeyPermissions(r)
    <2> DEFINE q == [request[r] EXCEPT !.pc = "admit", !.permissions = ListPermissions(request[r].user)]
    <2>1. /\ q.pc = "admit" /\ q.kind = request[r].kind /\ q.wrote = request[r].wrote
          /\ q.session = request[r].session
      BY <1>1 DEF Request
    <2>2. Becomes(r, q)
      BY <1>12 DEF KeyPermissions
    <2> HIDE DEF q
    <2>3. ProgressOf(q)
      BY <1>1, <1>12, <2>1
         DEF KeyPermissions, Is, ProgressOf, LoginReading, Reading, Asking, Replying
    <2> QED
      BY <1>4, <2>1, <2>2, <2>3
  <1>7. CASE LoginPermissions(r)
    <2> DEFINE q == [Admitted(request[r]) EXCEPT !.pc = "audit"]
    <2>1. /\ q.pc = "audit" /\ q.kind = request[r].kind /\ q.wrote = request[r].wrote
          /\ q.session = request[r].session
      BY <1>1, AdmittedFields DEF PCs, Working
    <2>2. Becomes(r, q)
      BY <1>7 DEF LoginPermissions
    <2> HIDE DEF q
    <2>3. ProgressOf(q)
      BY <1>1, <1>7, <2>1
         DEF LoginPermissions, Is, ProgressOf, LoginReading, Reading, Asking, Replying
    <2> QED
      BY <1>4, <2>1, <2>2, <2>3
  <1>8. CASE Bearer(r)
    <2> DEFINE t == request[r].token
               q == [request[r] EXCEPT !.pc = "admit", !.roles = tokens[t].roles,
                                       !.permissions = tokens[t].permissions]
    <2>1. /\ q.pc = "admit" /\ q.kind = request[r].kind /\ q.wrote = request[r].wrote
          /\ q.session = request[r].session
      BY <1>1 DEF Request
    <2>2. Ends(r, 401) \/ Becomes(r, q)
      BY <1>8, Zenon DEF Bearer
    <2> HIDE DEF q
    <2>3. ProgressOf(q)
      BY <1>1, <1>8, <2>1
         DEF Bearer, Is, ProgressOf, LoginReading, Reading, Asking, Replying
    <2> QED
      BY <1>3, <1>4, <2>1, <2>2, <2>3
  <1>9. CASE KeyUser(r) /\ Goes(r, "keyRoles")
    <2> DEFINE q == [request[r] EXCEPT !.pc = "keyRoles"]
    <2>1. /\ q.pc = "keyRoles" /\ q.kind = request[r].kind /\ q.wrote = request[r].wrote
          /\ q.session = request[r].session
      BY <1>1 DEF Request
    <2>2. Becomes(r, q)
      BY <1>9 DEF Goes
    <2> HIDE DEF q
    <2>3. ProgressOf(q)
      BY <1>1, <1>9, <2>1
         DEF KeyUser, Is, ProgressOf, LoginReading, Reading, Asking, Replying
    <2> QED
      BY <1>4, <2>1, <2>2, <2>3
  <1>10. CASE Admit(r) /\ Becomes(r, [Admitted(request[r]) EXCEPT !.pc = FirstStep(request[r])])
    <2> DEFINE pc == FirstStep(request[r])
               q == [Admitted(request[r]) EXCEPT !.pc = pc]
    <2>1. request[r].kind \in Kinds \ {"login"} /\ request[r].wrote = 0
      BY <1>1, <1>10 DEF Admit, Is, ProgressOf, LoginReading, Reading
    <2>2. /\ pc \in {"history", "openSession", "enqueue", "createKey"} /\ pc \in PCs
          /\ pc = "history" => request[r].kind = "chat" /\ request[r].session \in SessionId
          /\ pc = "openSession" => request[r].kind \in {"chat", "session"}
          /\ pc = "enqueue" => request[r].kind = "ingest"
          /\ pc = "createKey" => request[r].kind = "key"
      BY <1>1, <2>1 DEF FirstStep, Kinds, PCs, Working, Request
    <2> HIDE DEF pc
    <2>3. /\ q.pc = pc /\ q.kind = request[r].kind /\ q.wrote = request[r].wrote
          /\ q.session = request[r].session
      BY <1>1, <2>2, AdmittedFields
    <2>4. Becomes(r, q)
      BY <1>10 DEF pc
    <2> HIDE DEF q
    <2>5. ProgressOf(q)
      BY <2>1, <2>2, <2>3 DEF ProgressOf, LoginReading, Reading, Asking, Replying
    <2> QED
      BY <1>4, <2>3, <2>4, <2>5
  <1> QED
    BY <1>3, <1>5, <1>6, <1>7, <1>8, <1>9, <1>10, <1>11, <1>12 DEF LoginUser, KeyUser, Admit

LEMMA WorkingMoves ==
  ASSUME TypeOK, Progress, NEW r \in Requests,
         \/ OpenSession(r) \/ ReadHistory(r) \/ EnsureSession(r) \/ StoreQuestion(r)
         \/ AnswerTurn(r) \/ TakeAnswer(r) \/ StoreReply(r)
         \/ Enqueue(r) \/ CreateKey(r) \/ Audit(r) \/ Respond(r) \/ DbRaises(r)
  PROVE  /\ \A i \in Requests \ {r} : request'[i] = request[i]
         /\ ProgressOf(request'[r]) /\ (Quiet(r) \/ Writes(r))
  <1>1. request[r] \in Request /\ ProgressOf(request[r])
    BY ProgressEach DEF TypeOK
  <1> DEFINE Result == /\ \A i \in Requests \ {r} : request'[i] = request[i]
                       /\ ProgressOf(request'[r])
                       /\ Quiet(r) \/ Writes(r)
  <1> SUFFICES Result
    OBVIOUS
  <1> HIDE DEF Result
  <1>2. ASSUME NEW q, Becomes(r, q), q.kind = request[r].kind, q.wrote = request[r].wrote,
               request[r].wrote > 0 => q.session = request[r].session, ProgressOf(q),
               UNCHANGED messages
        PROVE  Result
    BY <1>2, RequestChanges DEF Quiet, Result
  <1>3. ASSUME NEW status \in Statuses, Ends(r, status), UNCHANGED messages,
               status = 200 /\ request[r].kind = "chat" => request[r].wrote = 2
        PROVE  Result
    BY <1>3, EndsMoves DEF Result
  <1>4. ASSUME NEW pc, Goes(r, pc), UNCHANGED messages, ProgressOf([request[r] EXCEPT !.pc = pc])
        PROVE  Result
    <2> DEFINE q == [request[r] EXCEPT !.pc = pc]
    <2>1. /\ q.kind = request[r].kind /\ q.wrote = request[r].wrote
          /\ q.session = request[r].session
      BY <1>1 DEF Request
    <2>2. Becomes(r, q)
      BY <1>4 DEF Goes
    <2>3. ProgressOf(q) /\ UNCHANGED messages
      BY <1>4
    <2> HIDE DEF q
    <2> QED
      BY <1>2, <2>1, <2>2, <2>3
  <1>5. CASE OpenSession(r)
    <2> DEFINE pc == IF request[r].kind = "chat" THEN "history" ELSE "respond"
               q == [request[r] EXCEPT !.session = r, !.pc = pc]
    <2>1. /\ q.kind = request[r].kind /\ q.wrote = request[r].wrote
          /\ q.session = r /\ q.pc = pc
      BY <1>1 DEF Request
    <2>2. Becomes(r, q) /\ UNCHANGED messages
      BY <1>5 DEF OpenSession
    <2>3. request[r].wrote = 0 /\ request[r].pc = "openSession"
      BY <1>1, <1>5 DEF OpenSession, Is, ProgressOf
    <2> HIDE DEF q
    <2>4. ProgressOf(q)
      BY <1>1, <2>1, <2>3
         DEF ProgressOf, LoginReading, Reading, Asking, Replying, SessionId
    <2> QED
      BY <1>2, <2>1, <2>2, <2>3, <2>4
  <1>6. CASE ReadHistory(r)
    <2> DEFINE q == [request[r] EXCEPT !.pc = "sessionOfQuestion",
                                       !.history = GetMessages(request[r].session)]
    <2>1. /\ q.kind = request[r].kind /\ q.wrote = request[r].wrote
          /\ q.session = request[r].session /\ q.pc = "sessionOfQuestion"
      BY <1>1 DEF Request
    <2>2. Becomes(r, q) /\ UNCHANGED messages
      BY <1>6 DEF ReadHistory, storeVars
    <2> HIDE DEF q
    <2>3. ProgressOf(q)
      BY <1>1, <1>6, <2>1
         DEF ReadHistory, Is, ProgressOf, LoginReading, Reading, Asking, Replying
    <2> QED
      BY <1>2, <2>1, <2>2, <2>3
  <1>7. CASE EnsureSession(r)
    <2> DEFINE pc == IF Is(r, "sessionOfQuestion") THEN "question" ELSE "reply"
               q == [request[r] EXCEPT !.pc = pc]
    <2>1. /\ q.kind = request[r].kind /\ q.wrote = request[r].wrote
          /\ q.session = request[r].session /\ q.pc = pc /\ q.status = request[r].status
      BY <1>1 DEF Request
    <2>2. Goes(r, pc) /\ UNCHANGED messages
      BY <1>7 DEF EnsureSession
    <2> HIDE DEF q
    <2>3. ProgressOf(q)
      BY <1>1, <1>7, <2>1
         DEF EnsureSession, Is, ProgressOf, LoginReading, Reading, Asking, Replying
    <2> HIDE DEF pc
    <2> QED
      BY <1>4, <2>2, <2>3 DEF q
  <1>8. CASE StoreQuestion(r)
    <2> DEFINE q == [request[r] EXCEPT !.pc = "answer", !.wrote = 1]
    <2>1. /\ q.kind = request[r].kind /\ q.wrote = 1
          /\ q.session = request[r].session /\ q.pc = "answer"
      BY <1>1 DEF Request
    <2>2. Becomes(r, q) /\ InsertMessage(request[r].session, Says("user", r))
      BY <1>8 DEF StoreQuestion
    <2>3. request[r].pc = "question" /\ request[r].wrote = 0 /\ request[r].kind = "chat"
          /\ request[r].session \in SessionId
      BY <1>1, <1>8 DEF StoreQuestion, Is, ProgressOf, Asking
    <2> HIDE DEF q
    <2>4. ProgressOf(q)
      BY <2>1, <2>3 DEF ProgressOf, LoginReading, Reading, Asking, Replying
    <2>5. request'[r] = q /\ \A i \in Requests \ {r} : request'[i] = request[i]
      BY <2>2, RequestChanges
    <2> QED
      BY <2>1, <2>2, <2>3, <2>4, <2>5 DEF Writes, Speaker, Result
  <1>9. CASE AnswerTurn(r)
    BY <1>1, <1>9 DEF AnswerTurn, Quiet, storeVars, Result
  <1>10. CASE TakeAnswer(r)
    <2> DEFINE q == [request[r] EXCEPT !.pc = "sessionOfAnswer", !.history = <<>>,
                                       !.arrived = 0]
    <2>1. /\ q.kind = request[r].kind /\ q.wrote = request[r].wrote
          /\ q.session = request[r].session /\ q.pc = "sessionOfAnswer"
      BY <1>1 DEF Request
    <2>2. (Becomes(r, q) \/ Ends(r, 500)) /\ UNCHANGED messages
      BY <1>10 DEF TakeAnswer, storeVars
    <2> HIDE DEF q
    <2>3. ProgressOf(q)
      BY <1>1, <1>10, <2>1
         DEF TakeAnswer, Is, ProgressOf, LoginReading, Reading, Asking, Replying
    <2>4. 500 \in Statuses
      BY DEF Statuses
    <2> QED
      BY <1>2, <1>3, <2>1, <2>2, <2>3, <2>4
  <1>11. CASE StoreReply(r)
    <2> DEFINE q == [request[r] EXCEPT !.pc = "audit", !.wrote = 2]
    <2>1. /\ q.kind = request[r].kind /\ q.wrote = 2
          /\ q.session = request[r].session /\ q.pc = "audit"
      BY <1>1 DEF Request
    <2>2. Becomes(r, q) /\ InsertMessage(request[r].session, Says("assistant", r))
      BY <1>11 DEF StoreReply
    <2>3. request[r].pc = "reply" /\ request[r].wrote = 1 /\ request[r].kind = "chat"
          /\ request[r].session \in SessionId
      BY <1>1, <1>11 DEF StoreReply, Is, ProgressOf, Replying
    <2> HIDE DEF q
    <2>4. ProgressOf(q)
      BY <2>1, <2>3 DEF ProgressOf, LoginReading, Reading, Asking, Replying
    <2>5. request'[r] = q /\ \A i \in Requests \ {r} : request'[i] = request[i]
      BY <2>2, RequestChanges
    <2> QED
      BY <2>1, <2>2, <2>3, <2>4, <2>5 DEF Writes, Speaker, Result
  <1>12. CASE Enqueue(r) \/ CreateKey(r)
    <2> DEFINE q == [request[r] EXCEPT !.pc = "audit"]
    <2>1. /\ q.kind = request[r].kind /\ q.wrote = request[r].wrote
          /\ q.session = request[r].session /\ q.pc = "audit"
      BY <1>1 DEF Request
    <2>2. Goes(r, "audit") /\ UNCHANGED messages
      BY <1>12 DEF Enqueue, CreateKey, storeVars
    <2>3. request[r].kind # "chat"
      BY <1>1, <1>12 DEF Enqueue, CreateKey, Is, ProgressOf
    <2> HIDE DEF q
    <2>4. ProgressOf(q)
      BY <1>1, <2>1, <2>3 DEF ProgressOf, LoginReading, Reading, Asking, Replying
    <2> QED
      BY <1>4, <2>2, <2>4 DEF q
  <1>13. CASE Audit(r)
    <2> DEFINE q == [request[r] EXCEPT !.pc = "respond"]
    <2>1. /\ q.kind = request[r].kind /\ q.wrote = request[r].wrote
          /\ q.session = request[r].session /\ q.pc = "respond"
      BY <1>1 DEF Request
    <2>2. Goes(r, "respond") /\ UNCHANGED messages
      BY <1>13 DEF Audit, storeVars
    <2> HIDE DEF q
    <2>3. ProgressOf(q)
      BY <1>1, <1>13, <2>1
         DEF Audit, Is, ProgressOf, LoginReading, Reading, Asking, Replying
    <2> QED
      BY <1>4, <2>2, <2>3 DEF q
  <1>14. CASE Respond(r)
    <2>1. 200 \in Statuses
      BY DEF Statuses
    <2>2. Ends(r, 200) /\ UNCHANGED messages
      BY <1>14 DEF Respond, storeVars
    <2>3. request[r].kind = "chat" => request[r].wrote = 2
      BY <1>1, <1>14 DEF Respond, Is, ProgressOf
    <2> QED
      BY <1>3, <2>1, <2>2, <2>3
  <1>15. CASE DbRaises(r)
    <2>1. 500 \in Statuses
      BY DEF Statuses
    <2>2. Ends(r, 500) /\ UNCHANGED messages
      BY <1>15 DEF DbRaises, storeVars
    <2> QED
      BY <1>3, <2>1, <2>2
  <1> QED
    BY <1>5, <1>6, <1>7, <1>8, <1>9, <1>10, <1>11, <1>12, <1>13, <1>14, <1>15

(***************************************************************************)
(* What each step of a handler does to its record.                         *)
(***************************************************************************)
SameAsker(p, q) ==
  /\ p.kind = q.kind /\ p.status = q.status /\ p.user = q.user /\ p.token = q.token
  /\ p.roles = q.roles /\ p.permissions = q.permissions
  /\ p.at = q.at /\ p.held = q.held /\ p.wasActive = q.wasActive

SamePlace(p, q) == p.session = q.session /\ p.history = q.history /\ p.arrived = q.arrived

Left(p, q, pc, status) ==
  /\ p.pc = pc /\ p.status = status /\ p.kind = q.kind /\ p.session = q.session
  /\ p.wrote = q.wrote
  /\ p.token = None /\ p.history = <<>> /\ p.arrived = 0

LEMMA GoesEffect ==
  ASSUME TypeOK, NEW r \in Requests, NEW pc, Goes(r, pc)
  PROVE  /\ request'[r].pc = pc
         /\ SameAsker(request'[r], request[r]) /\ SamePlace(request'[r], request[r])
         /\ \A i \in Requests \ {r} : request'[i] = request[i]
  <1>1. request[r] \in Request
    BY DEF TypeOK
  <1>2. /\ request'[r] = [request[r] EXCEPT !.pc = pc]
        /\ \A i \in Requests \ {r} : request'[i] = request[i]
    BY RequestChanges DEF Goes
  <1> QED
    BY <1>1, <1>2 DEF Request, SameAsker, SamePlace

LEMMA EndsEffect ==
  ASSUME TypeOK, NEW r \in Requests, NEW status \in Statuses, Ends(r, status)
  PROVE  /\ Left(request'[r], request[r], "done", status)
         /\ \A i \in Requests \ {r} : request'[i] = request[i]
  <1>1. "done" \in PCs
    BY DEF PCs
  <1>2. /\ request'[r] = Leaving(r, "done", status)
        /\ \A i \in Requests \ {r} : request'[i] = request[i]
    BY RequestChanges DEF Ends
  <1> QED
    BY <1>1, <1>2, LeavingFields DEF Left

LEMMA WorkingEffects ==
  ASSUME TypeOK, NEW r \in Requests
  PROVE  LET p == request'[r]  q == request[r] IN
    /\ OpenSession(r) =>
         /\ p.pc = IF q.kind = "chat" THEN "history" ELSE "respond"
         /\ SameAsker(p, q)
         /\ p.session = r /\ p.history = q.history /\ p.arrived = q.arrived
    /\ ReadHistory(r) =>
         /\ p.pc = "sessionOfQuestion" /\ SameAsker(p, q)
         /\ p.session = q.session /\ p.arrived = q.arrived
         /\ p.history = GetMessages(q.session)
    /\ StoreQuestion(r) => p.pc = "answer" /\ SameAsker(p, q) /\ SamePlace(p, q)
    /\ TakeAnswer(r) =>
         \/ /\ p.pc = "sessionOfAnswer" /\ SameAsker(p, q)
            /\ p.session = q.session /\ p.history = <<>> /\ p.arrived = 0
         \/ Left(p, q, "done", 500)
    /\ StoreReply(r) => /\ p.pc = "audit" /\ p.wrote = 2
                        /\ SameAsker(p, q) /\ SamePlace(p, q)
    /\ AnswerTurn(r) => p = q
  <1>1. request[r] \in Request
    BY DEF TypeOK
  <1> USE RequestChanges
  <1>2. ASSUME OpenSession(r)
        PROVE  /\ request'[r].pc = IF request[r].kind = "chat" THEN "history" ELSE "respond"
               /\ SameAsker(request'[r], request[r]) /\ request'[r].session = r
               /\ request'[r].history = request[r].history
               /\ request'[r].arrived = request[r].arrived
    <2> DEFINE pc == IF request[r].kind = "chat" THEN "history" ELSE "respond"
    <2>1. request'[r] = [request[r] EXCEPT !.session = r, !.pc = pc]
      BY <1>2 DEF OpenSession
    <2> QED
      BY <1>1, <2>1 DEF Request, SameAsker
  <1>3. ASSUME ReadHistory(r)
        PROVE  /\ request'[r].pc = "sessionOfQuestion" /\ SameAsker(request'[r], request[r])
               /\ request'[r].session = request[r].session
               /\ request'[r].arrived = request[r].arrived
               /\ request'[r].history = GetMessages(request[r].session)
    <2>1. request'[r] = [request[r] EXCEPT !.pc = "sessionOfQuestion",
                                           !.history = GetMessages(request[r].session)]
      BY <1>3 DEF ReadHistory
    <2> QED
      BY <1>1, <2>1 DEF Request, SameAsker
  <1>4. ASSUME StoreQuestion(r)
        PROVE  /\ request'[r].pc = "answer"
               /\ SameAsker(request'[r], request[r]) /\ SamePlace(request'[r], request[r])
    <2>1. request'[r] = [request[r] EXCEPT !.pc = "answer", !.wrote = 1]
      BY <1>4 DEF StoreQuestion
    <2> QED
      BY <1>1, <2>1 DEF Request, SameAsker, SamePlace
  <1>5. ASSUME TakeAnswer(r)
        PROVE  \/ /\ request'[r].pc = "sessionOfAnswer" /\ SameAsker(request'[r], request[r])
                  /\ request'[r].session = request[r].session
                  /\ request'[r].history = <<>> /\ request'[r].arrived = 0
               \/ Left(request'[r], request[r], "done", 500)
    <2>1. \/ request'[r] = [request[r] EXCEPT !.pc = "sessionOfAnswer", !.history = <<>>,
                                              !.arrived = 0]
          \/ Ends(r, 500)
      BY <1>5 DEF TakeAnswer
    <2>2. 500 \in Statuses
      BY DEF Statuses
    <2>3. Ends(r, 500) => Left(request'[r], request[r], "done", 500)
      BY <2>2, EndsEffect
    <2> DEFINE none == <<>>
               q == [request[r] EXCEPT !.pc = "sessionOfAnswer", !.history = none, !.arrived = 0]
    <2> HIDE DEF none
    <2>4. /\ q.pc = "sessionOfAnswer" /\ SameAsker(q, request[r])
          /\ q.session = request[r].session /\ q.history = none /\ q.arrived = 0
      BY <1>1 DEF Request, SameAsker
    <2>5. request'[r] = q \/ Ends(r, 500)
      BY <2>1 DEF none
    <2> HIDE DEF q
    <2>6. q.history = <<>>
      BY <2>4 DEF none
    <2>7. CASE request'[r] = q
      <3>1. /\ request'[r].pc = "sessionOfAnswer" /\ SameAsker(request'[r], request[r])
            /\ request'[r].session = request[r].session /\ request'[r].arrived = 0
        BY <2>4, <2>7, Zenon
      <3>2. request'[r].history = <<>>
        BY <2>6, <2>7, Zenon
      <3> QED
        BY <3>1, <3>2
    <2>8. CASE Ends(r, 500)
      BY <2>3, <2>8, Zenon
    <2> QED
      BY <2>5, <2>7, <2>8, Zenon
  <1>6. ASSUME StoreReply(r)
        PROVE  /\ request'[r].pc = "audit" /\ request'[r].wrote = 2
               /\ SameAsker(request'[r], request[r]) /\ SamePlace(request'[r], request[r])
    <2>1. request'[r] = [request[r] EXCEPT !.pc = "audit", !.wrote = 2]
      BY <1>6 DEF StoreReply
    <2> QED
      BY <1>1, <2>1 DEF Request, SameAsker, SamePlace
  <1>7. AnswerTurn(r) => request'[r] = request[r]
    BY DEF AnswerTurn
  <1> QED
    BY <1>2, <1>3, <1>4, <1>5, <1>6, <1>7, ZenonT(60)

SameCase(p, q) == /\ p.kind = q.kind /\ p.status = q.status /\ p.user = q.user
                  /\ SamePlace(p, q)

SameArrival(p, q) == p.at = q.at /\ p.held = q.held /\ p.wasActive = q.wasActive

Fails(r) == \E status \in {401, 403, 429, 500} : Left(request'[r], request[r], "done", status)

LEMMA ReadingEffects ==
  ASSUME TypeOK, NEW r \in Requests
  PROVE  LET p == request'[r]  q == request[r] IN
    /\ LoginUser(r) =>
         \/ Fails(r)
         \/ /\ p.pc = "loginRoles" /\ q.user \in active
            /\ SameAsker(p, q) /\ SamePlace(p, q)
    /\ KeyUser(r) =>
         \/ Fails(r)
         \/ /\ p.pc = "keyRoles" /\ q.user \in active
            /\ SameAsker(p, q) /\ SamePlace(p, q)
    /\ LoginRoles(r) \/ KeyRoles(r) =>
         /\ p.pc = IF LoginRoles(r) THEN "loginPermissions" ELSE "keyPermissions"
         /\ SameCase(p, q) /\ SameArrival(p, q)
         /\ p.token = q.token /\ p.permissions = q.permissions /\ p.roles = ListRoles(q.user)
    /\ LoginPermissions(r) =>
         p.pc = "audit" /\ SameCase(p, q) /\ p.token = None
    /\ KeyPermissions(r) =>
         /\ p.pc = "admit" /\ SameCase(p, q) /\ SameArrival(p, q)
         /\ p.token = q.token /\ p.roles = q.roles /\ p.permissions = ListPermissions(q.user)
    /\ Bearer(r) =>
         \/ Fails(r)
         \/ /\ p.pc = "admit" /\ SameCase(p, q) /\ SameArrival(p, q) /\ p.token = q.token
            /\ ~Expired(q.token) /\ tokens[q.token].user \in active
            /\ p.roles = tokens[q.token].roles /\ p.permissions = tokens[q.token].permissions
    /\ Admit(r) =>
         \/ Fails(r)
         \/ /\ Permitted(q.roles, q.permissions, Needed(q.kind))
            /\ p.pc = FirstStep(q) /\ SameCase(p, q) /\ p.token = None
  <1>1. request[r] \in Request
    BY DEF TypeOK
  <1>2. \A status \in {401, 403, 429, 500} : Ends(r, status) => Fails(r)
    <2>1. {401, 403, 429, 500} \subseteq Statuses
      BY DEF Statuses
    <2> QED
      BY <2>1, EndsEffect DEF Fails
  <1>3. ASSUME LoginUser(r)
        PROVE  \/ Fails(r)
               \/ /\ request'[r].pc = "loginRoles" /\ request[r].user \in active
                  /\ SameAsker(request'[r], request[r]) /\ SamePlace(request'[r], request[r])
    BY <1>2, <1>3, GoesEffect DEF LoginUser
  <1>4. ASSUME KeyUser(r)
        PROVE  \/ Fails(r)
               \/ /\ request'[r].pc = "keyRoles" /\ request[r].user \in active
                  /\ SameAsker(request'[r], request[r]) /\ SamePlace(request'[r], request[r])
    BY <1>2, <1>4, GoesEffect DEF KeyUser
  <1>5. ASSUME NEW pc, NEW roles, Becomes(r, [request[r] EXCEPT !.pc = pc, !.roles = roles])
        PROVE  /\ request'[r].pc = pc
               /\ SameCase(request'[r], request[r]) /\ SameArrival(request'[r], request[r])
               /\ request'[r].token = request[r].token
               /\ request'[r].permissions = request[r].permissions
               /\ request'[r].roles = roles
    <2>1. request'[r] = [request[r] EXCEPT !.pc = pc, !.roles = roles]
      BY <1>5, RequestChanges
    <2> QED
      BY <1>1, <2>1 DEF Request, SameCase, SamePlace, SameArrival
  <1>6. ASSUME LoginPermissions(r)
        PROVE  /\ request'[r].pc = "audit" /\ SameCase(request'[r], request[r])
               /\ request'[r].token = None
    <2>1. request'[r] = [Admitted(request[r]) EXCEPT !.pc = "audit"]
      BY <1>6, RequestChanges DEF LoginPermissions
    <2> QED
      BY <1>1, <2>1, AdmittedFields DEF SameCase, SamePlace
  <1>7. ASSUME KeyPermissions(r)
        PROVE  /\ request'[r].pc = "admit"
               /\ SameCase(request'[r], request[r]) /\ SameArrival(request'[r], request[r])
               /\ request'[r].token = request[r].token
               /\ request'[r].roles = request[r].roles
               /\ request'[r].permissions = ListPermissions(request[r].user)
    <2>1. request'[r] = [request[r] EXCEPT !.pc = "admit",
                                           !.permissions = ListPermissions(request[r].user)]
      BY <1>7, RequestChanges DEF KeyPermissions
    <2> QED
      BY <1>1, <2>1 DEF Request, SameCase, SamePlace, SameArrival
  <1>8. ASSUME Bearer(r)
        PROVE  \/ Fails(r)
               \/ LET p == request'[r]  q == request[r] IN
                  /\ p.pc = "admit" /\ SameCase(p, q) /\ SameArrival(p, q) /\ p.token = q.token
                  /\ ~Expired(q.token) /\ tokens[q.token].user \in active
                  /\ p.roles = tokens[q.token].roles
                  /\ p.permissions = tokens[q.token].permissions
    <2> DEFINE t == request[r].token
    <2>1. CASE Ends(r, 401)
      BY <1>2, <2>1
    <2>2. CASE /\ ~Expired(t) /\ tokens[t].user \in active
               /\ Becomes(r, [request[r] EXCEPT !.pc = "admit", !.roles = tokens[t].roles,
                                                !.permissions = tokens[t].permissions])
      <3>1. request'[r] = [request[r] EXCEPT !.pc = "admit", !.roles = tokens[t].roles,
                                             !.permissions = tokens[t].permissions]
        BY <2>2, RequestChanges
      <3> QED
        BY <1>1, <2>2, <3>1 DEF Request, SameCase, SamePlace, SameArrival
    <2> QED
      BY <1>8, <2>1, <2>2 DEF Bearer
  <1>9. ASSUME Admit(r)
        PROVE  \/ Fails(r)
               \/ LET p == request'[r]  q == request[r] IN
                  /\ Permitted(q.roles, q.permissions, Needed(q.kind))
                  /\ p.pc = FirstStep(q) /\ SameCase(p, q) /\ p.token = None
    <2> DEFINE pc == FirstStep(request[r])
               may == Permitted(request[r].roles, request[r].permissions,
                                Needed(request[r].kind))
    <2>1. \/ Ends(r, 429) \/ Ends(r, 403)
          \/ may /\ Becomes(r, [Admitted(request[r]) EXCEPT !.pc = pc])
      BY <1>9, Zenon DEF Admit
    <2> HIDE DEF may, pc
    <2>2. CASE may /\ Becomes(r, [Admitted(request[r]) EXCEPT !.pc = pc])
      <3>1. request'[r] = [Admitted(request[r]) EXCEPT !.pc = pc]
        BY <2>2, RequestChanges
      <3>2. /\ request'[r].pc = pc /\ SameCase(request'[r], request[r])
            /\ request'[r].token = None
        BY <1>1, <3>1, AdmittedFields DEF SameCase, SamePlace
      <3> QED
        BY <2>2, <3>2 DEF may, pc
    <2> QED
      BY <1>2, <2>1, <2>2
  <1>10. ASSUME LoginRoles(r) \/ KeyRoles(r)
         PROVE  LET p == request'[r]  q == request[r] IN
                /\ p.pc = IF LoginRoles(r) THEN "loginPermissions" ELSE "keyPermissions"
                /\ SameCase(p, q) /\ SameArrival(p, q)
                /\ p.token = q.token /\ p.permissions = q.permissions
                /\ p.roles = ListRoles(q.user)
    <2>1. LoginRoles(r) =>
            Becomes(r, [request[r] EXCEPT !.pc = "loginPermissions",
                                          !.roles = ListRoles(request[r].user)])
      BY DEF LoginRoles
    <2>2. KeyRoles(r) =>
            Becomes(r, [request[r] EXCEPT !.pc = "keyPermissions",
                                          !.roles = ListRoles(request[r].user)])
      BY DEF KeyRoles
    <2> QED
      BY <1>5, <1>10, <2>1, <2>2, Zenon
  <1> QED
    BY <1>3, <1>4, <1>6, <1>7, <1>8, <1>9, <1>10, Zenon

LEMMA StepMoves ==
  ASSUME TypeOK, Progress, NEW r \in Requests, Step(r)
  PROVE  /\ \A i \in Requests \ {r} : request'[i] = request[i]
         /\ ProgressOf(request'[r]) /\ (Quiet(r) \/ Writes(r))
         /\ request[r].pc \in {"new"} \cup Reading \cup Working
  <1>1. request[r].pc \in {"new"} \cup Reading \cup Working
    BY DEF Step, ArriveLogin, ArriveOther, ArriveChat, LoginUser, LoginRoles, LoginPermissions,
       Bearer, KeyUser, KeyRoles, KeyPermissions, Admit, OpenSession, ReadHistory,
       EnsureSession, StoreQuestion, AnswerTurn, TakeAnswer, StoreReply, Enqueue, CreateKey,
       Audit, Respond, DbRaises, Is, Reading, Working, Transactions
  <1> QED
    BY <1>1, ArrivalMoves, ReadingMoves, WorkingMoves, Zenon DEF Step

(***************************************************************************)
(* In a crash every request that is under way leaves.                      *)
(***************************************************************************)
LEMMA CrashMoves ==
  ASSUME TypeOK, Progress, Crash, NEW i \in Requests
  PROVE  /\ request'[i] = request[i] \/ Left(request'[i], request[i], "lost", 0)
         /\ request'[i] = request[i] <=> ~UnderWay(i)
         /\ ProgressOf(request'[i]) /\ Quiet(i)
  <1>1. ProgressOf(request[i]) /\ UNCHANGED messages
    BY ProgressEach DEF Crash, storeVars
  <1>2. request'[i] = IF UnderWay(i) THEN Leaving(i, "lost", 0) ELSE request[i]
    BY DEF Crash
  <1>3. "lost" \in PCs /\ 0 \in Statuses
    BY DEF PCs, Statuses
  <1>4. CASE UnderWay(i)
    <2>1. Left(request'[i], request[i], "lost", 0)
      BY <1>2, <1>3, <1>4, LeavingFields DEF Left
    <2>2. request[i].pc # "lost"
      BY <1>4 DEF UnderWay, Reading, Working
    <2> QED
      BY <1>1, <1>4, <2>1, <2>2
         DEF Left, ProgressOf, Quiet, LoginReading, Reading, Asking, Replying
  <1>5. CASE ~UnderWay(i)
    BY <1>1, <1>2, <1>5 DEF Quiet
  <1> QED
    BY <1>4, <1>5

LEMMA ProgressOfNext ==
  ASSUME TypeOK, Progress, Next
  PROVE  Progress'
  <1>1. SUFFICES ASSUME NEW i \in Requests
                 PROVE  ProgressOf(request'[i])
    BY DEF Progress, ProgressOf, Succeeded, Is
  <1>2. CASE Crash
    BY <1>2, CrashMoves
  <1>3. CASE Environment
    BY <1>3, ProgressEach DEF Environment
  <1>4. CASE \E r \in Requests : Step(r)
    BY <1>4, StepMoves, ProgressEach
  <1> QED
    BY <1>2, <1>3, <1>4 DEF Next

-----------------------------------------------------------------------------
(* The rows of the conversations.                                          *)

Rows == RowsCounted /\ CountedRows /\ RowsOnce /\ RowsOrdered

LEMMA RowTyped ==
  ASSUME TypeOK, NEW s \in SessionId, NEW i \in 1..Len(messages[s])
  PROVE  messages[s][i] \in Message /\ messages[s][i].of \in Requests
  <1>1. messages[s] \in Seq(Message)
    BY DEF TypeOK
  <1>2. messages[s][i] \in Message
    BY <1>1, ElementOfSeq
  <1> QED
    BY <1>2 DEF Message

LEMMA RowsRest ==
  ASSUME TypeOK, Rows, UNCHANGED messages,
         \A i \in Requests : /\ request'[i].wrote = request[i].wrote
                             /\ request[i].wrote > 0 => request'[i].session = request[i].session
  PROVE  Rows'
  <1>1. \A s \in SessionId : \A i \in 1..Len(messages[s]) : messages[s][i].of \in Requests
    BY RowTyped
  <1>2. \A i \in Requests : request[i].wrote \in {0, 1, 2}
    BY DEF TypeOK, Request
  <1>3. RowsCounted'
    BY <1>1, <1>2 DEF Rows, RowsCounted
  <1>4. CountedRows'
    BY <1>2 DEF Rows, CountedRows
  <1>5. RowsOnce' /\ RowsOrdered'
    BY DEF Rows, RowsOnce, RowsOrdered
  <1> QED
    BY <1>3, <1>4, <1>5 DEF Rows

LEMMA RowsGrow ==
  ASSUME TypeOK, Progress, Rows, NEW r \in Requests, Writes(r),
         \A i \in Requests \ {r} : request'[i] = request[i]
  PROVE  Rows'
  <1> DEFINE s0 == request[r].session
             w  == request'[r].wrote
             m  == Says(Speaker(w), r)
             L  == Len(messages[s0])
  <1>1. /\ s0 \in SessionId /\ w \in {1, 2} /\ request[r].wrote = w - 1
        /\ request'[r].session = s0 /\ InsertMessage(s0, m)
    BY DEF Writes
  <1>2. m \in Message /\ m.of = r /\ (m.role = "user" <=> w = 1)
        /\ (m.role = "assistant" <=> w = 2)
    BY <1>1 DEF Message, Says, Speaker, Speakers
  <1>3. /\ messages' \in [SessionId -> Seq(Message)]
        /\ messages'[s0] = Append(messages[s0], m)
        /\ \A s \in SessionId \ {s0} : messages'[s] = messages[s]
    BY <1>1, <1>2, InsertTyped
  <1>4. /\ messages[s0] \in Seq(Message) /\ L \in Nat
        /\ \A s \in SessionId : messages[s] \in Seq(Message) /\ Len(messages[s]) \in Nat
    BY <1>1 DEF TypeOK
  <1>5. /\ Len(messages'[s0]) = L + 1 /\ messages'[s0][L + 1] = m
        /\ \A i \in 1..L : messages'[s0][i] = messages[s0][i]
    BY <1>2, <1>3, <1>4
  <1>6. \A i \in Requests : /\ request[i].wrote \in {0, 1, 2}
                            /\ request'[i].wrote \in Nat
                            /\ request'[i].wrote >= request[i].wrote
                            /\ request'[i].session = request[i].session
    <2>1. \A i \in Requests : request[i].wrote \in {0, 1, 2}
      BY DEF TypeOK, Request
    <2>2. request'[r].wrote = request[r].wrote + 1 /\ request'[r].session = request[r].session
      BY DEF Writes
    <2> QED
      BY <2>1, <2>2
  <1>7. \A s \in SessionId, i \in Nat : i \in 1..Len(messages[s]) =>
          /\ i \in 1..Len(messages'[s]) /\ messages'[s][i] = messages[s][i]
          /\ messages[s][i].of \in Requests
    <2> TAKE s \in SessionId, i \in Nat
    <2> HAVE i \in 1..Len(messages[s])
    <2>1. messages[s][i].of \in Requests
      BY RowTyped
    <2>2. CASE s = s0
      BY <1>4, <1>5, <2>1, <2>2
    <2>3. CASE s # s0
      BY <1>3, <2>1, <2>3
    <2> QED
      BY <2>2, <2>3
  <1>8. \A s \in SessionId : \A i \in 1..Len(messages'[s]) :
          i \in 1..Len(messages[s]) \/ (s = s0 /\ i = L + 1)
    BY <1>3, <1>4, <1>5
  <1> HIDE DEF L, m, w, s0
  <1>9. RowsCounted'
    <2> SUFFICES ASSUME NEW s \in SessionId, NEW i \in 1..Len(messages'[s])
                 PROVE  /\ request'[messages'[s][i].of].session = s
                        /\ request'[messages'[s][i].of].wrote >=
                             IF messages'[s][i].role = "user" THEN 1 ELSE 2
      BY DEF RowsCounted
    <2>1. CASE i \in 1..Len(messages[s])
      <3> DEFINE o == messages[s][i]
      <3>1. /\ request[messages[s][i].of].session = s
            /\ request[messages[s][i].of].wrote >=
                 IF messages[s][i].role = "user" THEN 1 ELSE 2
        BY <2>1 DEF Rows, RowsCounted
      <3>2. messages'[s][i] = o /\ o.of \in Requests
        BY <1>7, <2>1
      <3>3. /\ request[o.of].session = request'[o.of].session
            /\ request[o.of].wrote \in {0, 1, 2}
            /\ request'[o.of].wrote >= request[o.of].wrote
            /\ request'[o.of].wrote \in Nat
        BY <1>6, <3>2
      <3>4. /\ request[o.of].session = s
            /\ request[o.of].wrote >= IF o.role = "user" THEN 1 ELSE 2
        BY <3>1
      <3> HIDE DEF o
      <3>5. /\ request'[o.of].session = s
            /\ request'[o.of].wrote >= IF o.role = "user" THEN 1 ELSE 2
        BY <3>3, <3>4
      <3> QED
        BY <3>2, <3>5
    <2>2. CASE s = s0 /\ i = L + 1
      BY <1>1, <1>2, <1>5, <2>2 DEF w
    <2> QED
      BY <1>8, <2>1, <2>2
  <1>10. CountedRows'
    <2> SUFFICES ASSUME NEW q \in Requests, NEW n \in 1..request'[q].wrote
                 PROVE  \E i \in 1..Len(messages'[request'[q].session]) :
                          messages'[request'[q].session][i] = Says(Speaker(n), q)
      BY DEF CountedRows
    <2>1. CASE n \in 1..request[q].wrote
      <3>1. PICK i \in 1..Len(messages[request[q].session]) :
              messages[request[q].session][i] = Says(Speaker(n), q)
        BY <2>1 DEF Rows, CountedRows
      <3>2. request[q].session \in SessionId
        <4>1. request[q].wrote > 0
          BY <1>6, <2>1
        <4> QED
          BY <4>1, ProgressEach DEF ProgressOf
      <3> QED
        BY <1>6, <1>7, <3>1, <3>2
    <2>2. CASE q = r /\ n = w
      BY <1>1, <1>4, <1>5, <2>2 DEF m, w
    <2>3. n \in 1..request[q].wrote \/ (q = r /\ n = w)
      BY <1>1, <1>6 DEF w
    <2> QED
      BY <2>1, <2>2, <2>3
  <1>11. RowsOnce'
    <2>1. \A i \in 1..L : messages[s0][i] # m
      BY <1>1, <1>2, <1>4 DEF Rows, RowsCounted, L
    <2> QED
      BY <1>1, <1>5, <1>7, <1>8, <2>1 DEF Rows, RowsOnce, L
  <1>12. RowsOrdered'
    <2> SUFFICES ASSUME NEW s \in SessionId, NEW i \in 1..Len(messages'[s]),
                        messages'[s][i].role = "assistant"
                 PROVE  \E j \in 1..(i - 1) : messages'[s][j] = Says("user", messages'[s][i].of)
      BY DEF RowsOrdered
    <2>1. CASE i \in 1..Len(messages[s])
      <3>1. PICK j \in 1..(i - 1) : messages[s][j] = Says("user", messages[s][i].of)
        BY <1>7, <2>1 DEF Rows, RowsOrdered
      <3> QED
        BY <1>4, <1>7, <2>1, <3>1
    <2>2. CASE s = s0 /\ i = L + 1
      <3>1. w = 2
        BY <1>2, <1>5, <2>2
      <3>2. PICK j \in 1..L : messages[s0][j] = Says("user", r)
        BY <1>1, <3>1 DEF Rows, CountedRows, Speaker, s0, L
      <3> QED
        BY <1>2, <1>4, <1>5, <2>2, <3>2
    <2> QED
      BY <1>8, <2>1, <2>2
  <1> QED
    BY <1>9, <1>10, <1>11, <1>12 DEF Rows

-----------------------------------------------------------------------------
(* What arrives.                                                           *)

Arrives(p) ==
  /\ p.kind \in Kinds /\ p.wrote = 0 /\ p.history = <<>> /\ p.status \in {0, 401}
  /\ p.at = clock /\ p.wasActive = (p.user \in active)
  /\ p.held = IF p.user \in Users THEN assigned[p.user] ELSE {}
  /\ p.pc \in {"loginUser", "bearer", "keyUser"} => p.roles = {} /\ p.permissions = {}
  /\ \/ p.pc = "loginUser" /\ p.kind = "login" /\ p.user \in Users /\ p.token = None
     \/ /\ p.pc = "bearer" /\ p.token \in Requests
        /\ Succeeded(p.token) /\ request[p.token].kind = "login"
        /\ tokens[p.token].user = p.user
     \/ p.pc = "keyUser" /\ p.token = None /\ p.user # None
     \/ p.pc = "done" /\ p.status = 401 /\ p.token = None
     \/ p.pc = "admit" /\ p.user = System /\ ~settings.secured /\ p.token = None
  /\ \/ p.session = None /\ p.arrived = 0
     \/ /\ p.kind = "chat" /\ p.session \in SessionId
        /\ p.arrived = Len(messages[p.session])

LEMMA ArrivalEffects ==
  ASSUME TypeOK, NEW r \in Requests, ArriveLogin(r) \/ ArriveOther(r) \/ ArriveChat(r)
  PROVE  Arrives(request'[r]) /\ request[r].pc = "new"
  <1>1. request[r].pc = "new"
    BY DEF ArriveLogin, ArriveOther, ArriveChat, Is
  <1>2. CASE ArriveLogin(r)
    <2>1. PICK u \in Users : Becomes(r, Arriving("login", u, "loginUser"))
      BY <1>2 DEF ArriveLogin
    <2>2. request'[r] = Arriving("login", u, "loginUser")
      BY <2>1, RequestChanges
    <2>3. "login" \in Kinds /\ "loginUser" \in PCs
      BY DEF Kinds, PCs, Reading
    <2> QED
      BY <1>1, <2>2, <2>3, ArrivingFields DEF Arrives
  <1>3. CASE ArriveOther(r)
    <2>1. PICK kind \in Offers[r] \ {"login", "chat"} : \E q \in Credentialed(kind) : Becomes(r, q)
      BY <1>3, Zenon DEF ArriveOther
    <2>2. PICK q \in Credentialed(kind) : Becomes(r, q)
      BY <2>1
    <2>3. kind \in Kinds
      BY ApiAssumption
    <2>4. request'[r] = q
      BY <2>2, RequestChanges
    <2> QED
      BY <1>1, <2>3, <2>4, CredentialedFields DEF Arrives
  <1>4. CASE ArriveChat(r)
    <2> DEFINE past(s) == IF s = None THEN 0 ELSE Len(messages[s])
    <2>1. PICK q \in Credentialed("chat"), s \in KnownSessions \cup {None}, asksMock \in BOOLEAN :
            Becomes(r, [q EXCEPT !.mock = settings.mock \/ asksMock, !.session = s,
                                 !.arrived = past(s)])
      BY <1>4, Zenon DEF ArriveChat
    <2> DEFINE n == [q EXCEPT !.mock = settings.mock \/ asksMock, !.session = s,
                              !.arrived = past(s)]
    <2>2. q \in Request
      BY CredentialedTyped DEF Kinds
    <2>3. /\ n.session = s /\ n.arrived = past(s) /\ n.pc = q.pc /\ n.kind = q.kind
          /\ n.wrote = q.wrote /\ n.history = q.history /\ n.status = q.status
          /\ n.at = q.at /\ n.held = q.held /\ n.wasActive = q.wasActive /\ n.user = q.user
          /\ n.token = q.token /\ n.roles = q.roles /\ n.permissions = q.permissions
      BY <2>2 DEF Request
    <2>4. request'[r] = n
      BY <2>1, RequestChanges
    <2>5. \/ s = None /\ past(s) = 0
          \/ s \in SessionId /\ past(s) = Len(messages[s])
      BY ApiAssumption DEF KnownSessions, SessionId
    <2>6. "chat" \in Kinds
      BY DEF Kinds
    <2> HIDE DEF n, past
    <2> QED
      BY <1>1, <2>3, <2>4, <2>5, <2>6, CredentialedFields DEF Arrives
  <1> QED
    BY <1>2, <1>3, <1>4

(***************************************************************************)
(* Only EnsureSession leads to the point where a row is stored.            *)
(***************************************************************************)
LEMMA ComesFromEnsure ==
  ASSUME TypeOK, Progress, NEW r \in Requests, Step(r),
         request'[r].pc \in {"question", "reply"}
  PROVE  EnsureSession(r) /\ SameAsker(request'[r], request[r])
         /\ SamePlace(request'[r], request[r])
  <1>1. ~(ArriveLogin(r) \/ ArriveOther(r) \/ ArriveChat(r))
    BY ArrivalEffects DEF Arrives
  <1>2. ~Fails(r)
    BY DEF Fails, Left
  <1>3. ~(\/ LoginUser(r) \/ LoginRoles(r) \/ LoginPermissions(r)
          \/ Bearer(r) \/ KeyUser(r) \/ KeyRoles(r) \/ KeyPermissions(r))
    BY <1>2, ReadingEffects
  <1>4. ~Admit(r)
    <2>1. ASSUME Admit(r)
          PROVE  FirstStep(request[r]) \in {"history", "openSession", "enqueue", "createKey"}
      <3>1. request[r].kind \in Kinds \ {"login"}
        BY <2>1 DEF Admit, Is, Progress, Reading, LoginReading
      <3> QED
        BY <3>1 DEF FirstStep, Kinds
    <2> QED
      BY <1>2, <2>1, ReadingEffects
  <1>5. ~(OpenSession(r) \/ ReadHistory(r) \/ StoreQuestion(r) \/ StoreReply(r))
    BY WorkingEffects
  <1>6. ~TakeAnswer(r)
    BY WorkingEffects DEF Left
  <1>7. ~AnswerTurn(r)
    BY WorkingEffects DEF AnswerTurn, Is
  <1>8. ~(Enqueue(r) \/ CreateKey(r) \/ Audit(r))
    BY GoesEffect DEF Enqueue, CreateKey, Audit
  <1>9. ~(Respond(r) \/ DbRaises(r))
    <2>1. 200 \in Statuses /\ 500 \in Statuses
      BY DEF Statuses
    <2> QED
      BY <2>1, EndsEffect DEF Respond, DbRaises, Left
  <1>10. EnsureSession(r)
    BY <1>1, <1>3, <1>4, <1>5, <1>6, <1>7, <1>8, <1>9, Zenon DEF Step
  <1> QED
    BY <1>10, GoesEffect DEF EnsureSession

LEMMA SessionsGrow ==
  ASSUME Next
  PROVE  sessions \subseteq sessions'
  BY DEF Next, Crash, Environment, Step, ArriveLogin, ArriveOther, ArriveChat, LoginUser,
     LoginRoles, LoginPermissions, Bearer, KeyUser, KeyRoles, KeyPermissions, Admit,
     OpenSession, ReadHistory, EnsureSession, StoreQuestion, AnswerTurn, TakeAnswer,
     StoreReply, Enqueue, CreateKey, Audit, Respond, DbRaises, CreateSession, storeVars

LEMMA ConversingOfNext ==
  ASSUME TypeOK, Conversing, Next
  PROVE  Conversing'
  <1>1. Progress' /\ Rows
    BY ProgressOfNext DEF Conversing, Rows
  <1>2. sessions \subseteq sessions'
    BY SessionsGrow
  <1>3. \A s \in SessionId : messages[s] # <<>> => s \in sessions
    BY DEF Conversing, MessagesHaveSession
  <1>4. \A i \in Requests : request[i].pc \in {"question", "reply"} =>
          request[i].session \in sessions
    BY DEF Conversing, SessionOpen
  <1>5. CASE Crash \/ Environment
    <2>1. /\ UNCHANGED messages
          /\ \A i \in Requests :
               /\ request'[i].wrote = request[i].wrote
               /\ request[i].wrote > 0 => request'[i].session = request[i].session
               /\ request'[i] = request[i] \/ request'[i].pc = "lost"
      BY <1>5, CrashMoves DEF Conversing, Environment, storeVars, Quiet, Crash, Left
    <2>2. Rows'
      BY <1>1, <2>1, RowsRest
    <2>3. MessagesHaveSession' /\ SessionOpen'
      BY <1>2, <1>3, <1>4, <2>1 DEF MessagesHaveSession, SessionOpen
    <2> QED
      BY <1>1, <2>2, <2>3 DEF Conversing, Rows
  <1>6. ASSUME NEW r \in Requests, Step(r)
        PROVE  Conversing'
    <2>1. /\ \A i \in Requests \ {r} : request'[i] = request[i]
          /\ Quiet(r) \/ Writes(r)
      BY <1>6, StepMoves DEF Conversing
    <2>2. Rows'
      BY <1>1, <2>1, RowsRest, RowsGrow DEF Conversing, Quiet
    <2>3. SessionOpen'
      <3>1. SUFFICES ASSUME request'[r].pc \in {"question", "reply"}
                     PROVE  request'[r].session \in sessions'
        BY <1>2, <1>4, <2>1 DEF SessionOpen
      <3>2. EnsureSession(r) /\ request'[r].session = request[r].session
        BY <1>6, <3>1, ComesFromEnsure DEF Conversing, SamePlace
      <3> QED
        BY <3>2 DEF EnsureSession, CreateSession
    <2>4. MessagesHaveSession'
      <3>1. CASE Quiet(r)
        BY <1>2, <1>3, <3>1 DEF Quiet, MessagesHaveSession
      <3>2. CASE StoreQuestion(r) \/ StoreReply(r)
        <4>1. request[r].session \in sessions
          BY <1>4, <3>2 DEF StoreQuestion, StoreReply, Is
        <4>2. \A s \in SessionId \ {request[r].session} : messages'[s] = messages[s]
          BY <3>2 DEF StoreQuestion, StoreReply, InsertMessage, TypeOK
        <4> QED
          BY <1>2, <1>3, <4>1, <4>2 DEF MessagesHaveSession
      <3>3. CASE ~(StoreQuestion(r) \/ StoreReply(r))
        <4>1. UNCHANGED messages
          BY <1>6, <3>3 DEF Step, ArriveLogin, ArriveOther, ArriveChat, LoginUser, LoginRoles,
             LoginPermissions, Bearer, KeyUser, KeyRoles, KeyPermissions, Admit, OpenSession,
             ReadHistory, EnsureSession, AnswerTurn, TakeAnswer, Enqueue, CreateKey, Audit,
             Respond, DbRaises, storeVars
        <4> QED
          BY <1>2, <1>3, <4>1 DEF MessagesHaveSession
      <3> QED
        BY <3>2, <3>3
    <2> QED
      BY <1>1, <2>2, <2>3, <2>4 DEF Conversing, Rows
  <1> QED
    BY <1>5, <1>6 DEF Next

(***************************************************************************)
(* The steps, sorted by what they do to the place a request is at.         *)
(***************************************************************************)
LEMMA StepCases ==
  ASSUME TypeOK, Progress, NEW r \in Requests, Step(r)
  PROVE  LET p == request'[r]  q == request[r] IN
         \/ Arrives(p) /\ q.pc = "new"
         \/ Left(p, q, "done", 200) /\ Respond(r)
         \/ \E status \in Statuses \ {200} : Left(p, q, "done", status)
         \/ LoginPermissions(r) /\ p.pc = "audit" /\ SameCase(p, q)
         \/ q.pc \in Reading /\ p.pc \in Reading /\ SameCase(p, q)
         \/ /\ Admit(r) /\ p.pc = FirstStep(q) /\ SameCase(p, q)
            /\ p.pc \in {"history", "openSession", "enqueue", "createKey"}
         \/ OpenSession(r) \/ ReadHistory(r) \/ StoreQuestion(r)
         \/ AnswerTurn(r) \/ StoreReply(r)
         \/ EnsureSession(r) /\ p.pc \in {"question", "reply"}
         \/ /\ TakeAnswer(r) /\ p.pc = "sessionOfAnswer"
            /\ p.history = <<>> /\ p.arrived = 0 /\ p.session = q.session /\ SameAsker(p, q)
         \/ (Enqueue(r) \/ CreateKey(r)) /\ p.pc = "audit"
         \/ Audit(r) /\ p.pc = "respond"
  <1> DEFINE p == request'[r]
             q == request[r]
  <1>1. Fails(r) => \E status \in Statuses \ {200} : Left(p, q, "done", status)
    BY DEF Fails, Statuses
  <1>2. ASSUME ArriveLogin(r) \/ ArriveOther(r) \/ ArriveChat(r)
        PROVE  Arrives(p) /\ q.pc = "new"
    BY <1>2, ArrivalEffects
  <1>3. ASSUME LoginUser(r) \/ LoginRoles(r) \/ KeyUser(r) \/ KeyRoles(r) \/ KeyPermissions(r)
               \/ Bearer(r)
        PROVE  Fails(r) \/ (q.pc \in Reading /\ p.pc \in Reading /\ SameCase(p, q))
    <2>1. q.pc \in Reading
      BY <1>3 DEF LoginUser, LoginRoles, KeyUser, KeyRoles, KeyPermissions, Bearer, Is, Reading
    <2>2. Fails(r) \/ (SameCase(p, q) /\ p.pc \in {"loginRoles", "loginPermissions", "keyRoles",
                                                  "keyPermissions", "admit"})
      BY <1>3, ReadingEffects DEF SameCase, SameAsker
    <2> QED
      BY <2>1, <2>2 DEF Reading
  <1>4. ASSUME LoginPermissions(r)
        PROVE  p.pc = "audit" /\ SameCase(p, q)
    BY <1>4, ReadingEffects
  <1>5. ASSUME Admit(r)
        PROVE  Fails(r) \/ (/\ p.pc = FirstStep(q) /\ SameCase(p, q)
                            /\ p.pc \in {"history", "openSession", "enqueue", "createKey"})
    <2>1. q.kind \in Kinds \ {"login"}
      BY <1>5 DEF Admit, Is, Progress, Reading, LoginReading
    <2>2. FirstStep(q) \in {"history", "openSession", "enqueue", "createKey"}
      BY <2>1 DEF FirstStep, Kinds
    <2> QED
      BY <1>5, <2>2, ReadingEffects
  <1>6. ASSUME EnsureSession(r) PROVE p.pc \in {"question", "reply"}
    BY <1>6, GoesEffect DEF EnsureSession
  <1>7. ASSUME TakeAnswer(r)
        PROVE  \/ /\ p.pc = "sessionOfAnswer" /\ p.history = <<>> /\ p.arrived = 0
                  /\ p.session = q.session /\ SameAsker(p, q)
               \/ \E status \in Statuses \ {200} : Left(p, q, "done", status)
    <2>1. 500 \in Statuses \ {200}
      BY DEF Statuses
    <2> QED
      BY <1>7, <2>1, WorkingEffects
  <1>8. ASSUME Enqueue(r) \/ CreateKey(r) PROVE p.pc = "audit"
    BY <1>8, GoesEffect DEF Enqueue, CreateKey
  <1>9. ASSUME Audit(r) PROVE p.pc = "respond"
    BY <1>9, GoesEffect DEF Audit
  <1>10. ASSUME Respond(r) PROVE Left(p, q, "done", 200)
    <2>1. 200 \in Statuses
      BY DEF Statuses
    <2> QED
      BY <1>10, <2>1, EndsEffect DEF Respond
  <1>11. ASSUME DbRaises(r)
         PROVE  \E status \in Statuses \ {200} : Left(p, q, "done", status)
    <2>1. 500 \in Statuses \ {200}
      BY DEF Statuses
    <2> QED
      BY <1>11, <2>1, EndsEffect DEF DbRaises
  <1> QED
    BY <1>1, <1>2, <1>3, <1>4, <1>5, <1>6, <1>7, <1>8, <1>9, <1>10, <1>11, Zenon DEF Step

-----------------------------------------------------------------------------
(* What a handler remembers of its session.                                *)

LEMMA RowsKept ==
  ASSUME TypeOK, Progress, Next
  PROVE  \A s \in SessionId :
           /\ Len(messages[s]) \in Nat /\ Len(messages'[s]) \in Nat
           /\ Len(messages'[s]) >= Len(messages[s])
           /\ \A i \in 1..Len(messages[s]) : messages'[s][i] = messages[s][i]
  <1>1. \A s \in SessionId : messages[s] \in Seq(Message) /\ Len(messages[s]) \in Nat
    BY DEF TypeOK
  <1>2. CASE UNCHANGED messages
    BY <1>1, <1>2
  <1>3. ASSUME NEW r \in Requests, Writes(r)
        PROVE  \A s \in SessionId :
                 /\ Len(messages'[s]) \in Nat
                 /\ Len(messages'[s]) >= Len(messages[s])
                 /\ \A i \in 1..Len(messages[s]) : messages'[s][i] = messages[s][i]
    <2> DEFINE m == Says(Speaker(request'[r].wrote), r)
    <2>1. /\ request[r].session \in SessionId /\ m \in Message
          /\ InsertMessage(request[r].session, m)
      BY <1>3 DEF Writes, Message, Says, Speaker, Speakers
    <2> HIDE DEF m
    <2>2. /\ messages'[request[r].session] = Append(messages[request[r].session], m)
          /\ \A s \in SessionId \ {request[r].session} : messages'[s] = messages[s]
      BY <2>1, InsertTyped
    <2> TAKE s \in SessionId
    <2>3. CASE s = request[r].session
      <3> DEFINE old == messages[s]
      <3>1. old \in Seq(Message) /\ messages'[s] = Append(old, m)
        BY <1>1, <2>2, <2>3
      <3> HIDE DEF old
      <3>2. /\ Len(messages'[s]) = Len(old) + 1
            /\ \A i \in 1..Len(old) : messages'[s][i] = old[i]
        BY <2>1, <3>1
      <3> QED
        BY <1>1, <3>2 DEF old
    <2>4. CASE s # request[r].session
      BY <1>1, <2>2, <2>4
    <2> QED
      BY <2>3, <2>4
  <1>4. CASE Crash \/ Environment
    BY <1>2, <1>4 DEF Crash, Environment, storeVars
  <1>5. CASE \E r \in Requests : Step(r)
    BY <1>1, <1>2, <1>3, <1>5, StepMoves DEF Quiet
  <1> QED
    BY <1>4, <1>5 DEF Next

Within(q, all) ==
  /\ q.session \in SessionId => q.arrived <= Len(all[q.session])
  /\ q.session = None => q.arrived = 0
  /\ q.pc = "openSession" \/ (q.pc \in Reading /\ q.kind # "chat") => q.session = None

Recalls(r, q, all) ==
  q.pc \in {"sessionOfQuestion", "question", "answer"} =>
    /\ Len(q.history) <= Len(all[q.session])
    /\ \A i \in 1..Len(q.history) : /\ q.history[i] = all[q.session][i]
                                    /\ q.history[i].of # r
    /\ q.arrived <= Len(q.history) \/ Len(q.history) = MaxHistory

(***************************************************************************)
(* It stays true when rows are added.                                      *)
(***************************************************************************)
LEMMA RecallsRest ==
  ASSUME TypeOK, Progress, Next, NEW r \in Requests, NEW q \in Request,
         Within(q, messages), Recalls(r, q, messages),
         q.pc \in {"sessionOfQuestion", "question", "answer"} => q.session \in SessionId
  PROVE  Within(q, messages') /\ Recalls(r, q, messages')
  <1>1. q.history \in Seq(Message) /\ Len(q.history) \in Nat /\ q.arrived \in Nat
    BY DEF Request
  <1>2. Within(q, messages')
    BY <1>1, RowsKept DEF Within
  <1>3. Recalls(r, q, messages')
    <2> SUFFICES ASSUME q.pc \in {"sessionOfQuestion", "question", "answer"}
                 PROVE  /\ Len(q.history) <= Len(messages'[q.session])
                        /\ \A i \in 1..Len(q.history) :
                             /\ q.history[i] = messages'[q.session][i]
                             /\ q.history[i].of # r
                        /\ q.arrived <= Len(q.history) \/ Len(q.history) = MaxHistory
      BY DEF Recalls
    <2>1. /\ Len(messages[q.session]) \in Nat /\ Len(messages'[q.session]) \in Nat
          /\ Len(messages'[q.session]) >= Len(messages[q.session])
          /\ \A i \in 1..Len(messages[q.session]) :
               messages'[q.session][i] = messages[q.session][i]
      BY RowsKept
    <2>2. /\ Len(q.history) <= Len(messages[q.session])
          /\ \A i \in 1..Len(q.history) : /\ q.history[i] = messages[q.session][i]
                                          /\ q.history[i].of # r
          /\ q.arrived <= Len(q.history) \/ Len(q.history) = MaxHistory
      BY DEF Recalls
    <2>3. \A i \in 1..Len(q.history) : i \in 1..Len(messages[q.session])
      BY <1>1, <2>1, <2>2
    <2> QED
      BY <1>1, <2>1, <2>2, <2>3
  <1> QED
    BY <1>2, <1>3

LEMMA RememberingEach ==
  Remembering <=> \A r \in Requests : Within(request[r], messages)
                                      /\ Recalls(r, request[r], messages)
  BY DEF Remembering, ArrivedWithin, ContextFaithful, Within, Recalls

LEMMA RememberingOfStep ==
  ASSUME TypeOK, TypeOK', Conversing, Remembering, NEW r \in Requests, Step(r), Next
  PROVE  Within(request'[r], messages') /\ Recalls(r, request'[r], messages')
  <1> DEFINE p == request'[r]
             q == request[r]
  <1>1. /\ p \in Request /\ q \in Request
        /\ q.history \in Seq(Message) /\ Len(q.history) \in Nat /\ q.arrived \in Nat
        /\ p.arrived \in Nat
        /\ q.session \in SessionId \cup {None} /\ None \notin SessionId
    BY ApiAssumption DEF TypeOK, Request
  <1>2. ProgressOf(q) /\ Within(q, messages) /\ Recalls(r, q, messages) /\ Progress
    BY ProgressEach, RememberingEach DEF Conversing
  <1>3. q.pc \in {"sessionOfQuestion", "question", "answer"} => q.session \in SessionId
    BY <1>2 DEF ProgressOf, Asking, Replying
  <1>4. Within(q, messages') /\ Recalls(r, q, messages')
    BY <1>1, <1>2, <1>3, RecallsRest
  <1> SUFFICES Within(p, messages') /\ Recalls(r, p, messages')
    OBVIOUS
  <1> HIDE DEF p, q
  <1>5. CASE Arrives(p) /\ q.pc = "new"
    <2>1. \/ p.session = None /\ p.arrived = 0
          \/ /\ p.kind = "chat" /\ p.session \in SessionId
             /\ p.arrived = Len(messages[p.session])
      BY <1>5 DEF Arrives
    <2>2. p.session \in SessionId => Len(messages'[p.session]) >= Len(messages[p.session])
      BY <1>2, RowsKept
    <2>3. p.pc \in {"loginUser", "bearer", "keyUser", "done", "admit"}
      BY <1>5 DEF Arrives
    <2> QED
      BY <1>1, <2>1, <2>2, <2>3 DEF Within, Recalls
  <1>6. CASE \E status \in Statuses : Left(p, q, "done", status)
    <2>1. /\ p.pc = "done" /\ p.session = q.session /\ p.arrived = 0
      BY <1>6 DEF Left
    <2>2. p.session \in SessionId => Len(messages'[p.session]) \in Nat
      BY <1>2, RowsKept
    <2> QED
      BY <1>1, <2>1, <2>2 DEF Within, Recalls, Reading
  <1>7. CASE \/ LoginPermissions(r) /\ p.pc = "audit" /\ SameCase(p, q)
             \/ q.pc \in Reading /\ p.pc \in Reading /\ SameCase(p, q)
    BY <1>4, <1>7 DEF Within, Recalls, SameCase, SamePlace, Reading
  <1>8. CASE /\ Admit(r) /\ p.pc = FirstStep(q) /\ SameCase(p, q)
             /\ p.pc \in {"history", "openSession", "enqueue", "createKey"}
    <2>1. p.pc = "openSession" => q.session = None
      <3>1. q.pc \in Reading /\ q.kind \in Kinds \ {"login"}
        BY <1>2, <1>8 DEF Admit, Is, Reading, LoginReading, ProgressOf, q
      <3>2. q.kind # "chat" => q.session = None
        BY <1>4, <3>1 DEF Within
      <3> QED
        BY <1>8, <3>1, <3>2 DEF FirstStep, Kinds
    <2> QED
      BY <1>4, <1>8, <2>1 DEF Within, Recalls, SameCase, SamePlace, Reading
  <1>9. CASE OpenSession(r)
    <2>1. p.pc \in {"history", "respond"} /\ p.session = r /\ p.arrived = q.arrived
      BY <1>9, WorkingEffects DEF p, q
    <2>2. q.arrived = 0
      BY <1>4, <1>9 DEF OpenSession, Is, Within, q
    <2>3. r \in SessionId /\ Len(messages'[r]) \in Nat
      BY <1>2, RowsKept DEF SessionId
    <2> QED
      BY <1>1, <2>1, <2>2, <2>3 DEF Within, Recalls, Reading
  <1>10. CASE ReadHistory(r)
    <2> DEFINE s == q.session
    <2>1. /\ p.pc = "sessionOfQuestion" /\ p.session = s /\ p.arrived = q.arrived
          /\ p.history = GetMessages(s)
      BY <1>10, WorkingEffects DEF p, q
    <2>2. s \in SessionId /\ q.wrote = 0
      BY <1>2, <1>10 DEF ReadHistory, Is, ProgressOf, Asking, q
    <2>3. /\ Len(p.history) = Least(MaxHistory, Len(messages[s]))
          /\ Least(MaxHistory, Len(messages[s])) \in 0..Len(messages[s])
          /\ \A i \in 1..Len(p.history) : p.history[i] = messages[s][i]
      BY <2>1, <2>2, GetMessagesTyped
    <2>4. messages' = messages
      BY <1>10 DEF ReadHistory, storeVars
    <2>5. Len(messages[s]) \in Nat
      BY <2>2 DEF TypeOK
    <2>6. q.arrived <= Len(messages[s])
      BY <1>2, <2>2 DEF Within
    <2>7. p.arrived <= Len(p.history) \/ Len(p.history) = MaxHistory
      BY <1>1, <2>1, <2>3, <2>5, <2>6, StoreAssumption DEF Least
    <2>8. \A i \in 1..Len(messages[s]) : messages[s][i].of # r
      <3> TAKE i \in 1..Len(messages[s])
      <3>1. request[messages[s][i].of].wrote >= 1
        <4>1. request[messages[s][i].of].wrote >= IF messages[s][i].role = "user" THEN 1 ELSE 2
          BY <2>2 DEF Conversing, RowsCounted
        <4>2. messages[s][i].of \in Requests
          BY <2>2, RowTyped
        <4>3. request[messages[s][i].of].wrote \in {0, 1, 2}
          BY <4>2 DEF TypeOK, Request
        <4> QED
          BY <4>1, <4>3
      <3>2. request[r].wrote = 0
        BY <2>2 DEF q
      <3> QED
        BY <3>1, <3>2
    <2> QED
      BY <1>1, <2>1, <2>2, <2>3, <2>4, <2>5, <2>6, <2>7, <2>8 DEF Within, Recalls, Reading
  <1>11. CASE EnsureSession(r) /\ p.pc \in {"question", "reply"}
    <2>1. /\ q.pc \in {"sessionOfQuestion", "sessionOfAnswer"} /\ SamePlace(p, q)
          /\ q.pc = "sessionOfQuestion" <=> p.pc = "question"
      BY <1>11, GoesEffect DEF EnsureSession, Is, p, q
    <2> QED
      BY <1>4, <1>11, <2>1 DEF Within, Recalls, SamePlace, Reading
  <1>12. CASE StoreQuestion(r)
    <2>1. p.pc = "answer" /\ q.pc = "question" /\ SamePlace(p, q)
      BY <1>12, WorkingEffects DEF StoreQuestion, Is, p, q
    <2> QED
      BY <1>4, <2>1 DEF Within, Recalls, SamePlace, Reading
  <1>13. CASE AnswerTurn(r)
    <2>1. p = q
      BY <1>13, WorkingEffects DEF p, q
    <2> QED
      BY <1>4, <2>1
  <1>14. CASE /\ TakeAnswer(r) /\ p.pc = "sessionOfAnswer"
              /\ p.history = <<>> /\ p.arrived = 0 /\ p.session = q.session
    <2>1. p.session \in SessionId => Len(messages'[p.session]) \in Nat
      BY <1>2, RowsKept
    <2> QED
      BY <1>1, <1>14, <2>1 DEF Within, Recalls, Reading
  <1>15. CASE StoreReply(r) \/ Enqueue(r) \/ CreateKey(r) \/ Audit(r)
    <2>1. p.pc \in {"audit", "respond"} /\ SamePlace(p, q)
      BY <1>15, WorkingEffects, GoesEffect DEF Enqueue, CreateKey, Audit, p, q
    <2> QED
      BY <1>4, <2>1 DEF Within, Recalls, SamePlace, Reading
  <1>16. 200 \in Statuses
    BY DEF Statuses
  <1> QED
    BY <1>2, <1>5, <1>6, <1>7, <1>8, <1>9, <1>10, <1>11, <1>12, <1>13, <1>14, <1>15, <1>16,
       StepCases DEF p, q

LEMMA RememberingOfNext ==
  ASSUME TypeOK, TypeOK', Conversing, Remembering, Next
  PROVE  Remembering'
  <1>1. SUFFICES ASSUME NEW i \in Requests
                 PROVE  Within(request'[i], messages') /\ Recalls(i, request'[i], messages')
    BY DEF Remembering, ArrivedWithin, ContextFaithful, Within, Recalls
  <1>2. /\ Progress /\ request[i] \in Request
        /\ Within(request[i], messages) /\ Recalls(i, request[i], messages)
        /\ request[i].pc \in {"sessionOfQuestion", "question", "answer"} =>
             request[i].session \in SessionId
    BY RememberingEach DEF TypeOK, Conversing, Progress, Asking, Replying
  <1>3. Within(request[i], messages') /\ Recalls(i, request[i], messages')
    BY <1>2, RecallsRest
  <1>4. CASE Crash
    <2>1. request'[i] = request[i] \/ Left(request'[i], request[i], "lost", 0)
      BY <1>2, <1>4, CrashMoves
    <2>2. \A s \in SessionId : Len(messages'[s]) \in Nat
      BY <1>2, RowsKept
    <2>3. CASE request'[i] = request[i]
      BY <1>3, <2>3
    <2>4. CASE Left(request'[i], request[i], "lost", 0)
      <3>1. request'[i].pc = "lost" /\ request'[i].history = <<>> /\ request'[i].arrived = 0
        BY <2>4 DEF Left
      <3>2. Within(request'[i], messages')
        BY <2>2, <3>1 DEF Within, Reading
      <3>3. Recalls(i, request'[i], messages')
        BY <2>2, <3>1 DEF Recalls, Reading
      <3> QED
        BY <3>2, <3>3
    <2> QED
      BY <2>1, <2>3, <2>4
  <1>5. CASE Environment
    BY <1>3, <1>5 DEF Environment
  <1>6. ASSUME NEW r \in Requests, Step(r)
        PROVE  Within(request'[i], messages') /\ Recalls(i, request'[i], messages')
    BY <1>2, <1>3, <1>6, RememberingOfStep, StepMoves
  <1> QED
    BY <1>4, <1>5, <1>6 DEF Next

-----------------------------------------------------------------------------
(* The audit trail.                                                        *)

(***************************************************************************)
(* What a step writes to the tables the audit trail is about.              *)
(***************************************************************************)
LEMMA TablesOfStep ==
  ASSUME TypeOK, ReadsHeld, NEW r \in Requests, Step(r)
  PROVE  /\ \A i \in Requests \ {r} :
              /\ tokens'[i] = tokens[i] /\ keyOwner'[i] = keyOwner[i]
              /\ i \in enqueued' <=> i \in enqueued
              /\ i \in audits' <=> i \in audits
         /\ tokens'[r] = tokens[r] \/ LoginPermissions(r)
         /\ LoginPermissions(r) => tokens'[r] # NoToken
         /\ keyOwner'[r] = keyOwner[r] \/ CreateKey(r)
         /\ CreateKey(r) => keyOwner'[r] # None
         /\ r \in enqueued => r \in enqueued'
         /\ Enqueue(r) => r \in enqueued'
         /\ r \in audits => r \in audits'
         /\ Audit(r) => r \in audits'
         /\ r \in audits' => r \in audits \/ Audit(r)
  <1> DEFINE Result ==
         /\ \A i \in Requests \ {r} :
              /\ tokens'[i] = tokens[i] /\ keyOwner'[i] = keyOwner[i]
              /\ i \in enqueued' <=> i \in enqueued
              /\ i \in audits' <=> i \in audits
         /\ tokens'[r] = tokens[r] \/ LoginPermissions(r)
         /\ keyOwner'[r] = keyOwner[r] \/ CreateKey(r)
         /\ r \in enqueued => r \in enqueued'
         /\ r \in audits => r \in audits'
         /\ r \in audits' => r \in audits \/ Audit(r)
  <1>1. LoginPermissions(r) => tokens'[r] # NoToken /\ Result
    <2>1. SUFFICES ASSUME LoginPermissions(r)
                   PROVE  tokens'[r] # NoToken /\ Result
      OBVIOUS
    <2>2. request[r].user \in Users
      BY <2>1 DEF LoginPermissions, Is, ReadsHeld, LoginReading
    <2> DEFINE t == [user |-> request[r].user, roles |-> request[r].roles,
                     permissions |-> ListPermissions(request[r].user),
                     exp |-> clock + Lifetime, held |-> request[r].held]
    <2>3. tokens' = [tokens EXCEPT ![r] = t] /\ t.user = request[r].user
      BY <2>1 DEF LoginPermissions, Issue
    <2> HIDE DEF t
    <2>4. /\ tokens'[r] = t /\ \A i \in Requests \ {r} : tokens'[i] = tokens[i]
      BY <2>3 DEF TypeOK
    <2>5. t # NoToken
      BY <2>2, <2>3, AccessAssumption DEF NoToken
    <2>6. UNCHANGED <<keyOwner, enqueued, audits>>
      BY <2>1 DEF LoginPermissions
    <2> QED
      BY <2>1, <2>4, <2>5, <2>6
  <1>2. CreateKey(r) => keyOwner'[r] # None /\ Result
    <2>1. SUFFICES ASSUME CreateKey(r)
                   PROVE  keyOwner'[r] # None /\ Result
      OBVIOUS
    <2>2. request[r].user # None
      BY <2>1 DEF CreateKey, Is, ReadsHeld, Working
    <2>3. /\ keyOwner'[r] = request[r].user
          /\ \A i \in Requests \ {r} : keyOwner'[i] = keyOwner[i]
      BY <2>1, ApiAssumption DEF CreateKey, InsertKey, TypeOK
    <2>4. UNCHANGED <<tokens, enqueued, audits>>
      BY <2>1 DEF CreateKey
    <2> QED
      BY <2>1, <2>2, <2>3, <2>4
  <1>3. Enqueue(r) => r \in enqueued' /\ Result
    BY DEF Enqueue, accessVars
  <1>4. Audit(r) => r \in audits' /\ Result
    BY DEF Audit, accessVars
  <1>5. CASE ~(LoginPermissions(r) \/ CreateKey(r) \/ Enqueue(r) \/ Audit(r))
    <2>1. UNCHANGED <<tokens, keyOwner, enqueued, audits>>
      BY <1>5 DEF Step, ArriveLogin, ArriveOther, ArriveChat, LoginUser, LoginRoles,
         Bearer, KeyUser, KeyRoles, KeyPermissions, Admit, OpenSession,
         ReadHistory, EnsureSession, StoreQuestion, AnswerTurn, TakeAnswer, StoreReply,
         Respond, DbRaises, accessVars
    <2> QED
      BY <1>5, <2>1
  <1> QED
    BY <1>1, <1>2, <1>3, <1>4, <1>5

LEMMA DoneKept ==
  ASSUME TypeOK, Progress, ReadsHeld, NEW r \in Requests, Step(r), Done(r)
  PROVE  Done(r)' /\ request'[r].kind = request[r].kind
  <1> DEFINE p == request'[r]
             q == request[r]
  <1>1. q.kind \in Kinds /\ q.pc # "new" /\ ProgressOf(q)
    <2>1. q.kind \in Kinds
      BY DEF Done, Kinds
    <2> QED
      BY <2>1, ApiAssumption, ProgressEach DEF ProgressOf
  <1>2. p.kind = q.kind
    <2>1. CASE \/ OpenSession(r) \/ ReadHistory(r) \/ StoreQuestion(r) \/ AnswerTurn(r)
               \/ StoreReply(r)
      BY <2>1, WorkingEffects DEF SameAsker
    <2>2. CASE EnsureSession(r) \/ Enqueue(r) \/ CreateKey(r) \/ Audit(r)
      BY <2>2, GoesEffect DEF EnsureSession, Enqueue, CreateKey, Audit, SameAsker
    <2>3. CASE \/ \E status \in Statuses : Left(p, q, "done", status)
               \/ SameCase(p, q) \/ SameAsker(p, q)
      BY <2>3 DEF Left, SameCase, SameAsker
    <2>4. 200 \in Statuses
      BY DEF Statuses
    <2> QED
      BY <1>1, <2>1, <2>2, <2>3, <2>4, StepCases
  <1>3. q.wrote = 2 => p.wrote = 2
    BY StepMoves DEF Quiet, Writes
  <1>4. LoginPermissions(r) => q.kind = "login"
    BY <1>1 DEF LoginPermissions, Is, ProgressOf, LoginReading
  <1>5. CreateKey(r) => q.kind = "key"
    BY <1>1 DEF CreateKey, Is, ProgressOf
  <1>6. /\ tokens[r] # NoToken => tokens'[r] # NoToken
        /\ keyOwner[r] # None => keyOwner'[r] # None
        /\ r \in enqueued => r \in enqueued'
    BY TablesOfStep
  <1> QED
    BY <1>1, <1>2, <1>3, <1>6 DEF Done, Kinds

AccountOf(r) ==
  /\ request[r].pc = "done" /\ request[r].status = 200 /\ request[r].kind # "session" =>
       r \in audits
  /\ r \in audits => Done(r)
  /\ request[r].pc \in {"audit", "respond"} /\ request[r].kind # "session" => Done(r)
  /\ request[r].pc = "respond" /\ request[r].kind # "session" => r \in audits
  /\ request[r].pc = "audit" => request[r].kind # "session"

LEMMA AccountingEach == Accounting <=> \A r \in Requests : AccountOf(r)
  BY DEF Accounting, AuditTrail, DoneBeforeAudit, AccountOf, Succeeded, Is

LEMMA AccountingOfStep ==
  ASSUME TypeOK, Progress, ReadsHeld, Accounting, NEW r \in Requests, Step(r)
  PROVE  AccountOf(r)'
  <1> DEFINE p == request'[r]
             q == request[r]
  <1>1. AccountOf(r) /\ ProgressOf(q)
    BY AccountingEach, ProgressEach
  <1>2. Audit(r) => Done(r)
    BY <1>1 DEF Audit, Is, AccountOf
  <1>3. r \in audits' => Done(r)'
    BY <1>1, <1>2, TablesOfStep, DoneKept DEF AccountOf
  <1>4. Done(r) => Done(r)' /\ p.kind = q.kind
    BY DoneKept
  <1>5. r \in audits => r \in audits'
    BY TablesOfStep
  <1> DEFINE Result ==
         /\ p.pc = "done" /\ p.status = 200 /\ p.kind # "session" => r \in audits'
         /\ p.pc \in {"audit", "respond"} /\ p.kind # "session" => Done(r)'
         /\ p.pc = "respond" /\ p.kind # "session" => r \in audits'
         /\ p.pc = "audit" => p.kind # "session"
  <1>6. SUFFICES Result
    BY <1>3 DEF AccountOf
  <1>7. CASE Arrives(p)
    BY <1>7 DEF Arrives
  <1>8. CASE Left(p, q, "done", 200) /\ Respond(r)
    BY <1>1, <1>5, <1>8 DEF Left, Respond, Is, AccountOf
  <1>9. CASE \E status \in Statuses \ {200} : Left(p, q, "done", status)
    BY <1>9 DEF Left
  <1>10. CASE LoginPermissions(r) /\ p.pc = "audit" /\ SameCase(p, q)
    <2>1. p.kind = "login"
      BY <1>1, <1>10 DEF LoginPermissions, Is, ProgressOf, LoginReading, SameCase
    <2>2. Done(r)'
      BY <1>10, <2>1, TablesOfStep DEF Done
    <2> QED
      BY <1>10, <2>1, <2>2
  <1>11. CASE p.pc \in Reading \cup {"history", "openSession", "enqueue", "createKey"}
    BY <1>11 DEF Reading
  <1>12. CASE OpenSession(r)
    <2>1. p.pc = (IF q.kind = "chat" THEN "history" ELSE "respond") /\ p.kind = q.kind
      BY <1>12, WorkingEffects DEF SameAsker
    <2>2. q.kind \in {"chat", "session"}
      BY <1>1, <1>12 DEF OpenSession, Is, ProgressOf
    <2> QED
      BY <2>1, <2>2
  <1>13. CASE ReadHistory(r) \/ StoreQuestion(r)
    BY <1>13, WorkingEffects
  <1>14. CASE AnswerTurn(r)
    <2>1. p = q /\ p.pc = "answer"
      BY <1>14, WorkingEffects DEF AnswerTurn, Is
    <2> QED
      BY <2>1
  <1>15. CASE StoreReply(r)
    <2>1. p.pc = "audit" /\ p.wrote = 2 /\ p.kind = q.kind
      BY <1>15, WorkingEffects DEF SameAsker
    <2>2. q.kind = "chat"
      BY <1>1, <1>15 DEF StoreReply, Is, ProgressOf, Replying
    <2>3. Done(r)'
      BY <2>1, <2>2 DEF Done
    <2> QED
      BY <2>1, <2>2, <2>3
  <1>16. CASE p.pc \in {"question", "reply", "sessionOfAnswer"}
    BY <1>16
  <1>17. CASE Enqueue(r) \/ CreateKey(r)
    <2>1. p.pc = "audit" /\ p.kind = q.kind
      BY <1>17, GoesEffect DEF Enqueue, CreateKey, SameAsker
    <2>2. (Enqueue(r) => q.kind = "ingest") /\ (CreateKey(r) => q.kind = "key")
      BY <1>1 DEF Enqueue, CreateKey, Is, ProgressOf
    <2>3. Done(r)'
      BY <1>17, <2>1, <2>2, TablesOfStep DEF Done
    <2> QED
      BY <1>17, <2>1, <2>2, <2>3
  <1>18. CASE Audit(r)
    <2>1. p.pc = "respond" /\ r \in audits'
      BY <1>18, GoesEffect, TablesOfStep DEF Audit
    <2> QED
      BY <1>3, <2>1
  <1> HIDE DEF Result
  <1> QED
    BY <1>7, <1>8, <1>9, <1>10, <1>11, <1>12, <1>13, <1>14, <1>15, <1>16, <1>17, <1>18,
       StepCases

LEMMA AccountingOfNext ==
  ASSUME TypeOK, Progress, ReadsHeld, Accounting, Next
  PROVE  Accounting'
  <1>1. SUFFICES ASSUME NEW i \in Requests
                 PROVE  AccountOf(i)'
    BY DEF Accounting, AuditTrail, DoneBeforeAudit, AccountOf, Succeeded, Is
  <1>2. AccountOf(i)
    BY AccountingEach
  <1>3. CASE Crash
    <2>1. UNCHANGED <<tokens, keyOwner, enqueued, audits>>
      BY <1>3 DEF Crash, accessVars
    <2>2. request'[i] = request[i] \/ Left(request'[i], request[i], "lost", 0)
      BY <1>3, CrashMoves
    <2> QED
      BY <1>2, <2>1, <2>2 DEF AccountOf, Done, Left
  <1>4. CASE Environment
    <2>1. UNCHANGED <<tokens, keyOwner, enqueued, audits, request>>
      BY <1>4 DEF Environment, accessVars, AccessNext, Tick, Revoke, Deactivate
    <2> QED
      BY <1>2, <2>1 DEF AccountOf, Done
  <1>5. ASSUME NEW r \in Requests, Step(r)
        PROVE  AccountOf(i)'
    <2>1. CASE i = r
      BY <1>5, <2>1, AccountingOfStep
    <2>2. CASE i # r
      <3>1. /\ request'[i] = request[i] /\ tokens'[i] = tokens[i]
            /\ keyOwner'[i] = keyOwner[i]
            /\ i \in enqueued' <=> i \in enqueued
            /\ i \in audits' <=> i \in audits
        BY <1>5, <2>2, TablesOfStep, StepMoves
      <3> QED
        BY <1>2, <3>1 DEF AccountOf, Done
    <2> QED
      BY <2>1, <2>2
  <1> QED
    BY <1>3, <1>4, <1>5 DEF Next

-----------------------------------------------------------------------------
(* Who is admitted.                                                        *)

HeldOf(r) ==
  LET q == request[r] IN
  /\ q.pc \in Reading \cup Working => q.user # None
  /\ q.pc \in LoginReading => q.user \in Users
  /\ q.pc \in ReadingOwn /\ q.user \in Users => assigned[q.user] \subseteq q.held
  /\ q.pc \in ReadingOwn => WithinHeld(q.roles, q.permissions, q.held)
  /\ q.user \in active /\ q.pc \in Reading => q.wasActive
  /\ q.pc \in {"keyRoles", "keyPermissions"} => q.user \in Users /\ q.wasActive
  /\ q.pc \in Reading => q.at <= clock

VouchedOf(r) ==
  LET q == request[r] IN
  /\ q.pc = "bearer" => q.token \in Requests
  /\ q.token # None => /\ q.token \in Requests
                       /\ request[q.token].pc = "done"
                       /\ tokens[q.token].user = q.user
                       /\ q.pc \in {"bearer", "admit"} \/ q.pc \notin Working \cup Reading
  /\ q.pc = "admit" /\ q.user = System => ~settings.secured
  /\ q.pc = "admit" /\ q.user # System =>
       /\ q.wasActive
       /\ IF q.token # None
          THEN /\ WithinHeld(q.roles, q.permissions, tokens[q.token].held)
               /\ q.at <= tokens[q.token].exp
          ELSE WithinHeld(q.roles, q.permissions, q.held)

TokenWithin(t) == WithinHeld(tokens[t].roles, tokens[t].permissions, tokens[t].held)

LEMMA HeldEach ==
  ReadsHeld <=> /\ \A r \in Requests : HeldOf(r)
                /\ \A t \in Requests : TokenWithin(t)
  BY DEF ReadsHeld, HeldOf, TokenWithin

LEMMA VouchedEach == Vouched <=> \A r \in Requests : VouchedOf(r)
  BY DEF Vouched, VouchedOf, Bears

LEMMA GrantsGrow ==
  ASSUME NEW few, NEW many, few \subseteq many
  PROVE  GrantedTo(few) \subseteq GrantedTo(many)
  BY DEF GrantedTo

(***************************************************************************)
(* A step of a handler leaves the clock, the users and their roles alone,  *)
(* and of the tokens writes its own at most.                               *)
(***************************************************************************)
LEMMA AccessOfStep ==
  ASSUME TypeOK, Progress, ReadsHeld, NEW r \in Requests, Step(r)
  PROVE  /\ UNCHANGED <<clock, active, assigned, settings>>
         /\ \A i \in Requests : TokenWithin(i)'
  <1>1. UNCHANGED <<clock, active, assigned, settings>>
    BY DEF Step, ArriveLogin, ArriveOther, ArriveChat, LoginUser, LoginRoles,
       LoginPermissions, Bearer, KeyUser, KeyRoles, KeyPermissions, Admit, OpenSession,
       ReadHistory, EnsureSession, StoreQuestion, AnswerTurn, AnswerStep, TakeAnswer,
       StoreReply, Enqueue, CreateKey, Audit, Respond, DbRaises, accessVars, answeringVars
  <1>2. \A i \in Requests : TokenWithin(i)
    BY HeldEach
  <1>3. CASE LoginPermissions(r)
    <2> DEFINE u == request[r].user
               t == [user |-> u, roles |-> request[r].roles,
                     permissions |-> ListPermissions(u),
                     exp |-> clock + Lifetime, held |-> request[r].held]
    <2>1. tokens' = [tokens EXCEPT ![r] = t]
      BY <1>3 DEF LoginPermissions, Issue
    <2>2. tokens'[r] = t /\ \A i \in Requests \ {r} : tokens'[i] = tokens[i]
      BY <2>1 DEF TypeOK
    <2>3. /\ u \in Users /\ assigned[u] \subseteq request[r].held
          /\ request[r].roles \subseteq request[r].held
      <3>1. request[r].pc = "loginPermissions" /\ HeldOf(r)
        BY <1>3, HeldEach DEF LoginPermissions, Is
      <3> QED
        BY <3>1 DEF HeldOf, LoginReading, ReadingOwn, WithinHeld
    <2>4. ListPermissions(u) \subseteq GrantedTo(request[r].held)
      BY <2>3, GrantsGrow DEF ListPermissions
    <2>5. WithinHeld(t.roles, t.permissions, t.held)
      BY <2>3, <2>4 DEF WithinHeld
    <2> HIDE DEF t
    <2> QED
      BY <1>1, <1>2, <2>2, <2>5 DEF TokenWithin
  <1>4. CASE ~LoginPermissions(r)
    <2>1. \A i \in Requests : tokens'[i] = tokens[i]
      BY <1>4, TablesOfStep
    <2> QED
      BY <1>1, <1>2, <2>1 DEF TokenWithin
  <1> QED
    BY <1>1, <1>3, <1>4

(***************************************************************************)
(* The steps of a request that has been admitted keep who asks.            *)
(***************************************************************************)
LEMMA WorkingSteps ==
  ASSUME TypeOK, NEW r \in Requests,
         \/ OpenSession(r) \/ ReadHistory(r) \/ EnsureSession(r) \/ StoreQuestion(r)
         \/ AnswerTurn(r) \/ TakeAnswer(r) \/ StoreReply(r)
         \/ Enqueue(r) \/ CreateKey(r) \/ Audit(r)
  PROVE  /\ request[r].pc \in Working
         /\ \/ request'[r].pc \in Working /\ SameAsker(request'[r], request[r])
            \/ \E status \in Statuses : Left(request'[r], request[r], "done", status)
  <1>1. request[r].pc \in Working
    BY DEF OpenSession, ReadHistory, EnsureSession, StoreQuestion, AnswerTurn, TakeAnswer,
       StoreReply, Enqueue, CreateKey, Audit, Is, Working
  <1>2. CASE OpenSession(r) \/ ReadHistory(r) \/ StoreQuestion(r) \/ StoreReply(r)
    BY <1>1, <1>2, WorkingEffects DEF Working
  <1>3. CASE AnswerTurn(r)
    BY <1>1, <1>3, WorkingEffects DEF SameAsker
  <1>4. CASE TakeAnswer(r)
    <2>1. 500 \in Statuses
      BY DEF Statuses
    <2> QED
      BY <1>1, <1>4, <2>1, WorkingEffects DEF Working
  <1>5. CASE EnsureSession(r) \/ Enqueue(r) \/ CreateKey(r) \/ Audit(r)
    <2>1. PICK pc \in {"question", "reply", "audit", "respond"} : Goes(r, pc)
      BY <1>5 DEF EnsureSession, Enqueue, CreateKey, Audit
    <2> QED
      BY <1>1, <2>1, GoesEffect DEF Working
  <1> QED
    BY <1>2, <1>3, <1>4, <1>5

LEMMA AdmissionOfStep ==
  ASSUME TypeOK, Progress, ReadsHeld, Vouched, Accounting, NEW r \in Requests, Step(r)
  PROVE  HeldOf(r)' /\ VouchedOf(r)'
  <1> DEFINE p == request'[r]
             q == request[r]
             Result == HeldOf(r)' /\ VouchedOf(r)'
  <1>1. HeldOf(r) /\ VouchedOf(r) /\ ProgressOf(q)
    BY HeldEach, VouchedEach, ProgressEach
  <1>2. /\ UNCHANGED <<clock, active, assigned, settings>>
        /\ \A t \in Requests : TokenWithin(t)
    BY HeldEach, AccessOfStep
  <1>3. /\ active \subseteq Users /\ System \notin Users /\ None \notin Users
        /\ None # System /\ None \notin Requests
        /\ clock \in Int /\ q.at \in Int
    BY AccessAssumption, ApiAssumption DEF TypeOK, Request, Time
  <1>4. \A t \in Requests : request[t].pc = "done" =>
          request'[t] = request[t] /\ tokens'[t] = tokens[t]
    <2>1. request[r].pc # "done"
      BY StepMoves DEF Reading, Working
    <2> QED
      BY <2>1, StepMoves, TablesOfStep
  <1> SUFFICES Result
    OBVIOUS
  <1>5. ASSUME NEW status, Left(p, q, "done", status) PROVE Result
    BY <1>5 DEF Left, HeldOf, VouchedOf, Reading, Working, LoginReading, ReadingOwn
  <1>6. Fails(r) => Result
    BY <1>5 DEF Fails
  <1>7. CASE Arrives(p)
    <2>1. /\ p.user \in active => p.wasActive
          /\ p.user \in Users => assigned[p.user] \subseteq p.held
          /\ p.at <= clock
      <3>1. p.user \in active => p.wasActive
        BY <1>7, Zenon DEF Arrives
      <3>2. p.user \in Users => assigned[p.user] \subseteq p.held
        BY <1>7 DEF Arrives
      <3>3. p.at <= clock
        BY <1>3, <1>7 DEF Arrives
      <3> QED
        BY <3>1, <3>2, <3>3
    <2>2. p.pc \in {"loginUser", "bearer", "keyUser"} =>
            WithinHeld(p.roles, p.permissions, p.held)
      BY <1>7 DEF Arrives, WithinHeld
    <2>3. p.pc \in {"loginUser", "bearer", "keyUser", "done", "admit"}
      BY <1>7 DEF Arrives
    <2>4. CASE p.pc = "bearer"
      <3>1. /\ p.token \in Requests /\ Succeeded(p.token) /\ request[p.token].kind = "login"
            /\ tokens[p.token].user = p.user
        BY <1>7, <2>4 DEF Arrives
      <3>2. tokens[p.token] # NoToken
        BY <3>1 DEF Accounting, AuditTrail, Done
      <3>3. p.user \in Users
        BY <3>1, <3>2 DEF TypeOK, Token
      <3>4. request[p.token].pc = "done"
        BY <3>1 DEF Succeeded, Is
      <3> QED
        BY <1>2, <1>3, <1>4, <2>1, <2>2, <2>4, <3>1, <3>3, <3>4
           DEF HeldOf, VouchedOf, LoginReading, ReadingOwn, Reading, Working
    <2>5. CASE p.pc # "bearer"
      <3>1. /\ p.token = None
            /\ p.pc # "done" => p.user # None
            /\ p.pc = "loginUser" => p.user \in Users
            /\ p.pc = "admit" => p.user = System /\ ~settings.secured
        BY <1>3, <1>7, <2>3, <2>5 DEF Arrives
      <3> QED
        BY <1>2, <1>3, <2>1, <2>2, <2>3, <2>5, <3>1
           DEF HeldOf, VouchedOf, LoginReading, ReadingOwn, Reading, Working
    <2> QED
      BY <2>4, <2>5
  <1>8. CASE LoginUser(r) \/ KeyUser(r)
    <2>1. CASE /\ p.pc \in {"loginRoles", "keyRoles"} /\ q.user \in active
               /\ p.pc = "loginRoles" => q.pc = "loginUser"
               /\ q.pc \in {"loginUser", "keyUser"} /\ SameAsker(p, q)
      BY <1>1, <1>2, <1>3, <2>1
         DEF SameAsker, HeldOf, VouchedOf, LoginReading, ReadingOwn, Reading, Working
    <2> QED
      BY <1>6, <1>8, <2>1, ReadingEffects DEF LoginUser, KeyUser, Is
  <1>9. CASE LoginRoles(r) \/ KeyRoles(r)
    <2>1. /\ p.pc \in {"loginPermissions", "keyPermissions"}
          /\ q.pc \in {"loginRoles", "keyRoles"}
          /\ p.pc = "loginPermissions" <=> q.pc = "loginRoles"
          /\ p.user = q.user /\ SameArrival(p, q) /\ p.token = q.token
          /\ p.permissions = q.permissions /\ p.roles = ListRoles(q.user)
      BY <1>9, ReadingEffects DEF SameCase, LoginRoles, KeyRoles, Is
    <2>2. q.user \in Users /\ assigned[q.user] \subseteq q.held
          /\ q.permissions \subseteq GrantedTo(q.held)
      BY <1>1, <2>1 DEF HeldOf, LoginReading, ReadingOwn, WithinHeld
    <2>3. WithinHeld(p.roles, p.permissions, p.held)
      BY <2>1, <2>2 DEF WithinHeld, ListRoles, SameArrival
    <2> HIDE DEF p, q
    <2> QED
      BY <1>1, <1>2, <1>3, <2>1, <2>2, <2>3
         DEF p, q, SameArrival, HeldOf, VouchedOf, LoginReading, ReadingOwn, Reading, Working
  <1>10. CASE LoginPermissions(r)
    <2>1. q.pc = "loginPermissions" /\ p.pc = "audit" /\ p.user = q.user /\ p.token = None
      BY <1>10, ReadingEffects DEF LoginPermissions, Is, SameCase
    <2> QED
      BY <1>1, <2>1 DEF HeldOf, VouchedOf, LoginReading, ReadingOwn, Reading, Working
  <1>11. CASE KeyPermissions(r)
    <2>1. /\ p.pc = "admit" /\ q.pc = "keyPermissions"
          /\ p.user = q.user /\ SameArrival(p, q) /\ p.token = q.token
          /\ p.roles = q.roles /\ p.permissions = ListPermissions(q.user)
      BY <1>11, ReadingEffects DEF SameCase, KeyPermissions, Is
    <2>2. /\ q.user \in Users /\ assigned[q.user] \subseteq q.held /\ q.wasActive
          /\ q.roles \subseteq q.held /\ q.token = None
      BY <1>1, <2>1 DEF HeldOf, VouchedOf, LoginReading, ReadingOwn, WithinHeld, Reading
    <2>3. WithinHeld(p.roles, p.permissions, p.held)
      BY <2>1, <2>2, GrantsGrow DEF WithinHeld, ListPermissions, SameArrival
    <2> QED
      BY <1>1, <1>2, <1>3, <2>1, <2>2, <2>3
         DEF SameArrival, HeldOf, VouchedOf, LoginReading, ReadingOwn, Reading, Working
  <1>12. CASE Bearer(r)
    <2>1. CASE /\ p.pc = "admit" /\ SameCase(p, q) /\ SameArrival(p, q) /\ p.token = q.token
               /\ ~Expired(q.token) /\ tokens[q.token].user \in active
               /\ p.roles = tokens[q.token].roles
               /\ p.permissions = tokens[q.token].permissions
      <3>1. q.pc = "bearer" /\ q.token \in Requests /\ q.token # None
        BY <1>1, <1>3, <1>12 DEF Bearer, Is, VouchedOf
      <3>2. /\ request[q.token].pc = "done" /\ tokens[q.token].user = q.user
        BY <1>1, <3>1 DEF VouchedOf
      <3>3. /\ request'[q.token] = request[q.token] /\ tokens'[q.token] = tokens[q.token]
        BY <1>4, <3>1, <3>2
      <3>4. tokens[q.token].exp \in Int
        BY <3>1, TokensTyped
      <3>5. q.at <= tokens[q.token].exp
        BY <1>1, <1>3, <2>1, <3>1, <3>4 DEF Expired, HeldOf, Reading
      <3>6. q.user \in active /\ q.wasActive /\ q.user # System /\ q.user # None
        BY <1>1, <1>3, <2>1, <3>1, <3>2 DEF HeldOf, Reading
      <3>7. WithinHeld(p.roles, p.permissions, tokens[q.token].held)
        BY <1>2, <2>1, <3>1 DEF TokenWithin
      <3>8. /\ p.pc = "admit" /\ p.user = q.user /\ p.at = q.at /\ p.wasActive = q.wasActive
            /\ p.token = q.token /\ q.at <= clock
        BY <1>1, <2>1, <3>1 DEF SameCase, SameArrival, HeldOf, Reading
      <3> QED
        BY <1>2, <3>1, <3>2, <3>3, <3>5, <3>6, <3>7, <3>8
           DEF HeldOf, VouchedOf, LoginReading, ReadingOwn, Reading, Working
    <2> QED
      BY <1>6, <1>12, <2>1, ReadingEffects
  <1>13. CASE Admit(r)
    <2>1. CASE p.pc \in {"history", "openSession", "enqueue", "createKey"}
               /\ p.token = None /\ p.user = q.user /\ q.pc = "admit"
      BY <1>1, <2>1 DEF HeldOf, VouchedOf, LoginReading, ReadingOwn, Reading, Working
    <2>2. q.pc = "admit" /\ q.kind \in Kinds \ {"login"}
      BY <1>1, <1>13 DEF Admit, Is, ProgressOf, LoginReading, Reading
    <2>3. FirstStep(q) \in {"history", "openSession", "enqueue", "createKey"}
      BY <2>2 DEF FirstStep, Kinds
    <2> QED
      BY <1>6, <1>13, <2>1, <2>2, <2>3, ReadingEffects DEF SameCase
  <1>14. CASE \/ OpenSession(r) \/ ReadHistory(r) \/ EnsureSession(r) \/ StoreQuestion(r)
              \/ AnswerTurn(r) \/ TakeAnswer(r) \/ StoreReply(r)
              \/ Enqueue(r) \/ CreateKey(r) \/ Audit(r)
    <2>1. CASE q.pc \in Working /\ p.pc \in Working /\ SameAsker(p, q)
      <3>1. q.user # None /\ q.token = None
        BY <1>1, <2>1 DEF HeldOf, VouchedOf, Working
      <3> QED
        BY <2>1, <3>1
           DEF SameAsker, HeldOf, VouchedOf, LoginReading, ReadingOwn, Reading, Working
    <2> QED
      BY <1>5, <1>14, <2>1, WorkingSteps
  <1>15. CASE Respond(r) \/ DbRaises(r)
    <2>1. 200 \in Statuses /\ 500 \in Statuses
      BY DEF Statuses
    <2> QED
      BY <1>5, <1>15, <2>1, EndsEffect DEF Respond, DbRaises
  <1>16. CASE ArriveLogin(r) \/ ArriveOther(r) \/ ArriveChat(r)
    BY <1>7, <1>16, ArrivalEffects
  <1> HIDE DEF Result
  <1> QED
    BY <1>8, <1>9, <1>10, <1>11, <1>12, <1>13, <1>14, <1>15, <1>16, Zenon DEF Step

LEMMA AdmissionOfNext ==
  ASSUME TypeOK, Progress, ReadsHeld, Vouched, Accounting, Next
  PROVE  ReadsHeld' /\ Vouched'
  <1>1. SUFFICES /\ \A i \in Requests : HeldOf(i)' /\ VouchedOf(i)'
                 /\ \A i \in Requests : TokenWithin(i)'
    BY DEF ReadsHeld, HeldOf, TokenWithin, Vouched, VouchedOf, Bears
  <1>2. /\ \A i \in Requests : HeldOf(i) /\ VouchedOf(i)
        /\ \A i \in Requests : TokenWithin(i)
    BY HeldEach, VouchedEach
  <1>3. None \notin Requests
    BY ApiAssumption
  <1>4. CASE Crash
    <2>1. UNCHANGED <<clock, active, assigned, tokens, settings>>
      BY <1>4 DEF Crash, accessVars
    <2>2. \A i \in Requests : request'[i] = request[i] \/ Left(request'[i], request[i], "lost", 0)
      BY <1>4, CrashMoves
    <2>3. \A i \in Requests : request[i].pc = "done" => request'[i] = request[i]
      <3>1. \A i \in Requests : request[i].pc = "done" => ~UnderWay(i)
        BY DEF UnderWay, Reading, Working
      <3> QED
        BY <1>4, <3>1, CrashMoves
    <2>4. \A i \in Requests : TokenWithin(i)'
      BY <1>2, <2>1 DEF TokenWithin
    <2>5. ASSUME NEW i \in Requests PROVE HeldOf(i)' /\ VouchedOf(i)'
      <3>1. CASE request'[i] = request[i]
        BY <1>2, <1>3, <2>1, <2>3, <3>1 DEF HeldOf, VouchedOf
      <3>2. CASE Left(request'[i], request[i], "lost", 0)
        BY <3>2 DEF Left, HeldOf, VouchedOf, Reading, Working, LoginReading, ReadingOwn
      <3> QED
        BY <2>2, <3>1, <3>2
    <2> QED
      BY <2>4, <2>5
  <1>5. CASE Environment
    <2>1. /\ UNCHANGED <<request, tokens, settings>>
          /\ active' \subseteq active /\ clock' >= clock /\ clock' \in Int
          /\ \A u \in Users : assigned'[u] \subseteq assigned[u]
      <3>1. clock \in Int /\ assigned \in [Users -> SUBSET Roles]
        BY DEF TypeOK, Time
      <3>2. CASE AddDocument /\ UNCHANGED <<accessVars, request>>
        BY <3>1, <3>2 DEF AddDocument, accessVars
      <3>3. CASE AccessNext /\ UNCHANGED <<answeringVars, request>>
        <4>1. CASE Tick
          BY <3>1, <3>3, <4>1 DEF Tick, answeringVars
        <4>2. CASE \E u \in Users : Deactivate(u)
          BY <3>1, <3>3, <4>2 DEF Deactivate, answeringVars
        <4>3. CASE \E u \in Users, role \in Roles : Revoke(u, role)
          <5>1. PICK u \in Users, role \in Roles : Revoke(u, role)
            BY <4>3
          <5>2. /\ assigned' = [assigned EXCEPT ![u] = @ \ {role}]
                /\ UNCHANGED <<clock, active, tokens>>
            BY <5>1 DEF Revoke
          <5>3. \A v \in Users : assigned'[v] \subseteq assigned[v]
            BY <3>1, <5>2
          <5> QED
            BY <3>1, <3>3, <5>2, <5>3 DEF answeringVars
        <4> QED
          BY <3>3, <4>1, <4>2, <4>3 DEF AccessNext
      <3> QED
        BY <1>5, <3>2, <3>3 DEF Environment
    <2>2. \A i \in Requests : TokenWithin(i)'
      BY <1>2, <2>1 DEF TokenWithin
    <2>3. ASSUME NEW i \in Requests PROVE HeldOf(i)'
      <3> DEFINE q == request[i]
      <3>1. HeldOf(i) /\ request'[i] = q /\ q.at \in Int /\ clock \in Int
        BY <1>2, <2>1 DEF TypeOK, Request, Time
      <3> QED
        BY <2>1, <3>1 DEF HeldOf
    <2>4. \A i \in Requests : VouchedOf(i)'
      BY <1>2, <2>1 DEF VouchedOf
    <2> QED
      BY <2>2, <2>3, <2>4
  <1>6. ASSUME NEW r \in Requests, Step(r)
        PROVE  /\ \A i \in Requests : HeldOf(i)' /\ VouchedOf(i)'
               /\ \A i \in Requests : TokenWithin(i)'
    <2>1. UNCHANGED <<clock, active, assigned, settings>> /\ \A i \in Requests : TokenWithin(i)'
      BY <1>6, AccessOfStep
    <2>2. HeldOf(r)' /\ VouchedOf(r)'
      BY <1>6, AdmissionOfStep
    <2>3. \A i \in Requests \ {r} : request'[i] = request[i]
      BY <1>6, StepMoves
    <2>4. \A t \in Requests : request[t].pc = "done" =>
            request'[t] = request[t] /\ tokens'[t] = tokens[t]
      <3>1. request[r].pc # "done"
        BY <1>6, StepMoves DEF Reading, Working
      <3> QED
        BY <1>6, <2>3, <3>1, TablesOfStep
    <2>5. ASSUME NEW i \in Requests \ {r} PROVE HeldOf(i)' /\ VouchedOf(i)'
      <3>1. HeldOf(i)'
        BY <1>2, <2>1, <2>3 DEF HeldOf
      <3>2. VouchedOf(i)'
        BY <1>2, <2>1, <2>3, <2>4 DEF VouchedOf
      <3> QED
        BY <3>1, <3>2
    <2> QED
      BY <2>1, <2>2, <2>5
  <1> QED
    BY <1>4, <1>5, <1>6 DEF Next

-----------------------------------------------------------------------------
(* The inductive invariant.                                                *)

LEMMA InitIInv ==
  ASSUME Init
  PROVE  IInv
  <1>1. /\ \A i \in Requests : request[i] = NewRequest
        /\ \A i \in Requests : tokens[i] = NoToken
        /\ \A i \in Requests : answer[i] = NoAnswer
        /\ \A s \in SessionId : messages[s] = <<>>
        /\ audits = {} /\ enqueued = {}
    BY ApiAssumption DEF Init, AccessInit, StoreInit, AnsweringInit
  <1>2. \A i \in Requests :
          /\ request[i].pc = "new" /\ request[i].kind = None /\ request[i].session = None
          /\ request[i].token = None /\ request[i].wrote = 0 /\ request[i].arrived = 0
    <2>1. /\ NewRequest.pc = "new" /\ NewRequest.kind = None /\ NewRequest.session = None
          /\ NewRequest.token = None /\ NewRequest.wrote = 0 /\ NewRequest.arrived = 0
      BY DEF NewRequest
    <2> QED
      BY <1>1, <2>1
  <1>3. TypeOK
    <2>1. request \in [Requests -> Request]
      BY NewTyped DEF Init
    <2>2. answer \in [Requests -> Answer]
      BY NoAnswerTyped, ApiAssumption DEF Init, AnsweringInit
    <2>3. sessions \subseteq SessionId /\ messages \in [SessionId -> Seq(Message)]
      BY DEF Init, StoreInit
    <2>4. /\ clock \in Time /\ active \subseteq Users
          /\ tokens \in [Requests -> Token \cup {NoToken}]
          /\ keyOwner \in [KeyIds -> Users \cup {System, None}]
      BY ApiAssumption, AccessAssumption DEF Init, AccessInit, Time
    <2>5. assigned \in [Users -> SUBSET Roles]
      BY RoleAssumption DEF Init, AccessInit
    <2>6. settings \in SettingsChoices /\ base \in 0..MaxDocs
      BY DEF Init, AnsweringInit
    <2> QED
      BY <1>1, <2>1, <2>2, <2>3, <2>4, <2>5, <2>6 DEF TypeOK
  <1>4. Conversing
    <2>1. Progress
      BY <1>2 DEF Progress, LoginReading, Reading, Asking, Replying, Succeeded, Is
    <2>2. RowsCounted /\ RowsOnce /\ RowsOrdered /\ CountedRows
      BY <1>1, <1>2 DEF RowsCounted, RowsOnce, RowsOrdered, CountedRows
    <2>3. MessagesHaveSession /\ SessionOpen
      BY <1>1, <1>2 DEF MessagesHaveSession, SessionOpen
    <2> QED
      BY <2>1, <2>2, <2>3 DEF Conversing
  <1>5. Remembering
    BY <1>2, ApiAssumption DEF Remembering, ArrivedWithin, ContextFaithful, Reading
  <1>6. ReadsHeld /\ Vouched
    <2>1. \A i \in Requests : WithinHeld(tokens[i].roles, tokens[i].permissions, tokens[i].held)
      <3>1. /\ NoToken.roles = {} /\ NoToken.permissions = {}
        BY DEF NoToken
      <3> QED
        BY <1>1, <3>1 DEF WithinHeld
    <2> QED
      BY <1>2, <2>1
         DEF ReadsHeld, Vouched, Bears, Reading, Working, LoginReading, ReadingOwn
  <1>7. Answered
    <2>1. base \in Nat
      BY <1>3, AnsweringAssumption DEF TypeOK
    <2> QED
      BY <1>1, <2>1, AnsweredEach DEF Isolated, Grows, Rests, Built, NoAnswer, NoHit
  <1>8. Accounting
    BY <1>1, <1>2 DEF Accounting, AuditTrail, DoneBeforeAudit, Succeeded, Is
  <1> QED
    BY <1>3, <1>4, <1>5, <1>6, <1>7, <1>8 DEF IInv

LEMMA NextIInv ==
  ASSUME IInv, Next
  PROVE  IInv'
  <1>1. TypeOK'
    BY TypeOfStep, TypeOfCrash, TypeOfEnvironment DEF IInv, Conversing, Next
  <1>2. Conversing' /\ Remembering'
    BY <1>1, ConversingOfNext, RememberingOfNext DEF IInv
  <1>3. ReadsHeld' /\ Vouched' /\ Accounting'
    BY AdmissionOfNext, AccountingOfNext DEF IInv, Conversing
  <1>4. Answered'
    BY <1>1, AnsweredOfNext DEF IInv
  <1> QED
    BY <1>1, <1>2, <1>3, <1>4 DEF IInv

LEMMA StutterIInv ==
  ASSUME IInv, UNCHANGED vars
  PROVE  IInv'
  <1>1. UNCHANGED <<sessions, messages, clock, active, assigned, keyOwner, tokens, settings,
                    base, answer, request, enqueued, audits>>
    BY DEF vars, storeVars, accessVars, answeringVars
  <1>2. TypeOK'
    BY <1>1 DEF IInv, TypeOK
  <1>3. Conversing'
    BY <1>1 DEF IInv, Conversing, Progress, RowsCounted, CountedRows, RowsOnce, RowsOrdered,
       MessagesHaveSession, SessionOpen, Succeeded, Is
  <1>4. Remembering'
    BY <1>1 DEF IInv, Remembering, ArrivedWithin, ContextFaithful
  <1>5. ReadsHeld' /\ Vouched'
    BY <1>1 DEF IInv, ReadsHeld, Vouched, Bears
  <1>6. Answered'
    BY <1>1 DEF IInv, Answered, MockIsolated, AnswersGrow, Grounded
  <1>7. Accounting'
    BY <1>1 DEF IInv, Accounting, AuditTrail, DoneBeforeAudit, Done, Succeeded, Is
  <1> QED
    BY <1>2, <1>3, <1>4, <1>5, <1>6, <1>7 DEF IInv

(***************************************************************************)
(* The invariant is inductive: every request, session, token, answer and   *)
(* audit row keeps its part of it through every step of the server.        *)
(***************************************************************************)
THEOREM ApiSafety == Spec => []IInv
  <1>1. Init => IInv
    BY InitIInv
  <1>2. IInv /\ [Next]_vars => IInv'
    BY NextIInv, StutterIInv
  <1> QED
    BY <1>1, <1>2, PTL DEF Spec

(***************************************************************************)
(* The history a question is answered with is a beginning of its session   *)
(* and reaches over what the session held on arrival.                      *)
(***************************************************************************)
THEOREM FaithfulContext == Spec => []ContextFaithful
  <1>1. IInv => ContextFaithful
    BY DEF IInv, Remembering
  <1> QED
    BY <1>1, ApiSafety, PTL

(***************************************************************************)
(* In every session each line stands once, each answer after its question, *)
(* and a confirmed chat has left both.                                     *)
(***************************************************************************)
THEOREM OrderedAnswers == Spec => []AnswersFollow
  <1>1. IInv => AnswersFollow
    <2> SUFFICES ASSUME IInv, NEW r \in Requests, Succeeded(r), request[r].kind = "chat"
                 PROVE  \E i \in 1..Len(messages[request[r].session]) :
                          messages[request[r].session][i] = Says("assistant", r)
      BY DEF IInv, Conversing, AnswersFollow
    <2>1. request[r].wrote = 2
      BY DEF IInv, Conversing, Progress
    <2>2. Speaker(2) = "assistant" /\ 2 \in 1..2
      BY DEF Speaker
    <2> QED
      BY <2>1, <2>2 DEF IInv, Conversing, CountedRows
  <1> QED
    BY <1>1, ApiSafety, PTL

(***************************************************************************)
(* The audit trail is what happened.                                       *)
(***************************************************************************)
THEOREM TruthfulAudit == Spec => []AuditTrail
  <1>1. IInv => AuditTrail
    BY DEF IInv, Accounting
  <1> QED
    BY <1>1, ApiSafety, PTL

(***************************************************************************)
(* A mock request never leaves the process.                                *)
(***************************************************************************)
THEOREM MockStaysInside == Spec => []MockIsolated
  <1>1. IInv => MockIsolated
    BY DEF IInv, Answered
  <1> QED
    BY <1>1, ApiSafety, PTL

(***************************************************************************)
(* A policy answer is grounded in the documents there were.                *)
(***************************************************************************)
THEOREM GroundedAnswers == Spec => []Grounded
  <1>1. IInv => Grounded
    BY DEF IInv, Answered
  <1> QED
    BY <1>1, ApiSafety, PTL

-----------------------------------------------------------------------------
(* Whoever is admitted was entitled to it.                                 *)

LEMMA PermittedHeld ==
  ASSUME NEW held \in SUBSET Roles, NEW roles, NEW permissions,
         WithinHeld(roles, permissions, held),
         NEW needed \in Permissions, Permitted(roles, permissions, needed)
  PROVE  needed \in GrantedTo(held)
  <1>1. CASE "admin" \in held
    <2>1. Grants["admin"] = Permissions
      BY DEF Grants, Roles
    <2> QED
      BY <1>1, <2>1 DEF GrantedTo
  <1>2. CASE "admin:full" \in permissions
    <2>1. PICK role \in held : "admin:full" \in Grants[role]
      BY <1>2 DEF WithinHeld, GrantedTo
    <2>2. role = "admin"
      BY <2>1 DEF Grants, Roles, OperatorGrants, ViewerGrants
    <2> QED
      BY <1>1, <2>1, <2>2
  <1> QED
    BY <1>1, <1>2 DEF Permitted, IsAdmin, WithinHeld

(***************************************************************************)
(* With security on, a request is only admitted if its user was active     *)
(* when it arrived and held a role that grants what it needs, at that      *)
(* moment or at the login its unexpired token stems from.                  *)
(***************************************************************************)
THEOREM OnlyEntitled == Spec => Entitled
  <1>1. IInv /\ [Next]_vars => [\A r \in Requests : Admits(r) => EntitledNow(r)]_vars
    <2> SUFFICES ASSUME IInv, Next, NEW r \in Requests, Admits(r)
                 PROVE  EntitledNow(r)
      OBVIOUS
    <2> DEFINE q == request[r]
    <2>1. q.pc = "admit" /\ request'[r].pc \in Working
      BY DEF Admits, Is
    <2>2. Admit(r)
      <3>1. ~Crash
        <4>1. Crash => request'[r].pc = "lost"
          <5>1. UnderWay(r)
            BY <2>1 DEF UnderWay, Reading
          <5> QED
            BY <5>1, <2>1, CrashMoves DEF IInv, Conversing, Left
        <4> QED
          BY <2>1, <4>1 DEF Working
      <3>2. ~Environment
        BY <2>1 DEF Environment, Working
      <3>3. PICK i \in Requests : Step(i)
        BY <3>1, <3>2 DEF Next
      <3>4. i = r
        <4>1. i # r => request'[r] = request[r]
          BY <3>3, StepMoves DEF IInv, Conversing
        <4> QED
          BY <2>1, <4>1 DEF Working
      <3>5. ~DbRaises(r)
        BY <2>1 DEF DbRaises, Transactions, Working
      <3> QED
        BY <2>1, <3>3, <3>4, <3>5 DEF Step, ArriveLogin, ArriveOther, ArriveChat, LoginUser,
           LoginRoles, LoginPermissions, Bearer, KeyUser, KeyRoles, KeyPermissions, OpenSession,
           ReadHistory, EnsureSession, StoreQuestion, AnswerTurn, TakeAnswer, StoreReply,
           Enqueue, CreateKey, Audit, Respond, Is
    <2>3. Permitted(q.roles, q.permissions, Needed(q.kind))
      <3>1. ~Fails(r)
        BY <2>1 DEF Fails, Left, Working
      <3> QED
        BY <2>2, <3>1, ReadingEffects DEF IInv
    <2>4. Needed(q.kind) \in Permissions
      <3>1. q.kind \in Kinds \ {"login"}
        BY <2>1 DEF IInv, Conversing, Progress, Reading, LoginReading
      <3> QED
        BY <3>1 DEF Needed, Kinds, Permissions, OperatorGrants, ViewerGrants
    <2>5. VouchedOf(r)
      BY VouchedEach DEF IInv
    <2>6. CASE q.user = System
      BY <2>1, <2>5, <2>6 DEF VouchedOf, EntitledNow
    <2>7. CASE q.user # System /\ q.token # None
      <3>1. /\ q.token \in Requests /\ tokens[q.token].user = q.user /\ q.wasActive
            /\ WithinHeld(q.roles, q.permissions, tokens[q.token].held)
            /\ q.at <= tokens[q.token].exp
        BY <2>1, <2>5, <2>7 DEF VouchedOf
      <3>2. tokens[q.token].held \in SUBSET Roles
        BY <3>1, TokensTyped DEF IInv
      <3>3. Needed(q.kind) \in GrantedTo(tokens[q.token].held)
        BY <2>3, <2>4, <3>1, <3>2, PermittedHeld
      <3> QED
        BY <2>7, <3>1, <3>3 DEF EntitledNow, Bears
    <2>8. CASE q.user # System /\ q.token = None
      <3>1. q.wasActive /\ WithinHeld(q.roles, q.permissions, q.held)
        BY <2>1, <2>5, <2>8 DEF VouchedOf
      <3>2. q.held \in SUBSET Roles
        BY DEF IInv, TypeOK, Request
      <3>3. Needed(q.kind) \in GrantedTo(q.held)
        BY <2>3, <2>4, <3>1, <3>2, PermittedHeld
      <3> QED
        BY <2>8, <3>1, <3>3 DEF EntitledNow, Bears
    <2> QED
      BY <2>6, <2>7, <2>8
  <1> QED
    BY <1>1, ApiSafety, PTL DEF Spec, Entitled

-----------------------------------------------------------------------------
(* The server implements ChatExchange.                                     *)

LEMMA ExchangingChanges ==
  ASSUME NEW r \in Requests, \A i \in Requests \ {r} : request'[i] = request[i]
  PROVE  /\ Exchanging' = [Exchanging EXCEPT ![r] = ExchangeOf(request'[r])]
         /\ Exchanging[r] = ExchangeOf(request[r])
  BY DEF Exchanging

(***************************************************************************)
(* A request that was not at its end, and is now, has confirmed or given   *)
(* up its exchange.                                                        *)
(***************************************************************************)
UnderWayIn(q) == q.pc # "done" /\ q.pc # "lost"

LEMMA ExchangeLeft ==
  ASSUME NEW p, NEW q, NEW pc \in {"done", "lost"}, NEW status, Left(p, q, pc, status),
         UnderWayIn(q)
  PROVE  /\ q.kind # "chat" => ExchangeOf(p) = ExchangeOf(q)
         /\ q.kind = "chat" /\ status # 200 =>
              ExchangeOf(p) = Exchanges!Exchange("over", ExchangeOf(q).session)
         /\ q.kind = "chat" /\ status = 200 =>
              ExchangeOf(p) = Exchanges!Exchange("confirmed", ExchangeOf(q).session)
         /\ ExchangeOf(q).stage # "confirmed"
         /\ q.kind = "chat" /\ q.wrote = 2 => ExchangeOf(q).stage = "replied"
  <1>1. /\ p.kind = q.kind /\ p.session = q.session /\ p.wrote = q.wrote
        /\ p.pc \in {"done", "lost"} /\ p.status = status
        /\ q.pc \notin {"done", "lost"}
    BY DEF Left, UnderWayIn
  <1>2. ExchangeOf(p).session = ExchangeOf(q).session
    BY <1>1 DEF ExchangeOf
  <1>3. /\ ExchangeOf(p) = [stage |-> StageOf(p), session |-> ExchangeOf(q).session]
        /\ ExchangeOf(q) = [stage |-> StageOf(q), session |-> ExchangeOf(q).session]
    BY <1>2 DEF ExchangeOf
  <1>4. /\ q.kind # "chat" => StageOf(p) = "none" /\ StageOf(q) = "none"
        /\ q.kind = "chat" /\ status # 200 => StageOf(p) = "over"
        /\ q.kind = "chat" /\ status = 200 => StageOf(p) = "confirmed"
        /\ StageOf(q) # "confirmed"
        /\ q.kind = "chat" /\ q.wrote = 2 => StageOf(q) = "replied"
    BY <1>1 DEF StageOf
  <1>5. ExchangeOf(q).stage = StageOf(q)
    BY <1>3
  <1> QED
    BY <1>3, <1>4, <1>5 DEF Exchanges!Exchange

LEMMA Unmoved ==
  ASSUME NEW p, NEW q, p.kind = q.kind, p.wrote = q.wrote,
         q.wrote = 0 \/ p.session = q.session, UnderWayIn(p), UnderWayIn(q)
  PROVE  ExchangeOf(p) = ExchangeOf(q)
  BY DEF ExchangeOf, StageOf, UnderWayIn

LEMMA GivenUp ==
  ASSUME NEW r \in Requests, UNCHANGED messages, \A i \in Requests \ {r} : request'[i] = request[i],
         ExchangeOf(request'[r]) = Exchanges!Exchange("over", ExchangeOf(request[r]).session),
         ExchangeOf(request[r]).stage # "confirmed"
  PROVE  Exchanges!ChatNext
  <1> DEFINE over == {r}
  <1>1. over \in SUBSET {i \in Requests : Exchanging[i].stage # "confirmed"}
    BY DEF Exchanging
  <1>2. Exchanging' = [i \in Requests |->
          IF i \in over THEN Exchanges!Exchange("over", Exchanging[i].session)
          ELSE Exchanging[i]]
    BY DEF Exchanging
  <1>3. Exchanges!Abandon
    BY <1>1, <1>2 DEF Exchanges!Abandon
  <1> QED
    BY <1>3 DEF Exchanges!ChatNext

LEMMA Settled ==
  ASSUME NEW r \in Requests, UNCHANGED messages, \A i \in Requests \ {r} : request'[i] = request[i],
         ExchangeOf(request'[r]) = ExchangeOf(request[r])
  PROVE  UNCHANGED <<messages, Exchanging>>
  BY DEF Exchanging

LEMMA ExchangeOfEnd ==
  ASSUME NEW r \in Requests, NEW status, Left(request'[r], request[r], "done", status),
         UNCHANGED messages, \A i \in Requests \ {r} : request'[i] = request[i],
         UnderWayIn(request[r]), ProgressOf(request'[r])
  PROVE  Exchanges!ChatNext \/ UNCHANGED <<messages, Exchanging>>
  <1> DEFINE p == request'[r]
             q == request[r]
  <1>1. CASE q.kind # "chat"
    BY <1>1, ExchangeLeft, Settled
  <1>2. CASE q.kind = "chat" /\ status # 200
    <2>1. /\ ExchangeOf(p) = Exchanges!Exchange("over", ExchangeOf(q).session)
          /\ ExchangeOf(q).stage # "confirmed"
      BY <1>2, ExchangeLeft
    <2> QED
      BY <2>1, GivenUp
  <1>3. CASE q.kind = "chat" /\ status = 200
    <2>1. q.wrote = 2
      BY <1>3 DEF Left, ProgressOf
    <2>2. /\ ExchangeOf(q).stage = "replied"
          /\ ExchangeOf(p) = Exchanges!Exchange("confirmed", ExchangeOf(q).session)
      BY <1>3, <2>1, ExchangeLeft
    <2>3. Exchanges!Confirm(r)
      BY <2>2, ExchangingChanges DEF Exchanges!Confirm, Exchanges!Moves
    <2> QED
      BY <2>3 DEF Exchanges!ChatNext
  <1> QED
    BY <1>1, <1>2, <1>3

LEMMA ExchangeOfArrival ==
  ASSUME NEW r \in Requests, Arrives(request'[r]), request[r].pc = "new", Quiet(r),
         \A i \in Requests \ {r} : request'[i] = request[i], ProgressOf(request[r])
  PROVE  Exchanges!ChatNext \/ UNCHANGED <<messages, Exchanging>>
  <1> DEFINE p == request'[r]
             q == request[r]
  <1>1. q.wrote = 0 /\ p.wrote = 0 /\ UNCHANGED messages /\ q.kind # "chat"
    BY ApiAssumption DEF ProgressOf, Quiet, Kinds
  <1>2. ExchangeOf(q) = [stage |-> "none", session |-> None]
    BY <1>1 DEF ExchangeOf, StageOf
  <1>3. CASE p.pc = "done" /\ p.kind = "chat"
    <2>1. p.status # 200
      BY DEF Arrives
    <2>2. ExchangeOf(p) = Exchanges!Exchange("over", ExchangeOf(q).session)
      BY <1>1, <1>2, <1>3, <2>1 DEF ExchangeOf, StageOf, Exchanges!Exchange
    <2> QED
      BY <1>1, <1>2, <2>2, GivenUp
  <1>4. CASE p.pc # "done" \/ p.kind # "chat"
    <2>1. p.pc # "lost"
      BY DEF Arrives
    <2>2. StageOf(p) = "none"
      BY <1>1, <1>4, <2>1 DEF StageOf
    <2>3. ExchangeOf(p) = ExchangeOf(q)
      BY <1>1, <1>2, <2>2 DEF ExchangeOf
    <2> QED
      BY <1>1, <2>3, Settled
  <1> QED
    BY <1>3, <1>4

LEMMA ExchangeOfWriting ==
  ASSUME IInv, NEW r \in Requests, Step(r), StoreQuestion(r) \/ StoreReply(r)
  PROVE  Exchanges!ChatNext
  <1> DEFINE p == request'[r]
             q == request[r]
  <1>1. /\ \A i \in Requests \ {r} : request'[i] = request[i]
        /\ ProgressOf(p) /\ ProgressOf(q)
    BY StepMoves, ProgressEach DEF IInv, Conversing
  <1>2. /\ p.kind = q.kind /\ p.session = q.session
        /\ p.pc \in {"answer", "audit"}
        /\ StoreReply(r) => p.wrote = 2
        /\ StoreQuestion(r) => p.pc = "answer"
    BY WorkingEffects DEF IInv, SameAsker, SamePlace
  <1>3. /\ q.kind = "chat" /\ q.session \in SessionId /\ q.pc \in {"question", "reply"}
        /\ StoreQuestion(r) => q.wrote = 0
        /\ StoreReply(r) => q.wrote = 1
    BY <1>1 DEF StoreQuestion, StoreReply, Is, ProgressOf, Asking, Replying
  <1>4. StoreQuestion(r) => p.wrote = 1
    BY <1>1, <1>2 DEF ProgressOf, Replying
  <1>5. CASE StoreQuestion(r)
    <2>1. StageOf(q) = "none" /\ StageOf(p) = "asked"
      BY <1>2, <1>3, <1>4, <1>5 DEF StageOf
    <2>2. /\ ExchangeOf(q).stage = "none"
          /\ ExchangeOf(p) = Exchanges!Exchange("asked", q.session)
      BY <1>2, <1>4, <1>5, <2>1 DEF ExchangeOf, Exchanges!Exchange
    <2>3. messages' = [messages EXCEPT ![q.session] = Append(@, Exchanges!Line("user", r))]
      BY <1>5 DEF StoreQuestion, InsertMessage, Says, Exchanges!Line
    <2>4. Exchanges!Question(r)
      BY <1>1, <1>3, <2>2, <2>3, ExchangingChanges DEF Exchanges!Question, Exchanges!Moves
    <2> QED
      BY <2>4 DEF Exchanges!ChatNext
  <1>6. CASE StoreReply(r)
    <2>1. StageOf(q) = "asked" /\ StageOf(p) = "replied"
      BY <1>2, <1>3, <1>6 DEF StageOf
    <2>2. /\ ExchangeOf(q).stage = "asked" /\ ExchangeOf(q).session = q.session
          /\ ExchangeOf(p) = Exchanges!Exchange("replied", q.session)
      BY <1>2, <1>3, <1>6, <2>1 DEF ExchangeOf, Exchanges!Exchange
    <2>3. messages' = [messages EXCEPT ![q.session] = Append(@, Exchanges!Line("assistant", r))]
      BY <1>6 DEF StoreReply, InsertMessage, Says, Exchanges!Line
    <2>4. Exchanges!Reply(r)
      BY <1>1, <2>2, <2>3, ExchangingChanges DEF Exchanges!Reply, Exchanges!Moves
    <2> QED
      BY <2>4 DEF Exchanges!ChatNext
  <1> QED
    BY <1>5, <1>6

LEMMA StepStoresNothing ==
  ASSUME NEW r, Step(r), ~(StoreQuestion(r) \/ StoreReply(r))
  PROVE  UNCHANGED messages
  BY DEF Step, ArriveLogin, ArriveOther, ArriveChat, LoginUser, LoginRoles, LoginPermissions,
     Bearer, KeyUser, KeyRoles, KeyPermissions, Admit, OpenSession, ReadHistory, EnsureSession,
     AnswerTurn, TakeAnswer, Enqueue, CreateKey, Audit, Respond, DbRaises, storeVars

LEMMA WritesMore ==
  ASSUME TypeOK, NEW r \in Requests, UNCHANGED messages
  PROVE  ~Writes(r)
  <1>1. SUFFICES ASSUME Writes(r)
                 PROVE  FALSE
    OBVIOUS
  <1> DEFINE s == request[r].session
             m == Says(Speaker(request'[r].wrote), r)
  <1>2. s \in SessionId /\ messages[s] \in Seq(Message)
    BY <1>1 DEF Writes, TypeOK
  <1>3. m \in Message
    BY DEF Says, Speaker, Message, Speakers
  <1>4. messages'[s] = Append(messages[s], m)
    BY <1>1, <1>2 DEF Writes, InsertMessage, TypeOK
  <1> HIDE DEF m, s
  <1>5. Len(messages'[s]) = Len(messages[s]) + 1 /\ Len(messages[s]) \in Nat
    BY <1>2, <1>3, <1>4
  <1> QED
    BY <1>5

(***************************************************************************)
(* Any other step of a request leaves its exchange where it is.            *)
(***************************************************************************)
LEMMA OtherSteps ==
  ASSUME TypeOK, Progress, NEW r \in Requests, Step(r)
  PROVE  \/ StoreQuestion(r) \/ StoreReply(r)
         \/ Arrives(request'[r]) /\ request[r].pc = "new"
         \/ \E status \in Statuses : Left(request'[r], request[r], "done", status)
         \/ request'[r].kind = request[r].kind /\ UnderWayIn(request'[r])
  <1> DEFINE p == request'[r]
             q == request[r]
  <1>1. UnderWayIn(q)
    BY StepMoves DEF UnderWayIn, Reading, Working
  <1>2. CASE OpenSession(r) \/ ReadHistory(r)
    BY <1>2, WorkingEffects DEF SameAsker, UnderWayIn
  <1>3. CASE AnswerTurn(r)
    BY <1>1, <1>3, WorkingEffects DEF UnderWayIn
  <1>4. CASE EnsureSession(r) \/ Enqueue(r) \/ CreateKey(r) \/ Audit(r)
    BY <1>4, GoesEffect DEF EnsureSession, Enqueue, CreateKey, Audit, SameAsker, UnderWayIn
  <1>5. CASE SameCase(p, q) /\ (p.pc = "audit" \/ p.pc \in Reading
                                \/ p.pc \in {"history", "openSession", "enqueue", "createKey"})
    BY <1>5 DEF SameCase, UnderWayIn, Reading
  <1>6. CASE SameAsker(p, q) /\ p.pc = "sessionOfAnswer"
    BY <1>6 DEF SameAsker, UnderWayIn
  <1>7. 200 \in Statuses
    BY DEF Statuses
  <1> QED
    BY <1>2, <1>3, <1>4, <1>5, <1>6, <1>7, StepCases

LEMMA ExchangeOfStep ==
  ASSUME IInv, NEW r \in Requests, Step(r)
  PROVE  Exchanges!ChatNext \/ UNCHANGED <<messages, Exchanging>>
  <1> DEFINE p == request'[r]
             q == request[r]
  <1>1. /\ \A i \in Requests \ {r} : request'[i] = request[i]
        /\ ProgressOf(p) /\ ProgressOf(q) /\ (Quiet(r) \/ Writes(r))
        /\ UnderWayIn(q)
    BY StepMoves, ProgressEach DEF IInv, Conversing, UnderWayIn, Reading, Working
  <1>2. q.wrote \in {0, 1, 2}
    BY DEF IInv, TypeOK, Request
  <1>3. CASE StoreQuestion(r) \/ StoreReply(r)
    BY <1>3, ExchangeOfWriting
  <1>4. CASE ~(StoreQuestion(r) \/ StoreReply(r))
    <2>1. UNCHANGED messages
      BY <1>4, StepStoresNothing
    <2>2. Quiet(r)
      BY <1>1, <2>1, WritesMore DEF IInv
    <2>3. CASE Arrives(p) /\ q.pc = "new"
      BY <1>1, <2>2, <2>3, ExchangeOfArrival
    <2>4. CASE \E status \in Statuses : Left(p, q, "done", status)
      BY <1>1, <2>1, <2>4, ExchangeOfEnd
    <2>5. CASE p.kind = q.kind /\ UnderWayIn(p)
      <3>1. p.wrote = q.wrote /\ (q.wrote = 0 \/ p.session = q.session)
        BY <1>2, <2>2 DEF Quiet
      <3>2. ExchangeOf(p) = ExchangeOf(q)
        BY <1>1, <2>5, <3>1, Unmoved
      <3> QED
        BY <1>1, <2>1, <3>2, Settled
    <2> QED
      BY <1>4, <2>3, <2>4, <2>5, OtherSteps DEF IInv, Conversing
  <1> QED
    BY <1>3, <1>4

LEMMA ExchangeOfCrash ==
  ASSUME IInv, Crash
  PROVE  Exchanges!ChatNext
  <1> DEFINE over == {i \in Requests : UnderWay(i) /\ request[i].kind = "chat"}
  <1>1. UNCHANGED messages
    BY DEF Crash, storeVars
  <1>2. ASSUME NEW i \in Requests
        PROVE  /\ i \in over => ExchangeOf(request[i]).stage # "confirmed"
               /\ ExchangeOf(request'[i]) =
                    IF i \in over THEN Exchanges!Exchange("over", ExchangeOf(request[i]).session)
                    ELSE ExchangeOf(request[i])
    <2>1. /\ UnderWay(i) => Left(request'[i], request[i], "lost", 0)
          /\ ~UnderWay(i) => request'[i] = request[i]
      BY CrashMoves DEF IInv, Conversing
    <2>2. CASE ~UnderWay(i)
      BY <2>1, <2>2
    <2>3. CASE UnderWay(i)
      <3>1. UnderWayIn(request[i])
        BY <2>3 DEF UnderWay, UnderWayIn, Reading, Working
      <3> QED
        BY <2>1, <2>3, <3>1, ExchangeLeft
    <2> QED
      BY <2>2, <2>3
  <1> HIDE DEF over
  <1>3. over \subseteq Requests
    BY DEF over
  <1>4. over \in SUBSET {i \in Requests : Exchanging[i].stage # "confirmed"}
    BY <1>2, <1>3 DEF Exchanging
  <1>5. Exchanging' = [i \in Requests |->
          IF i \in over THEN Exchanges!Exchange("over", Exchanging[i].session)
          ELSE Exchanging[i]]
    BY <1>2 DEF Exchanging
  <1>6. Exchanges!Abandon
    BY <1>1, <1>4, <1>5 DEF Exchanges!Abandon
  <1> QED
    BY <1>6 DEF Exchanges!ChatNext

(***************************************************************************)
(* The API implements ChatExchange: however many requests share a session, *)
(* whatever raises, and wherever the process dies, a client sees questions *)
(* and answers stored and exchanges confirmed in the order of the abstract *)
(* specification (routes.py 94-150).                                       *)
(***************************************************************************)
THEOREM ExchangeRefinement == Spec => ImplementsExchange
  <1>1. Init => Exchanges!ChatInit
    BY DEF Init, StoreInit, NewRequest, Exchanging, ExchangeOf, StageOf, Exchanges!ChatInit,
       Exchanges!Exchange
  <1>2. ASSUME IInv, [Next]_vars
        PROVE  [Exchanges!ChatNext]_<<messages, Exchanging>>
    <2>1. CASE Crash
      BY <1>2, <2>1, ExchangeOfCrash
    <2>2. CASE Environment \/ UNCHANGED vars
      <3>1. UNCHANGED <<messages, request>>
        BY <2>2 DEF Environment, vars, storeVars
      <3> QED
        BY <3>1 DEF Exchanging
    <2>3. CASE \E r \in Requests : Step(r)
      BY <1>2, <2>3, ExchangeOfStep
    <2> QED
      BY <1>2, <2>1, <2>2, <2>3 DEF Next
  <1>3. IInv /\ [Next]_vars => [Exchanges!ChatNext]_<<messages, Exchanging>>
    BY <1>2
  <1> QED
    BY <1>1, <1>3, ApiSafety, PTL DEF Spec, ImplementsExchange, Exchanges!ChatSpec

(***************************************************************************)
(* The prompt is the end of the history it is made from.                   *)
(***************************************************************************)
LEMMA PromptEnds ==
  ASSUME NEW history \in Seq(Message), history # <<>>
  PROVE  /\ Prompt(history) # <<>>
         /\ Prompt(history)[Len(Prompt(history))] = history[Len(history)]
  <1>1. Len(history) \in Nat /\ Len(history) > 0 /\ MaxPrompt \in Nat /\ MaxPrompt > 0
    BY EmptySeq, ApiAssumption
  <1>2. CASE Len(history) <= MaxPrompt
    BY <1>2 DEF Prompt
  <1>3. CASE Len(history) > MaxPrompt
    <2> DEFINE m == Len(history) + 1 - MaxPrompt
               n == Len(history)
               p == SubSeq(history, m, n)
    <2>1. m \in 1..n /\ n \in 1..n /\ n - m + 1 = MaxPrompt
      BY <1>1, <1>3
    <2>2. /\ p \in Seq(Message) /\ Len(p) = MaxPrompt
          /\ \A i \in 1..MaxPrompt : p[i] = history[m + i - 1]
      <3> HIDE DEF m
      <3>1. /\ SubSeq(history, m, n) \in Seq(Message)
            /\ Len(SubSeq(history, m, n)) = IF m <= n THEN n - m + 1 ELSE 0
            /\ \A i \in 1..(n - m + 1) : SubSeq(history, m, n)[i] = history[m + i - 1]
        BY <2>1, SubSeqProperties
      <3> QED
        BY <2>1, <3>1
    <2>3. p[MaxPrompt] = history[n]
      BY <1>1, <2>2
    <2>4. Prompt(history) = p
      BY <1>1, <1>3 DEF Prompt
    <2> HIDE DEF p
    <2>5. p # <<>>
      BY <1>1, <2>2
    <2> QED
      BY <2>2, <2>3, <2>4, <2>5
  <1> QED
    BY <1>1, <1>2, <1>3

(***************************************************************************)
(* The agent is given the recent conversation in every session that        *)
(* get_messages can read as a whole: long_session shows that the limit is  *)
(* sharp.                                                                  *)
(***************************************************************************)
THEOREM ShortContext == Spec => []ContextContinuesWithin
  <1>1. ASSUME IInv, NEW r \in Requests, request[r].arrived <= MaxHistory
        PROVE  Continues(r)
    <2> SUFFICES ASSUME Is(r, "answer"), request[r].arrived > 0
                 PROVE  LET prompt == Prompt(request[r].history)
                            s == request[r].session
                        IN  /\ prompt # <<>>
                            /\ \E i \in request[r].arrived..Len(messages[s]) :
                                 messages[s][i] = prompt[Len(prompt)]
      BY DEF Continues
    <2> DEFINE h == request[r].history
               s == request[r].session
    <2>1. /\ h \in Seq(Message) /\ Len(h) \in Nat
          /\ request[r].arrived \in Nat /\ MaxHistory \in Nat
      <3>1. request[r] \in Request
        BY <1>1 DEF IInv, TypeOK
      <3> QED
        BY <3>1, StoreAssumption DEF Request
    <2>2. s \in SessionId /\ messages[s] \in Seq(Message) /\ Len(messages[s]) \in Nat
      <3>1. request[r].pc = "answer"
        BY DEF Is
      <3>2. s \in SessionId
        BY <1>1, <3>1 DEF IInv, Conversing, Progress, Replying
      <3>3. messages \in [SessionId -> Seq(Message)]
        BY <1>1 DEF IInv, TypeOK
      <3> HIDE DEF s
      <3>4. messages[s] \in Seq(Message)
        BY <3>2, <3>3
      <3> QED
        BY <3>2, <3>4
    <2>3. /\ Len(h) <= Len(messages[s])
          /\ \A i \in 1..Len(h) : h[i] = messages[s][i]
          /\ request[r].arrived <= Len(h) \/ Len(h) = MaxHistory
      BY <1>1 DEF IInv, Remembering, ContextFaithful, Is
    <2>4. request[r].arrived <= Len(h) /\ Len(h) > 0
      BY <1>1, <2>1, <2>3
    <2> HIDE DEF h, s
    <2>5. h # <<>>
      BY <2>1, <2>4
    <2>6. Prompt(h) # <<>> /\ Prompt(h)[Len(Prompt(h))] = h[Len(h)]
      BY <2>1, <2>5, PromptEnds
    <2>7. Len(h) \in request[r].arrived..Len(messages[s]) /\ h[Len(h)] = messages[s][Len(h)]
      BY <2>1, <2>2, <2>3, <2>4
    <2> QED
      BY <2>6, <2>7 DEF h, s
  <1>2. IInv => ContextContinuesWithin
    BY <1>1 DEF ContextContinuesWithin
  <1> QED
    BY <1>2, ApiSafety, PTL
=============================================================================
