------------------------------ MODULE Answering ------------------------------
(***************************************************************************)
(* How a question gets its answer: the agent (src/app/agent/service.py),   *)
(* its web search (src/app/tools/tavily.py), the policy search             *)
(* (src/app/rag/) and the chunks it reads                                  *)
(* (src/app/storage/vector_repository.py).  Three chains of fallbacks:     *)
(*   LangGraph agent -> routing by keyword,                                *)
(*   LangGraph retrieval -> plain retrieval,                               *)
(*   documents in SQLite -> Pinecone -> the static documents.              *)
(* A fallback catches some failures; the others reach the request.         *)
(*                                                                         *)
(* Texts are abstracted: a search finds a source and, for SQLite, how many *)
(* documents of the knowledge base there were to search.                   *)
(***************************************************************************)
EXTENDS Naturals

CONSTANTS Questions,       \* the requests that ask
          SettingsChoices, \* the settings a server may be started with
          MaxDocs,         \* bound: documents the knowledge base may reach
          Faults           \* the kinds of failure that may happen

ASSUME AnsweringAssumption ==
  /\ MaxDocs \in Nat
  /\ SettingsChoices \subseteq [secured : BOOLEAN, mock : BOOLEAN, graphAgent : BOOLEAN,
                                graphRag : BOOLEAN, keys : SUBSET {"openai", "tavily", "pinecone"}]

VARIABLES settings,        \* AppSettings: read once, never changed
          base,            \* documents committed to the knowledge base
          answer           \* per question: where its answer has got to

answeringVars == <<settings, base, answer>>

Hit == [source : {"nothing", "base", "pinecone", "static"}, docs : 0..MaxDocs]

NoHit == [source |-> "nothing", docs |-> 0]

Stages == {"none", "agent", "dispatch", "retrieve", "generate", "evidence",
           "search", "build", "answered", "raised"}

(***************************************************************************)
(* "mock" is use_mock_services of the settings the services are built      *)
(* with; "outside" and "known" are history: whether an external service    *)
(* was called, and the documents there were when the question was asked.   *)
(***************************************************************************)
Answer == [stage : Stages, mock : BOOLEAN,
           route : {"none", "agent", "tavily", "graph", "policy"},
           context : Hit, evidence : Hit, outside : BOOLEAN, known : 0..MaxDocs]

NoAnswer == [stage |-> "none", mock |-> FALSE, route |-> "none",
             context |-> NoHit, evidence |-> NoHit, outside |-> FALSE, known |-> 0]

AnsweringInit == /\ settings \in SettingsChoices
                 /\ base \in 0..MaxDocs
                 /\ answer = [q \in Questions |-> NoAnswer]

Turns(q, state) == answer' = [answer EXCEPT ![q] = state]

At(q, stage) == answer[q].stage = stage

(***************************************************************************)
(* What may leave the process.                                             *)
(***************************************************************************)
MutantLive(q) == ~settings.mock               \* services built with settings

Live(q) == ~answer[q].mock

Reaches(q, key) == Live(q) /\ key \in settings.keys

UsesGraphAgent(q) == Live(q) /\ settings.graphAgent

UsesGraphRag(q) == Live(q) /\ settings.graphRag

(***************************************************************************)
(* An ingested document: add_document_with_chunks is one transaction.      *)
(***************************************************************************)
AddDocument == /\ base < MaxDocs
               /\ base' = base + 1
               /\ UNCHANGED <<settings, answer>>

-----------------------------------------------------------------------------
(* ReActAgentService.answer                                                *)

Ask(q, mock) ==
  Turns(q, [NoAnswer EXCEPT !.stage = "agent", !.mock = mock, !.known = base])

AgentAnswers(q) ==
  /\ At(q, "agent") /\ UsesGraphAgent(q) /\ Reaches(q, "openai")
  /\ Turns(q, [answer[q] EXCEPT !.stage = "answered", !.route = "agent", !.outside = TRUE])

(***************************************************************************)
(* No LangGraph agent, or any exception in it: routing by keyword.         *)
(***************************************************************************)
AgentFallsBack(q) ==
  /\ At(q, "agent")
  /\ UsesGraphAgent(q) /\ Reaches(q, "openai") => "external" \in Faults
  /\ Turns(q, [answer[q] EXCEPT !.stage = "dispatch",
                                !.outside = UsesGraphAgent(q) /\ Reaches(q, "openai")])

(***************************************************************************)
(* A question about the weather or the present: TavilySearchClient.search. *)
(* Without a key the result is a mock; a failing call raises.              *)
(***************************************************************************)
SearchWeb(q) ==
  /\ At(q, "dispatch")
  /\ Turns(q, [answer[q] EXCEPT !.stage = "answered", !.route = "tavily",
                                !.outside = @ \/ Reaches(q, "tavily")])

WebRaises(q) ==
  /\ At(q, "dispatch") /\ Reaches(q, "tavily") /\ "external" \in Faults
  /\ Turns(q, [answer[q] EXCEPT !.stage = "raised", !.outside = TRUE])

(***************************************************************************)
(* Any other question: PolicySearchService.answer_query.                   *)
(***************************************************************************)
SearchPolicy(q) ==
  /\ At(q, "dispatch")
  /\ Turns(q, [answer[q] EXCEPT !.stage = IF UsesGraphRag(q) THEN "retrieve" ELSE "search"])

-----------------------------------------------------------------------------
(* _similarity_search: the chunks in SQLite; if there are none, Pinecone;  *)
(* if there is none or it finds nothing, the static documents.             *)

MutantHits(q) ==                              \* Pinecone before SQLite
  IF Reaches(q, "pinecone") /\ Reaches(q, "openai")
  THEN {[source |-> "pinecone", docs |-> 0], [source |-> "static", docs |-> 0]}
  ELSE IF base > 0 THEN {[source |-> "base", docs |-> base]}
  ELSE {[source |-> "static", docs |-> 0]}

Hits(q) ==
  IF base > 0 THEN {[source |-> "base", docs |-> base]}
  ELSE {[source |-> "static", docs |-> 0]} \cup
       IF Reaches(q, "pinecone") /\ Reaches(q, "openai")
       THEN {[source |-> "pinecone", docs |-> 0]} ELSE {}

(***************************************************************************)
(* The question is embedded by OpenAI where it can be, so that a search    *)
(* may fail outside; the rows are read from the database.                  *)
(***************************************************************************)
SearchMayRaise(q) == \/ "db" \in Faults
                     \/ "external" \in Faults /\ Reaches(q, "openai")

-----------------------------------------------------------------------------
(* PolicySearchService._answer_with_langgraph: it searches for the context *)
(* of the answer and, when the answer is there, again for the evidence.    *)

Retrieve(q) ==
  /\ At(q, "retrieve")
  /\ \E hit \in Hits(q) :
       Turns(q, [answer[q] EXCEPT !.stage = "generate", !.context = hit,
                                  !.outside = @ \/ Reaches(q, "openai")])

Generate(q) ==
  /\ At(q, "generate") /\ Reaches(q, "openai")
  /\ Turns(q, [answer[q] EXCEPT !.stage = "evidence", !.outside = TRUE])

FindEvidence(q) ==
  /\ At(q, "evidence")
  /\ \E hit \in Hits(q) :
       Turns(q, [answer[q] EXCEPT !.stage = "answered", !.route = "graph",
                                  !.evidence = hit])

(***************************************************************************)
(* Any exception in it: the plain retrieval.                               *)
(***************************************************************************)
GraphFallsBack(q) ==
  /\ \/ (At(q, "retrieve") \/ At(q, "evidence")) /\ SearchMayRaise(q)
     \/ At(q, "generate") /\ (Reaches(q, "openai") => "external" \in Faults)
  /\ Turns(q, [answer[q] EXCEPT !.stage = "search", !.context = NoHit,
                                !.outside = @ \/ Reaches(q, "openai")])

-----------------------------------------------------------------------------
(* The plain retrieval and _build_answer.                                  *)

Search(q) ==
  /\ At(q, "search")
  /\ \E hit \in Hits(q) :
       Turns(q, [answer[q] EXCEPT !.stage = "build", !.context = hit, !.evidence = hit,
                                  !.outside = @ \/ Reaches(q, "openai")])

Build(q) ==
  /\ At(q, "build")
  /\ Turns(q, [answer[q] EXCEPT !.stage = "answered", !.route = "policy",
                                !.outside = @ \/ Reaches(q, "openai")])

(***************************************************************************)
(* Here an exception is not caught.                                        *)
(***************************************************************************)
PolicyRaises(q) ==
  /\ \/ At(q, "search") /\ SearchMayRaise(q)
     \/ At(q, "build") /\ Reaches(q, "openai") /\ "external" \in Faults
  /\ Turns(q, [answer[q] EXCEPT !.stage = "raised", !.outside = @ \/ Reaches(q, "openai")])

AnswerStep(q) == /\ \/ AgentAnswers(q) \/ AgentFallsBack(q)
                    \/ SearchWeb(q)    \/ WebRaises(q)  \/ SearchPolicy(q)
                    \/ Retrieve(q)     \/ Generate(q)   \/ FindEvidence(q)
                    \/ GraphFallsBack(q)
                    \/ Search(q)       \/ Build(q)      \/ PolicyRaises(q)
                 /\ UNCHANGED <<settings, base>>
=============================================================================
