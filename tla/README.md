# A verification of the RAG agent

TLA+ models of the parts of this repository that keep state and run
concurrently, the TLC runs that check them on small instances, and TLAPS proofs
of their main safety properties for every instance. Paths below are relative to
the repository; `service.py` without a directory is `app/ingestion/service.py`.

Contents: 1 the system · 2 the modules · 3 the ingestion pipeline · 4 the
chunker · 5 the rate limiter · 6 the requests of the API · 7 the life of a
process · 8 the runs · 9 the proofs · 10 what was found · 11 what is not
modelled.

## 1. The system

A FastAPI service answers questions from ingested documents. Documents are
ingested by jobs that a pool of workers takes from a table, with or without
Redis in front of it. Everything durable is in one SQLite file; Redis, when it
is configured, holds queue ids and rate-limit counters.

| part | state it keeps | operations | interacts with |
|---|---|---|---|
| job table (`app/storage/ingestion_job_repository.py`) | rows of `ingestion_jobs` | insert, lookup by key, two claims, mark succeeded, mark failed | called by the ingestion service |
| queue backends (`app/queue/`) | Redis: ready list, delayed set, dead-letter list; sqlite: nothing | enqueue, dequeue (three round trips), ack, nack | called by the ingestion service |
| ingestion service (`service.py`) | nothing of its own | `enqueue_text`, `process_next_job`, `process_jobs`, `run_until_idle` | table, queue, chunker, embedder, document store |
| worker (`app/ingestion/worker.py`, `scripts/run_worker.py`) | a thread and a stop event | start, stop, the polling loop | ingestion service |
| chunker (`app/ingestion/chunker.py`) | none | `chunk_text` | ingestion service |
| rate limiter (`app/security/rate_limit.py`, `app/api/dependencies.py`) | counters per window, in memory or in Redis; the cached limiter | `check`, `get_rate_limiter` | every authenticated request |
| chat sessions (`app/storage/session_repository.py`, `app/api/routes.py`) | sessions and messages | create, add, list, the `chat` handler | agent, audit trail |
| authentication (`app/auth/`, `app/storage/auth_repository.py`) | users, roles, keys; tokens held by clients | bootstrap, login, authenticate, create key | every request |
| database bootstrap (`app/storage/database.py`) | the schema and the seed rows | create, add columns, seed | every process at its start |
| request context, telemetry, metrics | per-thread context, counters | set, clear, record | everything |
| documents and retrieval (`app/rag/`, `app/storage/vector_repository.py`) | documents and chunks | add, search, fall back | ingestion, agent |
| agent (`app/agent/service.py`, `app/tools/tavily.py`) | none | `answer` and its fallbacks | chat |

What is hard, and what makes each part correct:

- **Ingestion.** Several workers, in one process or many, and the
  `/ingestion/jobs/process` endpoint, claim jobs at the same time. A job can be
  claimed by a popped id or as the oldest due row; ids are pushed after the row
  is committed, are duplicated by concurrent promotions and are lost with
  whoever popped them. Every call may fail and every process may crash between
  two of them. *Correct* means: one attempt of a job at a time, exact counts,
  dead letters exactly when the retries are spent, final outcomes, a document
  behind every success, no retry before its backoff, one job per idempotency
  key, and no job forgotten.
- **Chunker.** A loop whose next start lies before the current end. *Correct*
  means it ends, loses nothing, repeats exactly the overlap.
- **Rate limiter.** The window is computed before the counter is reached;
  counters expire; a failing Redis is replaced by the memory of each process;
  the limiter itself is created lazily by concurrent requests. *Correct* means
  that a window admits its quota and no more.
- **Chat.** The history is read before the question is written, and the answer
  is written by a later transaction or, if it raises, never. `get_messages`
  returns the *oldest* 200 messages. *Correct* means that a session stays a
  conversation and that an answer sees the recent part of it.
- **Authentication.** Roles and permissions are read in transactions of their
  own and travel in tokens while the tables change. *Correct* means that nobody
  is admitted without a role that grants what is asked.
- **Agent and retrieval.** Three chains of fallbacks, each of which catches some
  failures and passes on others; settings per server and per request; documents
  that arrive in between. *Correct* means that a policy answer rests on the
  knowledge base and that a mock request calls nobody.
- **Audit.** The row is written after the work, in another transaction.
  *Correct* means that it is there for whatever was confirmed, and only for
  what was done.
- **Start and stop.** Every process creates schema, columns, seed rows and the
  administrator when it starts, reading before it writes, and stops its worker
  with a timeout. *Correct* means that whoever is ready has everything, whoever
  is first and whoever fails, that later starts undo nothing of it, and that a
  worker that is told to stop begins at most another batch.

`PROJECT.json` lists the components and their status, and under `hazards` each
place in the code where one of these can go wrong, with the properties that
would tell.

## 2. The modules

| module | what it holds |
|---|---|
| `JobTable` | the table and the transactions on it |
| `RedisQueue` | the Redis keys of the queue and the round trips on them |
| `IngestionService` | composes the two: clients, workers, failures, time; the specification of the pipeline |
| `IngestionProperties` | type invariant, safety, action and liveness properties, the inductive invariant, the refinement mapping |
| `JobLifecycle` | the abstract specification: what a client may observe of a job |
| `IngestionProofs` | the proofs about the rows of jobs |
| `DeliveryProofs` | the proofs about dead letters, documents, keys and ids in Redis |
| `BackoffProofs` | the proof that retries wait on Redis, and on what that rests |
| `FaultProofs` | the proofs about what is left when things fail: bounds, and which faults it takes to lose something |
| `MCIngestion` | instances for TLC |
| `Chunker`, `ChunkerProofs`, `MCChunker` | the chunking loop, its proofs, its instance |
| `RateLimiter`, `RateLimiterProofs`, `MCRateLimiter` | the rate limiter, its proofs, its instances |
| `SessionStore` | sessions and messages and the transactions on them |
| `AccessControl` | users, roles, keys and tokens; time and the operator who changes them |
| `Answering` | agent, web search and policy search: the chains of fallbacks |
| `ApiService` | composes the three: the requests of the API, step by step, with their failures |
| `ApiProperties` | properties, inductive invariant and refinement mapping of the API |
| `ChatExchange` | the abstract specification: question, answer, confirmation |
| `ApiProofs`, `MCApi` | its proofs, its instances |
| `DatabaseBootstrap`, `AuthBootstrap` | what a process does to a database file before it uses it, and to the users before it answers |
| `WorkerLoop` | the thread of `IngestionWorker`: start, batches, the stop event |
| `ServerProcess` | composes the three: servers and worker processes that start, stop and die |
| `ProcessProperties`, `ProcessProofs`, `MCProcess` | its properties, its proofs, its instance |

The three large models meet at their edges only. `ApiService` has one action
for what `IngestionService` models in full (`Enqueue`) and lets the rate limit
refuse whenever it likes (`RateLimiter`); `AccessControl` takes for granted the
grants that `ProcessProperties!ReadyComplete` shows every ready process to have;
`WorkerLoop` counts the jobs whose life is `IngestionService`.

An operator named `Mutant...` is not part of a model. It stands before the
definition it is a mutation of, has the shape of a plausible bug in that code,
and must make some property fail when it takes the definition's place
(`mutants` in `PROJECT.json`).

## 3. The ingestion pipeline

### State

- `jobs[j]` is the row of job `j`; ids are numbers given in the order of
  `created_at`, the column the repository sorts by. `wait` is what is left
  until `next_attempt_at`, in ticks: time is relative, so nothing grows with it.
  Rows keep the columns the control depends on; `blank` says that the payload
  has no text to chunk (which is when `chunk_text` returns an empty list).
- `ready`, `delayed` and `dlq` are the three Redis keys.
- `docs[j]` counts the documents committed for the payload of `j`.
- `client[c]` and `worker[w]` hold a program counter and the local variables a
  later step uses: the ids read as due, the popped id, the retry count read by
  `mark_job_failed`, the document about to be reported.

### Actions

A step is one transaction, one round trip or one piece of local work, because
anybody may act between two of those.

| action | code |
|---|---|
| `Request`, `Lookup`, `Prepare`, `Insert`, `Push` | `enqueue_text`: its own lookup of the key, the second lookup in `enqueue_text_job`, the insert, the push. A job found by the second lookup is pushed again with its `next_attempt_at`, as in the code |
| `ReadDue`, `Promote`, `Pop` | `dequeue`: `zrangebyscore`; the `MULTI` that pushes and removes what was read, whatever the set holds by then; `lpop` |
| `ClaimById`, `ClaimNext` | `_claim_next_job`: by the popped id, else the oldest due row. A sqlite worker starts at `ClaimNext` |
| `Ingest`, `MarkSucceeded` | `_ingest_text_now` commits the document, then `mark_job_succeeded` commits the outcome |
| `FailRead`, `FailWrite`, `NackJob` | `mark_job_failed` (a `SELECT` outside the transaction of its `UPDATE`) and `nack` |
| `AttemptRaises` | an exception inside the `try` of `process_next_job` |
| `Die` | a crash, or an exception nothing catches: `_run_loop` has no handler, so the thread ends |
| `Abandon` | the same for a request |
| `Restart` | an operator starts the worker again |
| `Tick` | time passes for everything at once |

Modelling choices a reader should know:

- `ack` does nothing on either backend and is part of `MarkSucceeded`.
- The backends may be mixed: `RedisProcs` names the clients and workers whose
  factory built a Redis queue. The factory falls back to sqlite per process.
- A Redis call that raises is modelled as not executed. One that was executed
  and then raises leaves the same state as a crash right after it: a crash covers
  it, and for the pop, which may have taken the id that the worker then never
  learns, so does a failing Redis alone (`Die` after `Pop`).
- A database failure in `mark_job_succeeded` comes before its commit: after it
  the method only converts the row it has read inside the transaction.
- A poll that finds nothing is a stuttering step; poll interval and batch size
  decide only how often a worker looks.
- The `ORDER BY created_at` of two rows inserted concurrently follows the order
  in which `Prepare` took their timestamps, which need not be the order of their
  inserts.
- `zrangebyscore` returns due ids in the order of their scores; the model lets a
  promotion push them in any order, since scores that are past are not kept.
- Metrics, spans and logging are left out: nothing in the pipeline reads them.

### Properties

`TypeOK`; `ClaimExclusive`, `AttemptAccounting`, `DeadLetterIffExhausted`,
`SucceededHasDocument` (invariants that hold whatever fails); `TerminalFinal`
and `BackoffRespected` (what no step does); `OneJobPerKey`, `DlqHoldsFailures`,
`QueuedReachable`, `StoredOnce`, `StoredWithinBudget`, `FailuresLettered`; the
liveness properties
`EveryJobEnds`, `QueuedIsClaimed` and `CalmJobsEnd`; and `ImplementsLifecycle`,
the refinement of `JobLifecycle`. Each has its statement and its reason as a
comment in `IngestionProperties`.

Some hold only under conditions, and runs and theorems say which:
`BackoffRespected` on Redis with one worker and requests without keys, since the
claim of a popped id ignores `next_attempt_at` and a retry waits only because its
id does, in the delayed set (a second worker can promote an id twice, a repeated
request can push it again; off Redis the only claim looks at the column, and there
is nothing to ask), `QueuedReachable` and
`StoredOnce` while only attempts fail, `FailuresLettered` with every worker on
Redis and neither crashes nor failing Redis calls, `OneJobPerKey` for requests
one after the other. What remains of two of them without their condition is
stated too: `StoredWithinBudget` (a payload is stored at most once per attempt)
holds whatever fails, and `FaultProofs!JobsPerKey` (a key has no more jobs than
there are clients) for any number of clients. The conditions are not weakenings for their own sake: for four of them
the run without the condition is kept as a counterexample (section 10).

### Fairness

`FairSpec` obliges a living worker to keep running (its loop never ends by
itself), a request under way to reach its end, and time to pass. It obliges no
request, failure or restart to happen, and a dead worker to nothing.
`RestartSpec` adds that somebody restarts dead workers, which nothing in the
repository does by itself; it is used only for the two recovery properties,
which ask what a restart is worth. These start from `Calm`, "failures eventually stop",
because a system that fails for ever can keep any promise from being met.

## 4. The chunker

`Chunker` is the loop of `chunk_text` on positions: a text is the length it has
after `" ".join(text.split())`, a chunk the slice it takes. `Check` is the
sequence of tests before the loop, in their order: a blank text is answered
before the settings are looked at. The invariant `ChunksAdvance` gives
termination as a safety property: ends increase strictly up to the length of the
text. `ChunksAreWindows` says which chunks they are in closed form: the n-th is
the window of `chunk_size` that begins at `(n - 1) * (chunk_size - chunk_overlap)`,
cut off at the end of the text, and the last is the first that reaches it; the result
depends on the arguments alone. The loop condition `start < len(text)` never fails, it only leaves by
`break`; `ChunksAdvance` says so. The system stops when the text is cut, so the
run does not check deadlock.

## 5. The rate limiter

Keys ("subject + path") do not interact, so the model has one. Requests are
one-shot, run in threads of several processes, and take separate steps to get
the limiter, read the clock and count themselves. A window is named by its
start, computed as in the code (`now - now % window_seconds`). A limiter is
named by the request that built it: `lru_cache` stores the first and hands the
others to the requests that built them. Redis executes `INCR` and `EXPIRE` in
one `MULTI`; a key whose time has come counts as 0. The clock is shared by all
processes and Redis. Limiters decide in their constructor whether they have a
Redis backend (`RedisProcs`); `redis.from_url` does not connect.

`MemoryQuota` needs no condition: memory never forgets, so a late request is
counted where its clock says. `RedisQuota` is about requests counted before
their window is over: a request that reads the clock in the last moment of a
window and counts itself after the key has expired starts a new count, and is
harmless only because that window is past. What all counters together allow is
`TotalQuota`: two first requests of a process that build a limiter each, or a
Redis that fails in between, give a subject a quota more, not an unlimited number.
`GlobalQuota`, of all processes together, is proved under its condition (section
9). The clock and the number of requests
are bounded, and the system stops there, so these runs do not check deadlock.

## 6. The requests of the API

### State

- `sessions` and `messages` are the two tables of the session store; a message
  is a role and the request it belongs to. Session ids are those clients make up
  (`Named`) and one that each request may generate.
- `clock`, `active`, `assigned`, `keyOwner`, `tokens` are the access tables and
  the tokens that were issued. Passwords, signatures and key material are
  abstracted: a credential is the key or the token it belongs to.
- `settings` is `AppSettings`, chosen at the start and never changed; `base`
  counts the committed documents; `answer[r]` says how far the answer of a
  question has got and from what.
- `request[r]` holds a program counter and what the handler has read so far;
  `enqueued` and `audits` are the requests with a job and with an audit row.
- `held`, `wasActive`, `at`, `arrived`, `wrote`, `known` and `outside` are
  history: what the properties remember of earlier states. No guard reads them.

### Actions

A step is one transaction with the local work after it, or one piece of the
answering chain. Between two of them other requests, an ingested document, a
tick or an operator may act.

| action | code |
|---|---|
| `ArriveLogin`, `ArriveOther`, `ArriveChat` | a client sends a request, with a token it was given, a key it was given, nothing, or, when security is off, as the system |
| `LoginUser`, `LoginRoles`, `LoginPermissions` | `login_with_password` and its three reads, then the token |
| `Bearer`; `KeyUser`, `KeyRoles`, `KeyPermissions` | `authenticate_bearer_token`; `authenticate_api_key` |
| `Admit` | the rate limit and `require_permissions` |
| `OpenSession`, `ReadHistory`, `EnsureSession`, `StoreQuestion`, `StoreReply` | the `chat` handler on the session store: `add_message` is two transactions |
| `AnswerTurn` | one step of `Answering`: LangGraph agent, else routing by keyword; web search or policy search; LangGraph retrieval, else plain retrieval; the chunks in SQLite, else Pinecone, else the static documents |
| `TakeAnswer` | the answer, or the exception that ends the request with 500 and leaves the question in the session |
| `Enqueue`, `CreateKey` | the work of the other handlers that write |
| `Audit`, `Respond` | the audit row, in its own transaction, and the response |
| `DbRaises`, `Crash` | a transaction that raises; the process dies with all its requests |
| `AddDocument`, `Tick`, `Revoke`, `Deactivate` | what happens behind the requests |

Modelling choices:

- `ReadHistory` comes before `StoreQuestion`, and both before the answer, as in
  the handler; nothing is undone when a later step raises.
- The LangGraph retrieval searches twice, once for the context of the answer and once for
  the evidence that is shown (`Retrieve`, `FindEvidence`).
- The row of a key is never changed but for `last_used_at`, which nothing
  reads: its lookup and `touch_api_key` are part of `KeyUser`.
- The local variables of a handler are dropped when it is admitted or ends:
  no later step reads them, and equal states stay equal.
- With security off nobody reads the clock and the access tables, and they are
  left alone (a bound: it removes steps that nobody can observe).
- `/ingestion/text` and `/ingestion/upload` are one kind of request. The
  handlers that only read are left out, and so is `/ingestion/jobs/process`,
  which is a worker of `IngestionService`.
- Taking a role away and deactivating a user have no endpoint; an operator does
  it on the tables.

### Properties

`ContextFaithful`: what a question is answered with is a beginning of its
session that reaches over everything the session held on arrival, up to the
limit. `AnswersFollow`: no line twice, every answer after its question, a
confirmed chat with both. `AuditTrail`: confirmed implies audited, audited
implies done. `MockIsolated`, `Grounded`: of the answers. `Entitled`: of
whoever is admitted; "at that moment" is the arrival of the request or of the
login its token stems from, because that is all the code can vouch for.
`ImplementsExchange`: `ChatExchange` is what all of this amounts to for a client
that chats. `ContextContinues`, that the agent is given the recent part, is
refuted (section 10); `ContextContinuesWithin`, that it is as long as the
session held at most `MaxHistory` messages on arrival, is proved, so that the
limit of `get_messages` is all there is to the matter. No liveness is stated here: an answer that is never given
is the business of external services without a timeout of ours.

## 7. The life of a process

### State and actions

`DatabaseBootstrap` has the tables and columns of the file and, per process,
where its `Database()` has got to. `CREATE` and `ALTER` commit one by one in the
default mode of `sqlite3`, so each is a step (`CreateObject`, `InspectColumns`, `AddColumn`,
`CreateIndex`); the seed is one transaction (`SeedAccess`). `LoseColumn` is the
duplicate column that another process has added since the look. Every process
seeds with random ids of its own and `INSERT OR IGNORE` keeps the first: rows of
`role_permissions` carry the ids, so that a reference to an id that was dropped
would show (`NoDangling`). The file is new, or left by a version whose job table
lacks some columns.

`AuthBootstrap` looks for an administrator, creates one or loses the race for it
(`LoseAdmin`), and assigns the role. A blank `bootstrap_admin_username` ends it at
once: processes configured so (`unnamed`, a setting that the initial state chooses
within `MayBeUnnamed`) are ready without having looked for an administrator. All
others are given one and the same name. `WorkerLoop` is the thread.
`ServerProcess` starts processes, builds what they need for the worker or for the
first requests, stops and kills them:

- `Launch`, `FirstRequest`: a process with a worker asks for the database at its
  start, any other at a request. `lru_cache` keeps no exception, so a failed
  build ends the start, or one request, and the next builds again.
- Two requests of one server that both miss the cache build twice, as two
  processes do: they are two members of `Starters`.
- `Stop` is the moment in which the process reaches `worker.stop()`, not that of
  the signal: a server gets there when its requests are answered, which may take
  as long as they like (`/ingestion/jobs/process` runs jobs), so nothing is
  claimed about how soon a signal is obeyed. It comes after the start and after
  first requests; a signal that ends a process before that is a `Crash`. `Exit`
  does not wait for the loop, because `join` has a timeout.
- `WorkRaises` ends the loop; its process does not notice, as in the code.
- No caller starts a worker after having stopped it, so what `start` would do
  then is not reached.

### Properties and fairness

`ReadyComplete`, `AuthComplete` and `NoDangling` say what a ready process can
rely on, `AuthComplete` of those that name an administrator; `NothingUndone` that
a database once complete stays so, and its administrator one, whatever is started
later; `NeverTwice` that a race is lost once, so that a start fails a bounded
number of times; `StopBounded` that a stopped worker begins at most a batch of
jobs more. `StartsEventually` is liveness, and counts a server as started whose
worker thread has died since, because nothing in the process notices. `FairSpec`
obliges threads to be scheduled, whoever runs a process to launch it again,
requests to keep coming, and a process past `worker.stop()` to exit. It does not
oblige the loop to anything: a job may take for ever. Stops, crashes and failing
statements are at most `MaxDisruptions`, without which a start could be interrupted for ever;
races lost to other processes are not counted, and must run out by themselves.

## 8. The runs

| run | instance | what it shows |
|---|---|---|
| `sqlite` | 2 workers, every kind of failure, workers restarted | budgets, documents, the refinement of `JobLifecycle`; once failures stop, a queued job is claimed |
| `redis` | 2 workers on Redis, 1 client, every kind of failure | the inductive invariant; exclusive claims, exact counts, no payload stored more often than attempted, dead letters once, final outcomes; one job per key for requests one after the other, some of them abandoned |
| `redis_live` | Redis, 2 clients, 2 workers, attempts fail | no job and no dead letter is lost, nothing stored twice, every job ends |
| `chunker` | texts up to 9 characters, all sizes and overlaps in and around the legal range | the chunker's properties and their inductive invariant |
| `limits` | 3 requests, 2 processes, Redis that may fail | the quotas of memory, of Redis and of all counters together, and their inductive invariant |
| `api` | 2 requests, one session they may share, one user and key; a secured mock server and an open live one; every kind of failure | all properties of section 6, the inductive invariant, the refinement of `ChatExchange` |
| `startup` | 2 servers, one with the worker, the other with an administrator to name or none; a new file or any old one; 3 disruptions | all properties of section 7, the inductive invariant |
| `crash`, `two_clients`, `early_claim`, `orphan`, `long_session` | minimal | counterexamples, section 10 |

Bounds. Two workers and two jobs are enough for every pairwise race (claim
against claim, promotion against promotion, retry against fallback claim); the
third party of a race is Redis or the clock. One retry (`max_retries` is 1)
reaches a retry, its exhaustion and a dead letter; a base backoff of 1 and a cap
of 1 or 2 ticks distinguish "due", "not due" and "capped". One key and no key are the
two cases of the lookup. In the chunker nine characters allow five chunks with
every overlap. In the rate limiter three ticks cross a window of two, so that
counts are late and keys expire.

In `api` the first request may be of every kind and the second chats: two
chats in one session reach every order of their four messages, a login before a
chat a token that outlives a role or expires (a token lives one tick, the clock
has two), a new key is used at once. `MaxHistory` and `MaxPrompt` are 1 (200 and
8 in the code): a session that holds one exchange is already longer than the
limit. `MaxDocs` is 1: a document arrives before, between and after the two
searches of an answer. The two servers share the load: who is admitted does not
depend on how answers come about, and the open live server has all three
external services. In `startup` two tables, two added columns and two roles are
the smallest that can be half done; three disruptions are a stop, a crash and a
failing statement, in any order; a batch of 2 tells "one more job" from "one
more batch".

`MaxJobs` (rows), `MaxTime` (clocks), `MaxLength`, `MaxDocs` and
`MaxDisruptions` are the only bounds; `Request` waits for a free row, so no
request is cut off half-way. Runs of systems that come to an end (a text that is
cut, requests that are answered, processes that have been disrupted enough) do
not check deadlock. Symmetry is used only where workers, clients or requests are
interchangeable and no liveness is checked.

## 9. The proofs

Assumptions: the named `ASSUME`s of the modules. Constants have their types,
limits are not negative, ids of different kinds differ, the names of jobs in
Redis are those of the table. TLC evaluates them in each run. No bound on
workers, clients, jobs, requests, users, documents, processes, tables, lengths
or times is assumed, nor which failures happen, nor which processes use Redis,
except where a theorem says so.

**Rows of jobs (`IngestionProofs`).** `Safety` proves `Spec => []IInv`. The
invariants wanted are not inductive by themselves: that `ClaimExclusive`
survives `FailWrite` needs that the retry count a worker read is still the
row's, that `SucceededHasDocument` survives `MarkSucceeded` needs that the
document it is about to report exists, and that `Insert` overwrites nothing
needs that no two clients hold the same fresh id. `WorkersHold` and
`ClientsHold` say this. The proof goes row by row: lemmas on what each
transaction makes of one row, then one lemma per action, then the temporal step.
`TypeCorrect`, `Exclusive`, `Accounted`, `DeadLettered` and `Documented` follow;
`Final` proves the action property `TerminalFinal`; `Refinement` proves that
every step of the pipeline is a step of `JobLifecycle` for at most one job or a
stutter.

**Letters, documents, keys, ids (`DeliveryProofs`).** These rest on `Safety` and
on `TableStep`: a step moves at most one row, and it is known whose step moves
it.

- `LettersOnce`, on every instance: the dead-letter list holds failed jobs, each
  once. Inductive with `LettersInHand`: a worker about to write a letter is the
  only one with that job's, and the list does not have it yet.
- `DocumentsOnce`, if only attempts fail: a payload is stored once, and only for
  a job that succeeds. A database that may fail after the document's commit is
  the reason for the assumption.
- `TracesKept`, if only attempts fail and everybody is on Redis: a queued job's
  id is in Redis or in somebody's hands. The step that is hard to see is a
  promotion that removes ids it read earlier: it pushes all of them, because an
  injective listing of a finite set lists all of it (`OrdersList`).
- `KeysUnique`, with at most one client: one job per key, whatever fails. The
  lookup that found nothing is still true at the insert (`KeyMissing`).

The counterexamples `orphan` and `two_clients` show that the last two assumptions
cannot be dropped.

**Waiting retries (`BackoffProofs`).** `BackoffKept`, with one worker, on Redis,
and requests without keys, whatever fails: no attempt begins before its backoff is
over, although `claim_job_by_id` does not ask. The reason is `OnePlace`: the id of
a queued job is in one place at a time, in the ready list, in the delayed set or in
the hands of whoever carries it, and the row never waits longer than its place
does, not at all where the next stop is a claim. What the worker reads as due stays so until it
promotes it, because nobody else removes or delays anything. Without the assumption a
second worker promotes ids that were read as due before they were popped, or a
repeated request pushes the id of a job that waits (`early_claim` has both).

**Faults (`FaultProofs`).** What is left when the conditions above are not met,
and which faults it takes to lose something.

- `StoredBounded`, on every instance: a payload is stored at most once per
  attempt, and so at most `max_retries + 1` times. Inductive with `AttemptOpen`:
  an attempt that is about to store has been counted and has not stored yet.
- `LettersWritten`, with every worker on Redis, without crashes and failing Redis
  calls (attempts and transactions may fail): every failed job has its letter or
  a worker about to append it. With `LettersOnce` the list is the failed jobs,
  each once.
- `NoneAbandoned`, without crashes and failing transactions, on any backends: a
  job in `processing` belongs to a worker that is attempting it. The run `crash`
  shows what one crash does; attempts and Redis calls may fail at will.
- `KeysBounded`, for finitely many clients, whatever fails: a key has at most one
  job per client. Inductive with `KeyRoom`: the jobs of a key and the clients
  about to insert another together fit. `KeysUnique` is the case of one client,
  `two_clients` shows that two jobs are reached with two.
- `NoLivelock`, on every instance: `ChangesLeft` is a number that every change of
  a row lowers, that is at most `2 * (max_retries + 1)`, and that is 0 just at the
  end. So a job that never ends is one that nobody touches any more,
  which is what the liveness properties are about.

**Chunker (`ChunkerProofs`).** `Chunked` proves the inductive invariant, whose
strengthening `LoopHolds` relates `start` to the end of the last chunk and says
that what has been cut so far is covered. `Covered`, `Advancing` and
`Overlapping` follow. `Windowed` proves the closed form of the result: the loop
keeps `WindowInv`, that the n-th chunk so far is the n-th window and that the
next one begins where `start` is.

**Rate limiter (`RateLimiterProofs`).** `Limited` proves the inductive
invariant. `RequestsHold` says that a clock that was read is not in the future,
from which `RedisRemembers` follows: a counter in use expires no earlier than
its window ends, and until then it is at least the number of requests it
allowed. `MemoryLimited` and `RedisLimited` follow. `TotalLimited` proves
`TotalQuota`, about all counters together: a window allows at most the limit for
each counter that allowed something, however many processes and limiters there
are and whenever Redis fails. No induction over counters is needed: a request is
told by its counter and its number among those of that counter, which maps what
was allowed one-to-one into the product of the counters in use and the numbers up
to the limit. `GlobalLimited` proves the quota that the setting promises, for all
processes together, where all have a Redis that does not fail; without that
assumption TLC finds it violated.

**API (`ApiProofs`).** `ApiSafety` proves `Spec => []IInv`, whose parts are
proved one by one for every step:

- `Conversing`: where a handler is tells what it has written (`Progress`); a row
  belongs to a request that has counted it and the other way round
  (`RowsCounted`, `CountedRows`), from which no row is there twice and answers
  stand after questions; every message has its session.
- `Remembering`: sessions only grow at their end, so that a history that was
  read stays a beginning of its session.
- `ReadsHeld` and `Vouched`: nobody has read more roles than its user had on
  arrival, tables only lose roles, a token claims no more than its login held,
  and a request about to be admitted has been vouched for.
- `Answered`: the knowledge base only grows, so that evidence found later is not
  older (`AnswersGrow`).
- `Accounting`: what is about to be audited is done.

`ShortContext` proves `ContextContinuesWithin`: a history that was read whole ends
with what was said last. `FaithfulContext`, `OrderedAnswers`, `TruthfulAudit`, `MockStaysInside` and
`GroundedAnswers` follow; `OnlyEntitled` proves the action property `Entitled`
from `Vouched`; `ExchangeRefinement` proves that every step is a step of
`ChatExchange` or a stutter (a crash is one `Abandon` of all).

**Processes (`ProcessProofs`).** `ProcessSafety` proves the inductive invariant:
`BuiltSoFar` (what a process has behind it when it is where it is, which others
can only add to), `RowsMapped` (rows refer by the ids that are there, and give a
role nothing but what it is seeded with), `Bootstrapped`, `Losses` (what a
process has lost a race for is there) and `LateJobs`. `CompleteWhenOpen`,
`AdminInPlace` (for processes that name an administrator), `ReferencesHold` and `OneBatchMore` follow, and `LostOnce`, the
action property `NeverTwice`. `BootstrapLasts` proves `NothingUndone`: a database
that is complete stays so, and its administrator stays one, whatever starts,
fails and dies afterwards. `NeverMoreRights` proves that a seed that was
interrupted anywhere leaves a role with fewer rights than it should have, never
with more.

Only model-checked: the liveness properties `QueuedIsClaimed`, `EveryJobEnds`
and `StartsEventually`, since the prover does not reach liveness under
fairness. Every other property of the passing runs is also proved, some of them
under the assumptions named above. The other way round, `AttemptsOwned`,
`JobsPerKey`, `ChangesBounded`, `EachChangeCounts`, `GlobalQuota`,
`ContextContinuesWithin` and `LeastPrivilege` are proved and no
run of their own repeats them, and of `BackoffRespected` the runs show the
counterexample, the theorem the case in which it holds; each is stated beside its theorem
(`ContextContinuesWithin` in `ApiProperties`).

## 10. What was found

Each is a run that TLC ends with a counterexample, and a finding in
`PROJECT.json` that quotes what the repository says.

1. `crash`: nothing ever resets a row left in `processing`; a worker that dies
   during an attempt strands its job.
2. `two_clients`: the lookup of an idempotency key and the insert are separate
   transactions and no index is unique; two concurrent requests create two jobs.
3. `early_claim`: an id left over in the ready list makes `claim_job_by_id`
   start a retry before its backoff is over.
4. `orphan`: when the push to Redis fails after the row was committed, no worker
   is led to the job, and a repeated request with its key does not push it.
5. `long_session`: `get_messages` returns the oldest 200 messages and the agent
   takes the last eight of those, so that the context of a longer session never
   moves on.

Not findings, but worth knowing. The quota of the rate limiter is one per
counter: two first requests of a process build a limiter each, every process has
a memory of its own, and a Redis call that raises may have counted, so that a
subject can be allowed more than `rate_limit_per_minute` by several counters
together, up to the bound of `TotalQuota`. A question whose answer raises stays in its session without one, and
is part of the context of the next. A request that was done but not audited is
answered with 500, and a client that repeats it does it twice. A process that
loses the race for a column fails its start once. A token keeps the roles of
its login until it expires.

## 11. What is not modelled

- *Request context* (`app/core/request_context.py`): read for log lines, spans,
  audit columns and the default trace id of a job, never by a decision.
- *Observability* (`app/observability/`, `app/core/logging.py`): counters under
  one lock that only the metrics endpoint reads back; spans and log lines are
  output.
- *Settings, schemas, CLI, extractors*: they parse and print. What the control
  depends on is a constant (`settings`, `RetryLimits`, `blank`).
- *Similarity search and embeddings* are numerical: a search is abstracted to
  the source it hits. The language model, Tavily, Pinecone and the web framework
  are external: they answer or raise.
- *Validation and regression scripts* drive the system from outside, and are
  about a third of the lines that the models leave out.

What could be added: the worker's thread and the steps of `IngestionService` in
one model, so that a stop during an attempt is seen on the row; the loss of
single writes in Redis (an `RPUSH` that was executed and reported as failed is
covered by a crash after it, a Redis that forgets is not); proofs of liveness,
when the prover reaches them.
