# Rivalyze backend: formal models

Rivalyze analyses the competitors of a company, or of a startup idea. A run has two phases. Phase 1
discovers rivals and parks at a human gate; the rivals a user confirms are then analysed by agents
(news, product, review, merge, strategist) and a report is stored. A company can later be refreshed,
which analyses the confirmed rivals again. This directory holds TLA+ models of that system, TLC
configurations that check them, and TLAPS proofs about them.

All line numbers are those of the repository at the modelled commit; paths are relative to its
`src/` directory as PROJECT.json names it.

## 1. Inventory

| Component | State it keeps | Operations | What is hard |
|---|---|---|---|
| Run lifecycle and human gate (`core/lifecycle.py`, `api/routes.py`, `api/companies_routes.py`, `db/repository.py`) | tables runs, competitors, reports; one background task per request | analyze, confirm, refresh, the two tasks, `fail_run` | a restart between any two statements; two confirms at once; a task that fails after the next one has started; acknowledgements lost after the commit |
| Company identity (`repository.create_company`, `set_run_company`, `get_run_company`) | table companies, shared by all runs of a slug, two unique indexes | upsert, rename, read back across the gate | the name travels through a row other requests rename |
| LLM router (`core/llm_router.py`, `core/counters.py`) | daily counters in Redis; per call: lane, key, attempt | `complete` | three nested retry loops; a budget read before and counted after; Redis going away |
| Analysis graph (`core/orchestrator.py`, `core/merge.py`, `agents/strategist.py`) | graph state, tables evidence, signals, reports | fan-out, merge, synthesis, validation and repair, boundaries | branches end in any order; a boundary that itself raises; short random ids shared by all runs |
| Search chain and caches (`core/search_chain.py`, `core/cache.py`, `core/intel_cache.py`) | Redis or Upstash, table search_cache | two-layer get and set, provider rotation, cached gathering | layers that expire apart, two stacked caches, stampedes |
| Gathering agents (`agents/news.py`, `product.py`, `review.py`) | none of their own | search, extract, ground | what they do when search or model fail |
| Discovery and idea pre-step (`agents/discovery.py`, `agents/idea.py`) | competitors rows | search, extract, save | the pre-step never raises and always names something |
| Live statistics and event ledger (`lifecycle._emitter`, `_persist_lane_stats`) | run_events, lane_stats, one process-wide counter | count, throttled flush from many threads, last flush of a phase | older snapshot written last; concurrent runs and chats share an unlocked counter; the second phase starts from the row of the first |
| Refresh tokens (`api/auth_routes.py`, `core/refresh_store.py`) | table refresh_tokens | issue, rotate, revoke, revoke all on reuse | three transactions per rotation; a client that retries after a lost answer; a logout or an alarm next to a rotation |
| Authentication and users | table users | signup, login, checks | look up, then insert, decided by a unique index |
| Monitoring delta and history (`core/delta.py`, `api/history_routes.py`) | read only | latest two completed runs, difference, badge | the latest run is the last to finish; runs and signals are read one after the other while runs complete and fail |
| Chat (`core/chat_store.py`, `core/chatbot.py`) | dict of one process behind a lock | create, event, finish, get; look up, ask, search, ask again | copies that share a list with the task; a label that several steps decide; process restart |
| Export (`core/export.py`) | cached markdown in the report row | look up the cited evidence, render, write back | cited ids are looked up without the run, and runs may draw the same ids |
| Report numbers (`core/confidence.py`, `stats.py`, `grounding.py`) | none | pure functions | boundaries of clamps |
| In-memory store, connection pool, configuration, models, scripts | see PROJECT.json | | |

How they interact: routes call the lifecycle, which queues a background task in the same process;
the tasks call the orchestrator, which calls agents in a thread pool; agents call the search chain
and the router, which call caches and counters; every one of them writes events to PostgreSQL, so
that any of those writes may raise in the middle of any of them. Runs share the company row, the
evidence table, the caches, the counters and the lanes; nothing else.

What makes each component correct is stated as properties in section 4. PROJECT.json lists every
hazard we found in the code at its line, with the properties that cover it, or the reason why none
does yet.

## 2. Modules

| Module | Models | Checked by |
|---|---|---|
| `RunLifecycle` | requests and tasks around a run | `lifecycle_faults` |
| `HumanGate` | abstract: what the two phases promise | as property `ImplementsHumanGate` of `RunLifecycle` |
| `CompanyIdentity` | the name a run works under, through the shared row | `identity_shared`, `claim_idea` |
| `LLMRouter` | `complete` of concurrent threads, budgets in Redis | `router_calls` |
| `AnalysisGraph` | graph, merge, strategist, validation, stored report | `graph_faults`, `graph_shared`, `claim_visible` |
| `SearchCache` | intel cache, agents, search cache, providers | `cache_layers` |
| `RefreshTokens` | accounts, and the tokens of their sessions | `refresh_tokens` |
| `LaneStats` | the live counters of a run, from pool threads to the row | `lane_stats` |
| `ChatStore` | chats: the dict, the task, the poll | `chat_polls` |
| `Monitor` | the delta and the badge, read while runs finish | `monitor_readers` |
| `MC...` | constants of the runs | |
| `...Proofs` | theorems of the module they are named after | |
| `SharedServicesProofs` | theorems of LLMRouter and RefreshTokens, the two services that all runs and all clients share | |

### RunLifecycle

A request is a process: its handler runs, then the background task it queued (FastAPI
`BackgroundTasks`), so one program counter `pc` walks through both. Each database call is one
action; it may return, raise before its effect, or raise after it with the acknowledgement lost
(operator `Write`). The sites of `pc` are the calls of `start_run`, `start_discovery`, `confirm`,
`refresh_company` and `start_analysis`; where control goes when a call raises is the code's: calls
inside the `try` block of a task go to `fail_run`, the others (`_emitter`, the handlers) end the
request. `Restart` kills every request in flight. `runs`, `rivals` and `report` are the tables;
`approved` and `launches` are history, and so is `escaped`, the
call whose exception left the request. The agents are one step here: AnalysisGraph opens it.

Abstracted: the `runs` row keeps status, whether `error` is set, and the order of `finished_at`;
all runs belong to one company; the lane statistics and the events are calls that may fail;
`create_company` is in CompanyIdentity; the reads of a refresh are one
step that does not raise, since a read that raises changes nothing. A confirm posts at least one rival, as `ConfirmRequest` does.

### CompanyIdentity

`name` is the table companies by slug. `CreateCompany` is the upsert, renaming the row of the slug;
`Taken` the unique index on `lower(name)`, which makes an insert or an update raise;
`Discover` the end of phase 1, which stores the name an idea resolved to; `Refresh` a run of the
company of a completed run; `Frame` the read of `get_run_company` in phase 2; `SaveReport` stamps
the report. Slug and lower case are constants (functions on names), any functions at all in the
proofs. A company works under the name it was posted with, an idea under any company name, or, when the
model echoes it, under the idea. What the run lifecycle decides (who may confirm, what fails) is left out:
a run may pass the gate, and may fail at any stage.

### LLMRouter

`Start` filters the lanes by their budgets once, with the fallback to all configured lanes when
every one is spent; `Send` is the event, the increment and the request; what comes back is
`Answered`, `ClientError` (next key), `ServerError` (same key again, then the next), `Unusable` (next
lane). `NextKey` and `NextLane` are the three nested loops. `Count` and `Counted` are `counter_get` and
`counter_incr`, which give 0 and nothing while Redis is away; `Midnight` renames the counters.

Abstracted: answers are good or unusable; the JSON repair belongs to that decision. `MOCK_MODE` is
left out: it answers at once.

### AnalysisGraph

The three gathering branches return a subset of `Intel` or degrade, in any order; `Join` waits for
the last; `Fuse` gives each source of one result a random unused id of the run, the index entry, and the row
(`INSERT ... ON CONFLICT DO NOTHING`) unless the write fails; `Synthesise` returns a report that cites
any ids the model likes, cleaned by `CleanCited`; `Accept` and `Repair` are validate with its one
repair; `Escape` is an event write of a boundary, which sits outside its `try` block;
`OuterBoundary` is the `except` block of `run_analysis`; `SaveReport` stores the report or the shell.
`Drawer` and `Exported` are the two readers of the ids a stored report cites.

Abstracted: one result is fused at a time, and its writes are one step (nothing else in the run sees the
difference, and rows of other runs only meet it through `ON CONFLICT`); ids drawn by one run differ
from each other (a hundred draws out of four billion), ids of different runs need not; texts,
confidences, statistics and verdicts are not in the model.

### SearchCache

A gatherer is an agent of some run about one rival. `Gather` starts it at the intel cache, `ReadHot`
and `ReadCold` are `cache_get`, `WriteHot` and `WriteCold` `cache_set`, for both entries; `Pages`,
`NoPages`, `Refused`, `Barren` and `Scrape` are the chain of providers and keys; `Extract` turns pages into
intel; `SearchRaises` and `AgentRaises` are the exceptions. `Count` stands where the code counts a paid answer, which is before it looks at the
results: `bought` counts those with pages, `late` all of them while there is a row; both end with the first failing call of a layer. Items carry the day their pages were fetched and the
day they were made, which is all the properties need.

Abstracted: one query per agent stands for the three or four it asks, which have entries of their own; days pass
only between gatherings, since every request has a timeout; the credit counters themselves, which
nothing in the chain reads, and `MOCK_MODE` are left out.

### RefreshTokens

A request walks through its handler; each call to the database is an action that takes effect and
returns, takes effect and raises, or raises (`Writes`). `Signup` and `Create` are the look-up and the
insert of `signup`, `ReadToken` the tests of `refresh` in their order, `RevokeAll`, `Rotate` and `Store` its
three transactions, `Answer` the reply, which may be lost: only a token in `held` reached a client and can
be presented. A token is named by the request that issues it, because a request issues at most one.

Abstracted: a token is random and never guessed, so an unknown one is `None`; passwords are right; access
tokens are stateless. `late` and `wiped` are history.

### LaneStats

The two tasks of a run begin (`Begin`: what the row holds, and the process counter), and end with `Persist`
or `FailTask`. A pool thread makes a call or a search; `ReadTotal` and `WriteTotal` are the two halves of
`stats["searches"] += 1`; `Tell` is the event, `Count` what `emit` does under its lock, `Gate` the throttle and
the snapshot under the lock again, `WriteSnapshot` the write outside it. `Idle` is the executor, which joins its
threads before a phase goes on. Chats search through the same counter.

Abstracted: the calls of all lanes are one count, `cache_hits` is counted as `searches` is, and counters that are assigned once are
left out. The other runs of the process look to a run as chats do: as searches it did not make.

### ChatStore

`Post` creates the record and queues the task; `LookUp`, `AskStored`, `StartQuery`, `EndQuery`, `Join`,
`AskLive` and `Close` are `_run` with what it calls; `FailChat` is the `except` block of `start_chat`. `Poll`
is the copy under the lock, `Render` the response made of it later, with the events of the shared list. `Restart`
empties the dict.

Abstracted: an answer is its source and its citations; events are counted; an answer of the model is
usable or not, so that the texts which stand in for a missing one are answers like others.

### Monitor

`Start`, `SaveSignal`, `BeginFinish`, `CommitFinish` and `FailRun` are what the table of runs and the table of signals see of
an analysis; `finished_at` is the `now()` of a transaction, which commits later than it began. `LateFail` is the closing event
of discovery that fails (section 5). A client reads the history (`ReadHistory`, `CheckRow`) or opens the delta
(`Open`, `ReadRuns`); both then read the signals of the run before and of the latest run, in transactions of their own.

Abstracted: one company; the agent, the rival and the type of a signal are in its headline, and
`Key` is `normalize_headline`, any function.

## 3. Runs and bounds

Every passing run is exhaustive. Deadlock checking is off throughout, because each model may
come to rest: all requests answered, all runs ended, the day over.

| Run | Instance | Why it is enough |
|---|---|---|
| `lifecycle_faults` | one analyze, two confirms, one refresh, two rivals, any two failing calls, one restart | two confirms race for a gate, or one follows the failure of the other; the refresh reads a run that is being confirmed, analysed or failed; two faults fail a call and the handler of its failure |
| `identity_shared` | three runs over six names: two that differ by case, a third with the same slug, an idea of that slug, an idea that resolves to any of the names, the default name | two runs conflict over a row or an index, the third refreshes or is analysed meanwhile |
| `claim_idea` | two ideas, and the default name as the only name they resolve to | a smallest counterexample is enough |
| `router_calls` | two threads, one call each, three lanes with two, no and one key, two attempts, counters that start anywhere up to their cap, one failing event | the calls a thread made before are in the initial counters; the second thread is any call already under way |
| `graph_faults` | one run, one result per branch with one, two and no sources, three ids, two failing calls | a fault in the graph and one in the boundary around it |
| `graph_shared` | two runs, two results, two ids, one failing call | ids are scarce, so that both runs draw the same ones |
| `claim_visible` | the first instance without failing calls | as above |
| `cache_layers` | two gatherers, days 0 to 5, two days in Redis, three in the table, two providers with two and one keys, one failing call | entries expire in Redis before they do in the table, and both twice over |
| `refresh_tokens` | five requests, two users | a sign-up, a login and a race of two rotations with a third request that retries, logs out or belongs to the other user |
| `lane_stats` | one run with two pool threads, a thread that searches for chats (twice), three calls or searches, three moments, one restart | two snapshots overtake each other, two increments are lost to each other, both phases search, and somebody else searches before, between and during them |
| `chat_polls` | one chat, two pieces of evidence, its two queries, one restart | chats share nothing but the lock of their dict |
| `monitor_readers` | two runs of a user, a refresh, three headlines of which two have one key | the two runs compared, and a third that completes or fails between any two reads |

`MaxFaults`, `MaxCrashes`, `MaxCalls`, `MaxUsed`, `MaxClock`, `MaxWork`, `MaxOthers` and `LastDay` are bounds of the models, not of the
code, and each is named and commented where it is declared. `MaxUsed` is the value at which the
counters of the router stop; the instance reaches it (one, and four sends of each of two calls) but never exceeds it.
Symmetry is used in `refresh_tokens` (requests, users), `lane_stats` (the threads of the run), `chat_polls` (evidence)
and `monitor_readers` (the runs of the user, the spellings of one headline): these runs check invariants only, and
nothing in their modules or constants tells the permuted values apart.

## 4. What is checked

**RunLifecycle.** `LaunchedAtMostOnce`: the agents of a run are launched at most once.
`AnalysedListIsApproved`: what is analysed and reported is the approved list. `ApprovalsAreHuman`: a
refresh never invents a list. `CompletedHasReport`: the order of `save_report` and `finish_run`
holds through failures. `PhaseNeverRewinds`: discovery, which closes after the gate is open, never
takes the status back. `ImplementsHumanGate`: all of it refines `HumanGate`.
`InProgressHasWorker`, `RunsSettle`: a run in progress is worked on and settles, unless its process was killed or a
call outside every `try` block raised (a query of a handler, of `_emitter`, or `fail_run` itself: the set `Unguarded`); the exceptions
of the tasks themselves always settle it.

**CompanyIdentity.** `ReportsStayWithTheirCompany`, `SpellingsKeepTheirSlug` and
`IdentityPassesTheGate`: what the shared row may do to the name on a report, and what it may not.

**LLMRouter.** `EveryKeyHasItsChance`: one refused key does not poison the others.
`OvershootIsBounded`: a cap is exceeded only by calls under way, as long as Redis answers and some lane is under its cap. `CallsEnd`.

**AnalysisGraph.** `CitationsLeadToTheirSource`: a stored report cites only ids of its own run, and the drawer
(`GET /evidence-refs`) shows the source the report cites or nothing, even when another run drew the same id. The export
does not ask for the run: there an id may lead to the source of the other run, and the property says that it is then
what that run found under the id, unless its merge failed. It does not notice a row that could not be inserted, for which the drawer is empty (section 5).
`RowsAreNeverTaken`, `EverySourceIsFused`, `DebrisIsNeverSaved`, `AnalysesEnd`.

**SearchCache.** `StalenessIsBounded`: the stacked caches add up their lives and no more.
`StampedeIsBounded`, while the layers of the cache work: each concurrent gatherer buys the pages of a search
at most once before their row is stale; and once the row is there only the gatherers that were already asking still pay, each provider at most
once. Nothing bounds what is paid before that for answers without pages (`NoPages`): they count against the budget of the day, are not cached, and
the next provider is paid as well. `GatheringsEnd`.

**RefreshTokens.** `ParentsAreRevoked`: whatever raises between the three transactions of a rotation, a token and its
predecessor are never both good; two refreshes of one token that overlap may leave two good successors. `AlarmsHaveACause`: reuse is detected only when a token was presented twice (an honest client
that retries after a lost answer does that), or after such an alarm of the same user. `RevokedMeansOver`: a token that was revoked when it was presented
has no successor; two rotations that were both under way may each have one, which section 5 tells.

**LaneStats.** `CallsAreCounted`: snapshots thrown away, delayed and overtaken leave no trace in the counts a phase ends with,
across both phases. `SoloRunsNeverOvercount`: the difference of the process counter, whose increments are lost at times and
which starts at zero after a restart, is never more than a run's own searches, nor negative, unless somebody else searched meanwhile.

**ChatStore.** `PollsAreWhole`: a poll that shows a settled chat shows its answer and every event up to it, although
record and events are read at two moments. `AnswersAreGrounded`: source, citations, analysis and searches agree.

**Monitor.** `DeltaIsWhatIsNew`: the four reads of a delta are as good as one, because signals are saved before their run is
completed. `BadgesLeadToNews`: the history and the delta, which compute the same comparison apart, agree unless a run came between.

For each property of each passing run PROJECT.json names a mutant of a modelled definition, a
plausible bug in that code, which makes TLC find the property violated; the mutants stand in the
modules, marked as such, before the definition they replace.

### Fairness

- `WF(Continue(q))` (RunLifecycle): once a request has arrived, a thread of Starlette's pool runs
  its handler and then its task to the end; the database calls return or raise. Arrivals and
  restarts are not fair.
- `WF(Step(r))` (AnalysisGraph): LangGraph keeps scheduling the nodes of a graph, and a node
  returns because the calls below it do.
- `WF(Step(c))` (LLMRouter) and `WF(Step(g))` (SearchCache): every HTTP request, Redis call and
  statement has a timeout, so that a call which was sent comes back in one of the modelled ways. Which way is not
  fair: the properties hold whichever it is.

## 5. Disagreements between code and documentation

Each of these is a run that TLC refutes; PROJECT.json quotes the lines.

1. `claim_idea`: the second idea that takes the default name breaks the unique index on names, and its run
   fails ("persists the resolved identity").
2. `claim_visible`: a gathering agent that raised is not in the stored report ("visible in the report").

Met while reading, and not checked by a run:

- `docs/PRODUCTION_READINESS.md:149`: a restart loses nothing; nothing resumes the task of a run (`lifecycle.py:189`). The
  actions `Restart` of RunLifecycle and the word *killed* in its `RunsSettle` are about that.
- `lifecycle.py:258-260`: a failing event must not flip a completed run to failed; the closing event of discovery (220) is
  written after the gate is open and does, when it fails late. It is the action `LateFail` of Monitor.
- `intel_cache.py:17`: intel is at most `COMPETITOR_INTEL_TTL` old; `cache_get` falls back to rows that are kept seven days
  (`cache.py:92`, `repository.py:734`). `StalenessIsBounded` has the bound that holds.
- `models.py:357-360` and `history_routes.py:51-53`: the newest row of a company has the badge when its latest run found something new; a
  refresh has no owner (`companies_routes.py:81`), so it is in nobody's history and takes the badge from the row below it.
- `auth_routes.py:94`: rotation does not ask whether the row was still good (`refresh_store.py:41-45`), so two requests with one token
  that overlap both succeed, where one after the other is an alarm.
- `auth_routes.py:84`: an alarm revokes every token of the user; a login or a rotation that is past its checks stores a good one afterwards.
- `chatbot.py:218`: an answer from the stored analysis alone, after a search in vain, has no note on its age, which 204 adds to others.
- `lifecycle.py:10-12`: exceptions become `failed`; the calls of `_emitter` (199, 231) are outside the `try` blocks.
- `schema.sql:49`: `error` is set only when failed; `finish_run` (`repository.py:325`) leaves it set on a
  run that fails late and then completes.
- `repository.py:354-355`: one caller of `confirm_run` launches phase 2; when
  `replace_competitors` raises (`routes.py:116`) nobody does, and every retry gets 409.
- `repository.py:467-469` and `BACKEND.md:209-210`: the report names the company, not the idea; the same idea
  posted again while the first run waits at the gate renames the shared row to the sentence.
- `repository.py:249`: the upsert returns an existing id; it raises when an idea has given another row that name.
- `llm_router.py:15-16, 332-333`: a cap never empties a call; spent lanes are dropped whenever one is left (357), even when that one then fails.
- `llm_router.py:12-14`: the budget is checked before a lane is tried; it is checked for all lanes when the call starts (357), so a
  lane that is spent during the call is tried all the same. `OvershootIsBounded` says by how much that matters.
- `companies_routes.py:59-60`: a refresh compares like for like; the latest run is the last to finish (71).
- `README.md:4` and `docs/data_dictionary.md:11`: every claim has evidence, no citation dangles; a claim whose row could not be inserted
  (`merge.py:107-110`) cites an id without one.
- The same lines, and `docs/BACKEND.md:151` of the drawer, "filtered to the run": the export (`history_routes.py:96`) looks the cited ids up in the whole table
  (`repository.py:550-573`), so when two runs drew the same id it prints the source of the one that stored it first.
- `orchestrator.py:393`: `run_analysis` never raises; its `except` block writes an event (401).
- `strategist.py:9-10`: an item whose citations are all unknown is dropped; `_clean_cited` (302-333) keeps it, without them.
- `review.py:132`: the company frames the gaps; the intel cache (`intel_cache.py:31`) has no company in its key.

## 6. What is proved

The theorems hold for every value of the constants that satisfies the named assumptions:
any sets of requests, runs, names, results, ids, gatherers, lanes, keys and evidence, and any number of failures.
The assumptions are named in the modules that declare the constants: null values differ from data; kinds of requests are
disjoint; functions have their domains; bounds are naturals; the caps of `budgets.json`, the attempts per lane, the throttle of the
flushes and the age a row is kept are positive, as they are in the code; news without sources is low signal (`news.py`); and the
threads of a process, the gatherers and the callers are finite sets, which the theorems that count them need.

Every type invariant, safety invariant and action property of a passing run is the statement of a theorem, and so is the
refinement of HumanGate. Each inductive invariant was first checked by TLC on the instance of the module's main run. They
are defined, in named parts, beside the model or, where they speak only of a proof, in the module of the proofs.

**RunLifecycleProofs.** `TypeCorrect`; `CompletedRunsHaveReports` from `ReportInv`, which adds that a
task about to finish has stored its report; `AgentsLaunchAtMostOnce` from `GateInv`: a run has at
most one winning confirm, and once it has one the task of discovery can write no early status, so the gate
cannot open again; `ApprovedListsAreAnalysed` and `UsersPickTheRivals` from `ListInv`: the approved
list is fixed once, travels in the winner's local state to the table, and a task works on what its run has
stored. All rest on `SitesInv`, which keeps each kind of request in its own part of the program.
`RunsInProgressAreAttended` from `WorkerInv` and `EscapesInv` (what leaves a request by an exception was raised at one of the `Unguarded` calls): for every run in progress there is a request answerable for it, which works on it or
was lost on the way; the request that only announces the end of discovery does not count, for the gate has opened behind it.
`RunsAreAnalysedByOne`, mutual exclusion, from `SitesInv` and `GateInv`: the swap of `confirm_run` is the only lock on a run, and it is enough.

`PhasesNeverRewind`, an action property, from `PhaseInv`: the tasks write the
status without looking at it, and this says what they find there. Another request writes the row of a run
only after winning its gate, when discovery is past its own writes (`GateInv`), and a run has one worker, so
nothing completes it before its analysis begins. `LifecycleImplementsGate`, the refinement of
`HumanGate`: a winning `Confirm` is `Approve`, `CreateRefreshRun` is `Inherit`, `ReplaceAndLaunch`
is `Launch`, `SaveReport` is `Publish`, and every other step, a lost statement included, stutters. The
guards of the abstract actions come from `ListInv` (nothing approved yet), `GateInv` (nothing launched
yet) and `TaskInv` (nothing published before the save, and a refresh holds the list of a reported run).

**CompanyIdentityProofs.** `TypeCorrect`; `ReportsStay`, `SpellingsKeep`, `IdentityPasses`. The
invariant is `ProgressInv` (which names are set at which stage), `NamesInv` (a name in the row of a
slug, or in a task of its runs, was brought to it by a run posted to that slug) and `LoneInv` (what
the only run posted to a slug brought is still in the row). The properties speak of reports only,
and a report comes from a task that read the row long before: hence the two other parts.

**AnalysisGraphProofs.** `TypeCorrect`; `CitationsAreHonest` from `StagesInv` (nothing cites before
merge is over), `CitesInv` (reports cite the index of their run) and `RowsInv` (a row agrees with the index
of the run that owns it, or the index was lost when merge failed); `RowsAreImmutable`, an action property.
`SourcesReachTheStrategist` from `FusedInv`: merge starts after the last branch and works off what the branches found; whatever is no longer on its list is in the index, and where the
index is lost the findings say so. `DebrisIsDropped` from `SoundInv`: what leaves validate has passed the checks, and the outer
boundary drops the rest.

**SearchCacheProofs.** `TypeCorrect`; `AgesAreBounded` from `AgesInv`: an entry is never kept in a
layer longer than from the day its item was made, and an item is written on the day it is made.
`StampedesAreBounded` from `PaidInv`: as long as there is no row, whoever has bought pages is about to write it (`BoughtInv`); once there is one, only the gatherers that already ask
may still pay, and each the providers it has not asked yet (`Pending`, in `LateInv`). Both are comparisons of a count with the cardinality of a finite
set, out of which every answer takes its own element.

**LaneStatsProofs.** `TypeCorrect`, and the two counts from `CountersInv`. `CallsInv`: a call that was told
is counted, or its thread stands between the event and the lock, so that the counter and the number of such threads make up the calls;
no snapshot is ahead of them. `SearchesInv`: what a phase without strangers adds to the process counter is its own, and a thread which has
read the counter and not yet written it has one search more to show. The theorems are `PhasesEndExactly` and `SoloRunsAreModest`.

**ChatStoreProofs.** `TypeCorrect`, `PollsShowOneMoment` and `AnswersSayTheirSource` from `ChatInv`: a chat has nothing to show but its events
until it is settled, and then all events that were said (`SettledInv`, where the copy of a poll is the fresh record or the settled one);
queries run only while the task waits for them, and it asks the stored analysis only for a question that is not about now (`AskedInv`).

**MonitorProofs.** `DeltasAreDifferences` and `BadgesAreKept` from `MonitorInv`. `StampInv` gives runs distinct stamps that are no
later than the clock, so that the two newest completed runs are determined and a run which completes later is newer;
`RunInv` makes the signals of a completed run final; `PairInv`, `SawInv` and `RowInv` say of each reader
that what it has read of those runs is what the table still has. `SettledRunsAreFinal`, an action property, is the reason why that can be.

**SharedServicesProofs**, the router: `RouterTypeCorrect`; `NoKeyIsLeftOut` from `SentInv`: every key behind the position of a
call on its lane was sent, and a lane was left only with all its keys behind it or for an answer which says nothing of keys.
`BudgetsAreNearlyKept` from `BudgetInv`: the counter of a budget and the attempts which calls admitted below the cap still have before them
together stay below the limit. The attempts ahead are a set of places (`Pending`), every send takes its own place out of it, and
the loops only ever move past places; so its cardinality pays for the increments to come. That the lane the
loop goes to is the first of the rest (`Min`) rests on the well-foundedness of the naturals.

**SharedServicesProofs**, the tokens: `TokensTypeCorrect`, `PredecessorsAreRevoked`, `AlarmsAreJustified`, `RevocationIsFinal` from `SessionsInv`: a request
has no token before it stores one (`RequestsInv`); what it presented is revoked before that (`ShownInv`); whoever revoked a token
was shown it, or wiped those of its user, and is past that (`CausesInv`); a request that came too late is on none of the ways to a
token (`LateInv`). `RevocationIsPermanent`, an action property, has no part of its own: every effect on the table, found in
`TokenEffects`, keeps what is revoked. Definitions of RefreshTokens whose name the router has too carry the prefix RT.

Only model-checked: liveness (`RunsSettle`, `CallsEnd`, `AnalysesEnd`, `GatheringsEnd`) and anything
that needs ENABLED, which the prover does not handle. The runs `claim_idea` and `claim_visible` refute their properties, so there is nothing to prove of them.

## 7. Not modelled

- Texts: prompts, extraction, grounding, sanitising, rendering. No property here depends on them.
- Numbers of a report: candidates for operators checked against a reference definition (plan).
- The in-memory store: no route reaches it, since every route that creates a run needs PostgreSQL.
- Export, beyond the rows it finds for cited ids (`Exported` of AnalysisGraph): rendering is layout, and a report is saved once per run, before the
  poller has its run_id, so that nothing changes it while the cached markdown is rendered and written back.
- The connection pool: two first requests may each build one (`connection.py:46`), which costs connections and changes no result.
- Authentication beyond accounts and refresh tokens, rate limits, health, configuration, scripts: single checks and wiring.
- The one-pass `run_pipeline`, which no route calls.

## 8. Plan

Done: RunLifecycle with HumanGate, LLMRouter, AnalysisGraph, SearchCache, CompanyIdentity, RefreshTokens, LaneStats,
ChatStore, Monitor.

Next modules, in order:

1. SearchCache with several companies and outages (the two open hazards of the intel cache).
2. An abstract specification of a session (a tree of tokens per login, an alarm ends what it finds) that RefreshTokens implements.
3. Report numbers: confidence, statistics and thresholds as operators against reference definitions.

Compositions: CompanyIdentity under RunLifecycle (which runs can be refreshed or confirmed when a row
is renamed); AnalysisGraph as the refinement of the step `RunAgents` of RunLifecycle.

Theorems: those of the modules and compositions above, as they come; those of the modules that stand are in section 6.
