# A TLA+ model of the app-review analysis service

The repository is a FastAPI service that stores uploaded app reviews for a
retention period, summarises them, has a language model write insights about a
filtered scope of them, and answers questions through a tool-calling agent. A
React page is its client. This directory models the parts whose correctness
depends on the order in which things happen.

Line numbers below are of `src/`. `backend/services` is abbreviated `services`.

## 1. Inventory

| Component | State it keeps | Operations | Hard behaviours |
|---|---|---|---|
| Insight lock (`services/cache_service.py` 195-287) | one key per dataset and scope, holding a token, with a TTL | `hold`, `__exit__`, expiry, sweep by `invalidate_dataset` | release = WATCH, GET, MULTI, DEL, EXEC with others in between; Redis errors on every call; TTL shorter than the work |
| Insight generation (`services/ai_service.py`) | none of its own: a request's progress | `generate`, `_wait_for_generation` | many requests for one scope; model call of up to a minute between a read and a write; waiting for a holder that may die |
| Insight store (`services/sqlalchemy_insight_store.py`) | insight rows, UNIQUE(fingerprint), foreign key to the dataset | `get_by_fingerprint`, `upsert_fingerprint`, `refresh_expired`, `resolve`, `delete_dataset`, `cleanup_expired` | insert conflicts, rows that vanish between two transactions |
| Dataset store (`services/sqlalchemy_dataset_store.py`) | dataset rows with an expiry, reviews | `create`, `get`, `delete`, `cleanup_expired` | expiry against requests under way |
| In-memory stores (`services/dataset_service.py`, `services/insight_store.py`) | the same in dictionaries, with an index of fingerprints | the same | no foreign key: rows and index may drift apart |
| Deletion and cleanup (`routers/datasets.py`, `core/lifecycle.py`) | none | three-step delete, two-step hourly cleanup | each step may be the last before a crash or an error |
| Summary and its cache (`services/analytics_service.py`, `RedisCache`) | summaries keyed by dataset, scope and insight | `build_summary`, `invalidate_dataset` | a late `cache.set` after an invalidation; invalidation in two phases |
| Agent (`backend/agent`, `services/agent_service.py`) | one question's plan, tool calls, evidence | route, plan, execute, synthesise, validate, fall back | the model may return anything, twice, late or not at all |
| Ingestion and analysis (`services/ingestion_service.py`, `visual_analysis.py`, `agent_workflow.py`) | none | rows kept, labels, filters, metrics, distributions, priorities, trend, eight rule workflows, ten tools | one threshold or order written in several places; empty frames, missing values, zero, rounding |
| AI analysis call (`ai_analysis.py`) | none | choice of the reviews shown to the model, request, parsing of the reply | the model returns text |
| Scope signature (`services/repositories.py`) | none | `canonical_filters`, two digests of a dataset | equal for equal scopes and for no others |
| Evaluation of the agent (`evaluation/`) | outcomes and report of one run | validate a question set, run each case, judge, aggregate, gate | a gate that passes although something was not looked at |
| Web page (`web/src`) | dataset, filters, insight, chat, queries in flight | upload, remove, reload, filter, generate, ask, page through reviews | answers that arrive after the state they were asked for has changed |
| Privacy, audit, readiness, migrations, scraper, text-analysis script | none | pure functions, probes, scripts | see section 6 |

Interactions. A request to `POST /insights` reads the dataset store twice, the
insight store, takes the lock (in the cache), reads the insight store again,
calls the model, writes the insight store and releases the lock. `DELETE
/datasets/{id}` deletes the dataset (its rows cascade), its insights, and the
cache entries and lock keys of the dataset. The cleanup loop removes expired
datasets, then expired insights. None of this is one transaction.

What makes the parts correct:

* lock: a release never removes another's entry; a lost release does not block
  a scope for ever; one holder at a time if the TTL outlives the work, and
  otherwise one that is younger than the TTL;
* generation: one row per fingerprint whatever the lock does; no insight without
  its dataset; requests answered while the dataset lives agree; no 500 while it
  lives; every accepted request is answered; nothing of a removed dataset is
  served to a later request, nor does a request under way settle on it; expired
  insights are forgotten;
* summary and agent: the insight of a scope is used for it and for no other; the
  cache never serves a removed dataset to a later request;
* figures: the same figure of the same reviews has one value in the summary, the
  workflows, the tools and the packet for the model; statistics add up, stay on
  their scales and in their bands, and are listed in the order of one ranking; a
  signature stands for one set of reviews;
* agent: cited calls succeeded and numbers come from them; every executed call is
  reported; on replies of the right types both adapters behave alike;
* evaluation: a pass means that every mechanism was looked at and none was broken;
* page: what it shows is of the dataset and the filters on it, no answer rests on an
  insight about other reviews, pages follow each other, and it comes to rest.

## 2. Modules

| Module | Models | Extends |
|---|---|---|
| `InsightLock` | the lock over Redis, `MemoryCache` or `NullCache`, without time | |
| `TimedLock` | the same with the TTL and the longest hold | `InsightLock` |
| `InsightContract` | what `POST /insights` promises: a get-or-create register | |
| `InsightGeneration` | the service, the tables, deletion, cleanup, expiry, restart | `InsightLock` |
| `MemoryStores` | the same over the in-memory stores, beside the tables | `InsightGeneration` |
| `SummaryCache` | `GET /summary` with its cache, and who else resolves an insight | |
| `ControlledAgent` | one question to the agent, with both model adapters | |
| `Evaluation` | the evaluator and its gate over the agent | `ControlledAgent` |
| `Dashboard` | the page: dataset, filters, summary query, insight panel, chat | |
| `ReviewData` | which rows an upload keeps; filters, views, pages (pure operators) | |
| `ReviewPages` | the review pool of the page over `ReviewData` | `ReviewData` |
| `ReviewAnalysis` | figures, workflows, tools, packet and reply (pure operators) | `ReviewData` |
| `ReviewQueries` | the services that compute these figures for one dataset | `ReviewAnalysis` |
| `InsightLockProofs`, `TimedLockProofs`, `SummaryCacheProofs`, `DashboardProofs`, `ReviewPagesProofs`, `ReviewQueriesProofs` | theorems and proofs | the module proved about |
| `InsightGenerationProofs` | the same, of the service, of its contract and of the in-memory stores | `MemoryStores` |
| `ControlledAgentProofs` | the same, of the agent and of the evaluator | `Evaluation` |
| `MCTimedLock`, `MCInsightGeneration`, `MCMemoryStores`, `MCSummaryCache`, `MCControlledAgent`, `MCEvaluation`, `MCDashboard`, `MCReviewPages`, `MCReviewQueries` | values of the constants, symmetry | the module checked |

`InsightGeneration` composes with `InsightLock` by calling its actions (`Hold` is
`Acquire`, `EndLease` is `Release`, `ScanDeleted` and `DropDeleted` are the sweep).
It leaves the clock of `TimedLock` out: its `LockLapses` may happen at any time, which
allows every timing there is. `InsightGeneration`
implements `InsightContract` (property `ImplementsContract`, proved), and
`SummaryCache` uses insights as that contract creates them: its `Generate` is the
contract's `Create`.

### `InsightLock`, `TimedLock`

| TLA+ | Code (`services/cache_service.py`) |
|---|---|
| `entry[k]` | the value of `insight-lock:<dataset>:<scope>`; a token is a fresh uuid, so the request stands for it |
| `lease[r]` | where request `r` is: before `hold`, in its `with` block, between WATCH/GET and EXEC of the release, or through |
| `sweep[d]` | the lock keys that `invalidate_dataset` has scanned and not yet deleted |
| `AcquireFree`, `AcquireTaken`, `AcquireUnlocked` | `SET NX EX`: set, refused, or an error (or `NullCache`), where the code goes on without a lock |
| `Compare`, `Exec`, `ReleaseFails`, `ReleaseLocal`, `Leave` | `__exit__`: WATCH and GET; MULTI, DEL, EXEC; any `RedisError`; `MemoryCache` under its mutex; a lease that was refused |
| `Lapse` | the TTL of an entry runs out |
| `ttl`, `age`, `Tick`, `Restamp` (`TimedLock`) | the TTL given to SET; the time since `hold`, at most that of one model call |

Whatever writes a key turns "matched" transactions on it to "stale", which is
what WATCH does. `struck` is a history variable: it becomes true with the first Redis
error or deletion, and `SingleFlight` and `OneHolderPerTTL` speak of the time before, because
the code chooses to go on without a lock when Redis fails. The code's own numbers are a TTL of 30 s
and holds of up to 60 s and more: `OneHolderPerTTL` is what the lock promises then.

### `InsightGeneration`, `InsightContract`

A step is one transaction, one Redis command or one model call. `pc[r]` is the
next of them; `result[r]` is the HTTP answer of `r`, set where the code computes it
although the lease is released before it goes out.

| TLA+ | Code |
|---|---|
| `GetDataset`, `GetScope`, `Lookup`, `Hold`, `Poll`, `GiveUp`, `Recheck`, `ModelAnswers`, `ModelFails`, `EndLease` | `AiInsightService.generate` and `_wait_for_generation` (`services/ai_service.py`) |
| `Refresh` | `refresh_expired` |
| `CheckDataset`, `Insert`, `Reread` | the two sessions of `upsert_fingerprint`: the dataset check, the commit with its two constraints, and the read after an `IntegrityError` |
| `Upload`, `DeleteDataset`, `DeleteInsights`, `ScanDeleted`, `DropDeleted` | `POST` and `DELETE /datasets` (`routers/datasets.py`) |
| `CleanDatasets`, `CleanInsights`, `CleanupFails` | `cleanup_expired_records` (`core/lifecycle.py`) |
| `Tick`, `LockLapses`, `Restart` | the clock, Redis, the process |

The insight's id is the request that created its row and its payload the request
whose model call made it, so that "the same insight with the same content" can
be said. `InsightContract` has `Open`, `Expire`, `Retire`, `Purge` for datasets and
`Create`, `Reuse` for requests; the refinement mapping maps a stored dataset to
"live" or "expired" by the clock, the insights table to pairs of key and id, and
`result[r].id` to the answer.

### `MemoryStores`

`storage` is the backend chosen at startup. With "database" a step is one of
`InsightGeneration`; with "memory" the steps that touch a store are replaced. Every
method of a store runs under its `RLock`, so that one method is one step:

| TLA+ | Code |
|---|---|
| `MemoryGetDataset`, `MemoryGetScope`, `Dropped` | `get` of the dataset store, which removes a record it finds expired |
| `index`, `Indexed` | `_fingerprints`, which keeps the id of a record that cleanup has removed |
| `MemoryLookup`, `MemoryRecheck`, `MemoryReuse` | `get_by_fingerprint` |
| `MemoryRefresh` | `refresh_expired`: in place, with the retention counted from now; a record that is gone raises a `KeyError`, a 500 |
| `MemoryCreate` | `upsert_fingerprint`: check and insert are one step, and no dataset is asked for |
| `MemoryDeleteDataset`, `MemoryCleanDatasets` | the dataset goes alone, its insights are a step of their own |
| `MemoryRestart` | everything is forgotten; with a process-local lock, the locks too |

There is no foreign key and no UNIQUE constraint: what `NoOrphanInsight` and
`UniqueInsight` say of the tables does not hold here, and `OneFreshInsight` is what
remains. `FreshAnswersAgree` does not hold either: a request whose model call outlasts the
deletion of its dataset and of the insights stores, and is answered, one of its own.

### `SummaryCache`

A reader (`Reader`) makes one request: a summary or a question to the agent, with
or without an insight id. `GetDataset`, `CacheHit`, `CacheMiss`,
`ResolveForSummary`, `Fill` are `AnalyticsService.build_summary`; `GetDataset`,
`GetScope`, `ResolveForAgent` are `AgentService.query`; `Usable` is `resolve` of the
insight stores. `Storage` chooses what the stores do: the database returns no
content hash, cascades and hides insights of expired datasets; the dictionaries
keep the hash and may keep an insight longer than its dataset. A signature is
the digest and the filters it was computed from, so two signatures are equal only
if the same hash function saw the same content. `late` is a history variable: the
readers that came after their dataset expired or was removed.

### `ControlledAgent`

One question, one state of the reviews (`broken`: `prepare_dashboard_data` raises),
and a model that may plan anything in `Plans` and answer anything in `Answers`.
`pc[a]` is the run of `ControlledToolCallingAgent.run` with adapter `a`; both adapters
get the same question and the same replies, `plan` and `reply`. What a planned call is
(`Form`) decides what becomes of it: `Calls` are those that reach the orchestrator, which with LangChain
are not the ones whose arguments are no JSON (the library puts them into
`invalid_tool_calls`); `PlanFails` and `Raises` are the calls that an adapter fails on. `RunUnsupported`,
`RunFastRule` and `AskModel` are the three routes; `PlanTools`, `ExecuteNext`,
`Executed`, `Synthesize` are `_run_tool_calling`; `Accepted` collects the validations
in their order. A text is the set of the numbers in it; `Grounded` looks for them in
the output of successful calls and, as the code does, in the ids of these calls.

### `Evaluation`

A behaviour evaluates one question set: `Load` is `load_questions`, `validate_questions` and the
choice of `--category`; `StartCase` gives the case's question to the agent, whose model
answers what the case says (`AgentStep`; the client is `MockToolClient`); `Record` is
`evaluate_case` with its checks; `Finish` is `compute_metrics`, the thresholds, with the rates
rounded as the code rounds them (`Below`), and the exit code. `todo` has the positions of the cases
that are left, and `Current` is the case at the first. The evaluator's two arms differ in nothing
that can be said of the program: `_LangChainMockAdapter` is a copy of the Direct adapter's methods over
the same mock client, and `LangChainDeepSeekAdapter` is never reached. There is one arm here, that of
the Direct adapter; where the adapters differ is the subject of `ControlledAgent`.

### `Dashboard`

`filters`, `insight` and `dataset` are the React states; `view`, `cached` and
`fetching` are the summary query of TanStack Query with its keys; `own` is the
mutation the insight panel waits for and `orphans` are those of panels that have
left the page (their `onSuccess` still runs). `DropForeign` is the panel's effect.
`asked` and `chat` are the agent panel's: its mutation and its messages, which go
with the panel when the summary is loaded anew (`Forget`), but stay when filters whose
summary is cached are applied. A question goes out with the dataset, the filters, the panel's
choice of filtered or full data and, if the page shows one, the insight (`Question`), and what
the server makes of that (`Accepts`) is modelled, because full data has the signature of the
filters and only the number of reviews tells the two apart. `Storage` is the server's: with the database
`Signature` is of the service that computed it. `Remount` is `key={datasetId}`, `Reload` the browser's: only
the dataset is in the session storage. `StartRemove` and `RemoveSettles` are the two ends of
the removal's mutation. What TanStack Query does on its own (`Collect`) is
modelled from its use and marked external.

### `ReviewData`, `ReviewPages`

`ReviewData` is data flow: `Prepared` (ingestion and preparation of a file's rows),
`Stats` (what the upload reports), `FilterReviews`, `ViewOf`, `Search`, `Summary`. A
frame has rows and a flag for its columns, because pandas loses them when the mask
of no rows is taken as a list of columns. `Selected` and `Sorted` are the selection and the
stable sort of pandas, written over positions (`Taken`) and not recursively, so that one can
reason about them; `Once` only keeps TLC from computing a value twice. `ReviewPages` is `ReviewPool.tsx`: the
view, the offset, the page that stands in while the next is fetched
(`keepPreviousData`), the buttons, and a browser that may be offline, when a fetch
is paused. `ReloadSummary` is an insight that comes or goes: the summary is loaded under
another key, and the pool is taken off the page and starts over. `cut` is a history variable: the
browser has been offline.

### `ReviewAnalysis`, `ReviewQueries`

`ReviewAnalysis` is arithmetic and tables. Ratings are in tenths, averages and
ratios in hundredths, rounded half to even as Python does (`Rounded`): the models are
exact where the code has floats. `HealthMetrics`, `RatingDistribution`,
`SentimentDistribution`, `PriorityTable` and `Trend` are `visual_analysis.py`;
`NegativeAnalysis` to `GeneralAnalysis` the eight workflows of `agent_workflow.py`;
`MetricsTool` and the others `ToolExecutor`; `Packet`, `Returns`, `Parses` and
`Insights` are `ai_analysis.py`. A text is the set of its words, so that of keyword
scores there remains which words occur and how many are listed.

`ReviewQueries` is one session over one file: `BuildSummary`, `QueryAgent` and
`GenerateInsight` compute what the three services answer and put it into `answers` as
pairs of a figure and its value (for instance `<<"risk">>`), with the reviews it is about
and the signature it carries. Two answers that name the same figure can then be
compared, whichever service, workflow or tool computed it. `RankedGroups` is the table of
priorities before it is cut to its first rows, of which there are different numbers; groups of one
score are in the order of their names, as `groupby` has them, which is the constant `GroupOrder`. `Canonical` is
`canonical_filters`; `Signature` pairs it with the digest of the service.

## 3. Runs

Every run bounds what users may do and what the environment may do, never the
order of it. Deadlock is not checked in any: every model ends when all
requests are answered and the bounds are used up.

| Run | Instance | States | What it shows |
|---|---|---|---|
| `TimedLock_lapses` | Redis; three contenders for one key; TTL 2, hold at most 3 | 15,159 | `OneHolderPerTTL` until the first fault; `TokenSafe` whatever fails; `NoLeakedEntry` |
| `TimedLock_code` | TTL 1, hold 2, in units of 30 s | | **violated**: `SingleFlight` with the code's 30 s and 60 s |
| `InsightGeneration_race` | Redis; three requests, one scope; clock to day 1, retention of a day; one restart | 804,737 | `NoOrphanInsight`, `FreshAnswersAgree`, `LiveNeverFails`, `OnlyStoredIsServed`, `ImplementsContract` |
| `MemoryStores_live` | both storages; process-local lock; two requests for one scope; clock to day 1, retention of a day; one restart | 87,414 | `LiveNeverFails`, `OneFreshInsight`, `Answered`, `NothingServedAfterRemoval`, `ExpiredForgotten` |
| `SummaryCache_reads` | dictionaries and Redis; four readers; two datasets with the same reviews | 327,682 | `InsightIsUsed`, `ShownIsOwn`, `NothingServedAfterRemoval`, `CacheForgets` |
| `SummaryCache_database` | the database; two readers | | **violated**: `InsightIsUsed` |
| `ControlledAgent_replies` | both adapters; every question the rules answer and one for the model, up to three planned calls over a limit of two, every form of call that no adapter crashes on and every form of answer | 112,126 | `AnswerIsEvidenced`, `RunsAreReported`, `AdaptersAgreeOnTypedReplies` |
| `Evaluation_gate` | a suite with the 17 shapes that the shipped set's cases have, and suites with a wrong, missing or repeated case; every category; with and without `--fail-under` | 37,126 | `GateIsSound`, `ShippedPasses` |
| `ControlledAgent_junk` | plans with a call that is no JSON object | | **violated**: `NeverCrashes` |
| `Dashboard_page` | in-memory stores; two datasets with the same reviews, two filters of which one keeps them all, seven clicks | 241,364 | `ShownInsightIsOwn`, `ChatIsOwn`, `AnswersFitTheirInsight`, `InsightStays`, `PageSettles` |
| `ReviewPages_pool` | a file of five reviews and every file of up to two rows of five kinds, pages of two, four clicks | 119,292 | `RemovedRowsHaveReasons`, `PoolAgreesWithSummary`, `SummaryIsGiven`, `ShownIsOwn`, `NoFalseEmptyOnline`, `NothingSkipped`, `PoolSettles` |
| `ReviewQueries_agree` | four files, four filters of which two mean the same, a call of each tool, two answers and one insight | 106,678 | `AnswersAgree`, `SignatureIsScope`, `SummaryAddsUp`, `FiguresInRange`, `PrioritiesRanked`, `PacketCovers` |

Why these bounds are enough to be of interest:

* two contenders are what a race for a lock takes; with a TTL of 2 and a hold of 3 every holder
  may lose its entry, as the code's may, and a third contender may come while a
  late release of the first is between WATCH and EXEC. After a fault there are leases that
  outlive their entry and entries that outlive their lease. Time is
  modelled only as far as it is compared: the TTL's order with the hold's length is
  what counts, and the theorems cover every pair;
* three requests for a scope: one that generates, one that waits for it, one that
  comes when the row exists. The clock needs two values, before and after the
  dataset's expiry. One restart is enough to lose a holder. The theorems cover
  every number of requests, datasets, scopes and days. `MemoryStores_live` has two
  requests, because its liveness properties are costly: one that creates and one that
  waits, or comes when the index names a record that is gone;
* in `SummaryCache_reads` one reader fills, one hits, one asks for the same scope
  without the insight and one asks for another dataset with the same reviews, so
  that keys and signatures collide where they can;
* in `ControlledAgent_replies` a plan is within, at or over the limit; ids are missing,
  shared, or collide with a generated one; calls succeed, fail, are unknown or broken;
  every validation of an answer fails at least once on its own;
* in `Evaluation_gate` the limit of calls is the default, three, which the shipped set uses up. A
  suite that is wrong differs from the shipped one in one case, or lacks the cases of one kind,
  so that a gate that lets it pass does so for that reason;
* seven clicks are upload, generate, filter, generate, remove, upload, generate: a
  late answer of one dataset can meet the page of the next;
* five reviews make three pages with a short last one, two of a filtered view, and a
  view that fits on one page. A page passed, turned back to and left takes four clicks;
* the files of `ReviewQueries_agree` have reviews in every category, on the bounds of
  bins and labels, with ties, twins, missing values, numeric versions, versions with
  blanks, and none at all. Figures are compared in pairs, so that two answers suffice.

Some properties are weaker than their names in ways that matter:
`SingleFlight` and `OneHolderPerTTL` speak of the time before the first fault,
`NothingSkipped` lets a pool start over with the first page of all,
`PoolAgreesWithSummary` says nothing where there is no summary (`SummaryIsGiven` names the two
cases, which are failures of the code), `SignatureIsScope` excepts answers about the whole
dataset and the keyword `__EMPTY__`, `InsightStays` holds with the in-memory stores,
`PacketCovers` is checked for a limit of five (the theorem covers every limit),
`NoFalseEmptyOnline` and `NothingSkipped` of the time before the browser was first
offline, and `FreshAnswersAgree` of answers given before the dataset expired: an
insight that is found expired is regenerated in place and answered expired,
so that later answers may differ in their content.

### Fairness

* `InsightGeneration`: weak fairness of the steps of each accepted request. A
  thread serves it; database and Redis calls return or raise; the model call has a
  timeout, the wait for another's result a deadline. Nothing is assumed of clients,
  deletions or the restart. A restart ends the requests under way ("lost"), and
  `Answered` counts that as the end it is: the client's connection breaks.
* `MemoryStores`: the same, and of the cleanup loop, which wakes up every hour whatever
  its last run met. `ExpiredForgotten` needs it, `Answered` does not.
* `TimedLock`: time passes, and a lease leaves its `with` block.
* `SummaryCache`: Redis expires a key that has a lifetime. Nothing is assumed of readers,
  which may hang between any two calls.
* `Dashboard`: every answer arrives or fails (`apiRequest` has a timeout); React runs
  the effects of a component it has rendered.
* `ReviewPages`: requests are answered or given up, and the network comes back.

## 4. Proofs

Checked by TLAPS for every value of the constants under the assumptions that
the modules name:

* `LockAssumption` (every request has a target, `NoToken` is no request),
  `TimeAssumption`, `GenerationAssumption` (retention at least a day);
* `SummaryAssumption` (what readers ask for and what insights are about),
  `DashboardAssumption`;
* `AgentAssumption` (which adapters, ids and numbers there are), `EvaluationAssumption`
  (a question set has cases);
* `ReviewDataAssumption` (lengths of pages and lists; the categories of the keyword table
  have different names, and none is `other`, the name of what matches none) and
  `ReviewAnalysisAssumption` (lengths of lists and packets), `ReviewPagesAssumption` (a file is a list of rows that gives a frame),
  `ReviewQueriesAssumption` (texts have finitely many words, sentiments are missing or
  from 0 to 100, as SnowNLP's are, and a call names a tool and a type of reviews that
  exist, as its validation sees to).

* **The lock.** `LockInvariant` (types and `MatchedOwns`) and from it `ReleaseIsTokenSafe`.
  `TokenSafe` alone is not inductive: that EXEC deletes one's own token needs that a
  transaction which would go through is on a key that stores it or nothing. The
  action property then follows step by step.
* **The timed lock.** `TimedType`, and with the clock `TimedReleaseIsTokenSafe`.
  `OneHolderPerTTLHolds` assumes that a lock is configured and nothing of the TTL or the length of
  a hold. The invariant is `HolderOwnsEntry`: the token of a holder younger than the TTL is under its
  key with `ttl + age = LockTTL`, so what is left of it is positive and the entry has not
  lapsed; two such holders have one key and so one token. A late release is harmless because
  its GET finds another's token, or its EXEC has become stale. The corollary
  `LongerTTLWouldDo` says what a repair of finding 1 would buy: with `LockTTL > MaxHold`, the property
  `SingleFlight`.
* **Insight generation.** `IInv` is `TypeOK`, `UniqueInsight` (the run checks it as part of
  `ImplementsContract`: a second row of a fingerprint is a `Create` that finds a record), `NoOrphanInsight`,
  `FreshAnswersAgree`, `LiveNeverFails` (checked in `MemoryStores_live`, of the tables
  too, with lost insert races) and `Strengthening`. `LiveNeverFails` needs `PendingRow`: a
  request that is about to refresh, or has lost an insert race, finds its row as long
  as the dataset is live;
  which holds because a row of a live dataset is fresh (`NoOrphanInsight`) and only a
  deletion of the dataset takes it away (`DeletionGone`). `FreshAnswersAgree` needs
  `FreshOnRecord`: a fresh answer is still on record while the dataset is live; and
  `Unanswered`, that a request under way has no answer yet. The proof that a step
  keeps `IInv` has a lemma per action; requests' writes and their reads share
  `WriteStep` and `ServeStep`. It nowhere uses the lock's exclusion: what is claimed holds
  with the lock failing, which is why the code may go on without it.
  `OnlyStoredDatasetsServe` looks at every step that answers a request with an insight: the
  row that `Lookup`, `Poll`, `Recheck`, `Refresh` or `Reread` finds is one of a stored dataset by
  `NoOrphanInsight`, and `Insert` has its foreign key.
* **The contract.** `GenerationImplementsContract`: the initial state maps to the
  initial state, and each step to `Create` (`Insert`), `Reuse` (every other answer with
  an insight), `Open`, `Expire`, `Retire`, `Purge` or a stutter. It uses `IInv`: a conflict is
  a reuse because of the row's key, a cleanup of insights removes only those of expired
  datasets because of `NoOrphanInsight`.
* **The in-memory stores.** `StoresInvariant` says `IInv` of a service with the database and
  `MemoryInv` of one without. `OneFreshInsight` follows from `IndexNames`: the index names
  every record that may be served, and there is one name for a fingerprint; a refresh, the
  one step that makes a stale record fresh again, finds its record by that name.
  `StoresNeverFailLive` needs `Outlives`, an insight lives as long as its dataset, without a
  foreign key to see to it, because retention is counted from a later time; hence a request whose
  dataset is live is never about to refresh (`NoLiveRefresh`), which is the only
  step that can raise.
* **Summary and cache.** `ReadInv` is types, `Stages` (only summaries use the cache),
  `LentIsOwn` and `LateEnds`. Its core is the lemma `KeyIsAsk`: the cache key of a summary
  says all that its answer depends on, so that an entry which another reader stored
  lends the insight of one's own scope or none. `LateEnds` says that a reader which
  came after its dataset was removed has ended at its first step, which is why no
  entry that an invalidation misses can be served to it. `OwnInsightIsUsed` assumes
  `Storage = "memory"` (with the database the run `SummaryCache_database` shows the
  contrary); `UseInv` adds that an insight lives as long as its dataset
  (`Recorded`) and that entries of a live dataset lend the insight they are keyed by (`OwnIsUsed`).
* **The agent.** `AgentInv`: the calls executed so far are those of the plan, in order
  and within the limit, and the result of a finished run is `Ending(a, w)`, a function
  of the route, the plan, the calls, the reply and the warning `w` of whatever went
  wrong. `RunsStayReported` and `AnswerStaysEvidenced` are read off that form;
  `TypedRepliesAgree` compares the forms of the two adapters: from a plan of objects
  the same calls reach the orchestrator, in the same places, so that the same ones succeed, and
  on an answer of the right types the two accept the same.
  `AgentInv` names the one way to crash, `Crashed`: `OnlyJunkCrashes` says so (finding 3).
* **The evaluator.** `EvalInv` is `AgentInv`, `EvalTypes` (an outcome is the judgement of a
  result that the agent can have), that the agent is in the current case, with
  its question and its replies, that there are as many outcomes as cases done, and that the suite
  was rejected, or report and exit code are functions of the outcomes. `GateStaysSound` is read off these.
* **The page.** `PageInv` is types, `OneQuery` (the page waits for one summary),
  `OfDataset` and `ChatIsOwn`. `OfDataset` is what makes late answers harmless: a panel that is
  waited for, on the page or gone, belongs to the dataset on the page, because removing
  or replacing a dataset remounts everything. `AnswersStayFitting` holds with either storage, for two
  reasons: in memory the signature has the filters in it, and with the database no insight is
  accepted at all. `OwnInsightStays` assumes `Storage = "memory"`.
* **The review pool.** `PoolInv`: a pool without the page of its key is fetching it,
  paused on it, or in error. `PagesInv` adds what a page is about: frame, statistics and
  summary are of one file (`Uploaded`), what is shown is a page of the filters that the
  summary is of (`OwnFilters`), and, until the browser is offline, the pool
  is at a multiple of the page size that lies before the end of its view, as are all
  before it (`Walked`). From `Walked` follow `NoFalseEmpty` and, because every page but the last is full,
  `NothingIsSkipped`. `RowsHaveReasons` and
  `PoolAndSummaryAgree` are about `Stats`, `Search` and `Summary` themselves: what a
  selection keeps is counted by the set of the positions it keeps.
* **The figures.** `QueriesInv`: every answer is `Honest`. It is about reviews in the form that
  preparation gives them (`IsReviews`); without a question about the whole dataset these
  are the reviews of its filters; and every figure in it is the value of one function of
  the reviews and the figure's name, `Figure`. The core is one lemma for the summary
  (`SummarySays`), one for the packet (`PacketSays`) and one for each tool (`ToolSays` cites them): that
  it `Says` of reviews what `Figure` does. They rest on facts about selections and sorts:
  preparing prepared reviews once more changes nothing, so that the tools, which do, see
  the reviews the summary sees; a selection from a selection is one by both tests; a list cut
  twice is one cut at the smaller length. `AnswersAlwaysAgree` then compares two values of one
  function. `SignatureStandsForScope` is the lemma `SameScope`: filters with equal canonical
  forms keep the same reviews. `PacketAlwaysCovers` is the lemma `PacketIs`: each of the three pools begins with the
  review that must be shown, the shares of the pools are at least one each when the limit
  leaves room (`Shares`), and `drop_duplicates` leaves one review with the values of every one it drops.
* **The figures add up.** `SummaryAlwaysAddsUp` is about sums over the bars of a chart, over sets
  whose size no constant bounds. The library's induction theorems cannot be
  instantiated, so `FiniteInduction` states induction over the subsets of a finite set without an
  operator parameter: a family of subsets that has the empty set, and with a set the set with
  one more element, has them all. It follows from a minimal counterexample, which
  exists because strict inclusion of finite sets is well-founded. From it come
  `Total`, the sum of a function over a part of its domain, and
  `TotalOfClasses`: the sizes of the classes of a finite set add up to its size. Categories, score bins
  and stars are such classes (`TableAddsUp`, `BinsAddUp`, `StarsAddUp`), the first because
  names of categories differ. `Honest` had to be strengthened: a summary that gives figures gives
  all that the sums speak of.
* **The figures stay on their scales.** `FiguresAlwaysInRange`: a sum lies between
  its length times the bounds of its terms (`TotalBetween`), so a rounded mean lies between
  the same bounds (`MeansWithin`), and so do shares. A priority is a weighted sum of
  five quantities scaled to 0..1, so that its score is from 0 to 100 and the severity
  beside it is that of its band (`ScoreInBand`, `PriorityRowIs`): the bounds and bands of
  `calculate_priority_scores` are kept after the rounding.
* **The priorities are ranked.** `PrioritiesAlwaysRanked` needs `Top`, a conjunct of
  `Honest`: the priorities in one answer are the first rows, without a gap, of one ranking.
  `RankedGroupsAre` says that a ranking has every category of the reviews once, by descending
  score; the two together give that what an answer leaves out has no higher score than what it shows.

Only model-checked:

* everything temporal under fairness: `NoLeakedEntry`, `Answered`, `ExpiredForgotten`,
  `CacheForgets`, `PageSettles`, `PoolSettles` (the prover does not do `ENABLED`);
* `ShippedPasses`, which is a fact about one suite and the replies that go with it, not about
  every value of the constants;
* what the runs of section 5 violate, which is false: of `NeverCrashes`, `SingleFlight`
  and `InsightIsUsed` the theorems say under which condition they hold.

## 5. Where the code and its documents disagree

Three runs find a statement of the repository violated; `PROJECT.json` quotes it
under "findings":

1. the lock lives 30 s, the model call may take 60 s (`TimedLock_code`);
2. with the database, insights are never used by summaries or the agent, because the
   services hash the dataset by different functions (`SummaryCache_database`);
3. a planned call that is no object crashes the direct adapter's run
   (`ControlledAgent_junk`).

Others were noticed while modelling; the models do as the code does, and no run is
spent on them:

* for the reason of finding 2, the page of a deployment with the database drops an insight as soon
  as it has it (`web/src/components/insights/AIInsightPanel.tsx:42`): `Dashboard` with
  `Storage = "database"` violates `InsightStays`, which is why run and theorem are of the in-memory
  stores;
* an insert that loses to another request's row, which is deleted with its dataset before it is
  read, is a 500 (`services/sqlalchemy_insight_store.py:131`), where the docstring of line 96 promises
  none; `LiveNeverFails` is about datasets that are live;
* a planned call whose arguments are no JSON is a failed call with the direct adapter and
  vanishes with LangChain (`agent/adapters/langchain_adapter.py:183`);
* a sentiment of exactly 0 is read as 50 by the risk label (`visual_analysis.py:40`), against
  `powerbi_data_dictionary.md:15`; no property is about it;
* filters that match no review make `build_summary` raise, so that the page's notice of an
  empty scope (`web/src/pages/Dashboard.tsx:60`) is not reached; and a version column of numbers is
  a 500 (`schemas/analytics.py:107`), though `README.md:72` promises versions in previews.
  `SummaryIsGiven` excepts these two;
* `refresh_expired` gives an insight the expiry of its dataset
  (`services/sqlalchemy_insight_store.py:158`), so it is still expired afterwards, while
  `tests/test_sqlalchemy_persistence.py:368` refreshes one of a dataset that is not;
* LangChain takes a number for an answer and a null, an empty text or a zero for a list
  (`agent/adapters/langchain_adapter.py:248`) that the direct adapter refuses, and fails on arguments
  that are a list, hence "typed" in `AdaptersAgreeOnTypedReplies`;
* if two calls have one id, the id of the failed one passes as evidence through the
  other (`agent/tool_calling.py:376`);
* the digits of `call_1` are numbers of the evidence (`agent/tool_calling.py:477`);
* a question that reviews cannot answer still runs a tool (`agent/tool_calling.py:152`);
* a question about the whole dataset carries the signature of the filters
  (`services/agent_service.py:45`), so that it may use an insight of a narrower scope,
  while `README.md:11` binds insights to their scope; `SignatureIsScope` excepts it. The page sends the
  insight of its filters with such a question (`web/src/components/agent/AgentPanel.tsx:17`), and what
  keeps it out of the answer is the number of reviews alone (`AnswersFitTheirInsight`);
* the keyword `__EMPTY__` is the same scope as no keyword
  (`services/repositories.py:132`);
* `compare_versions` looks for stripped versions in an unstripped column
  (`backend/agent/tool_executor.py:84`) and counts reviews without a version in its sample;
* `top_n` may be 30 (`backend/agent/tool_definitions.py:20`), but the workflows extract
  15 keywords (`agent_workflow.py:157`);
* a rating of 3.5 is neither good nor bad, but falls into a bar of the distribution;
* `retrieve_representative_reviews` of high risk fails on an empty scope
  (`backend/agent/tool_executor.py:225`), where the other types answer that there is nothing;
* the workflow of negative reviews computes its priorities over these reviews only,
  so that its table is not that of `calculate_issue_priority`;
* offline, the page's buttons stay live while a fetch is paused and lead past the end
  of the next view, which then seems empty, against
  `docs/improvement-plan/04-phase-4-frontend.md:87`;
* generating an insight refetches the summary under a new key and so removes the agent's
  chat and the question under way (`web/src/pages/Dashboard.tsx:56`); a draft in the filter panel
  is lost when the summary loads anew, because the panel's key has the categories of the
  summary (`Dashboard.tsx:30`);
* a record that cleanup removed stays in the index (`services/insight_store.py:41`), and a
  `refresh_expired` that meets it is a 500; an insight stored after its dataset was
  deleted stays until it expires;
* the gate judges rates: it does not require 46 of 46 (`docs/improvement-plan/07-test-ci-acceptance.md:29`)
  and does not look at forbidden tools, constraints on answers, tools of which any
  will do, or fallbacks that were not allowed. `GateIsSound` claims no more than the gate looks at;
* a case that must fail its numbers is satisfied by any failed validation
  (`evaluation/metrics.py:29`); `--case-id` together with `--fail-under` can never pass, because
  the other mechanisms are then not counted;
* the reason a fallback gives differs between the adapters: Direct looks at the cited
  ids before the claims.

## 6. Not modelled

* Prompts, wording, redaction, logging, middleware and configuration: data or
  layout, without control of their own.
* Keyword scores, TF-IDF and SnowNLP's sentiment; charts. The text-analysis script, which the
  service does not use.
* Floats: figures are exact, so that a severity whose score lies on a bound may differ
  from the code's by the last bit.
* Filters with more than six decimals, which signatures round
  (`services/repositories.py:136`); an order among reviews that are equal in the only
  column a packet sorts by (`ai_analysis.py:142`), where pandas promises none: they keep their order here,
  and `PacketCovers` does not depend on it.
* Encodings and size limits of an upload: a refused file changes nothing.
* Collisions of hashes and uuids.
* Readiness (`routers/health.py`): three probes without state.
* `clear()` of the stores and the plain `create` of the insight store, which tests use.
* Of the agent: planned calls without a "function", and arguments that are an empty text, which both
  adapters take for none.
* Of the evaluator: the live mode, `--case-id`, files that cannot be read, the layout of reports, words
  other than numbers that an answer must not contain, and its LangChain arm (see `Evaluation` above).
* The scraper and the migrations, whose constraints are in `Insert`.
* Scopes without reviews in the runs of the generation modules (`EmptyScope` is a
  constant, and the proofs cover it; `ReviewQueries_agree` has such scopes).
* Of TanStack Query: retries one by one (a failure is one whose retry failed), window
  focus, and structural sharing.

## 7. Plan

Done, in this order: lock, timed lock, generation and its contract with the proofs,
summary and cache, agent, page, review pool; then the in-memory stores, the figures and
the services that compute them, the evaluator, the chat of the page, and the proofs about
summary, agent, page and pool; then the proofs about the in-memory stores, the evaluator, the
pages of the pool and the figures; then, about the figures, their sums, scales and rankings.

Then, after a reading against the source, the adapters' treatment of broken calls, the storage and the
questions of the page, the pool that starts over, holds longer than the TTL, and the shapes of the shipped
question set.

What is left: readiness, which keeps no state; the live mode and `--case-id` of the evaluator.
