---------------------------- MODULE SummaryCache ----------------------------
(***************************************************************************)
(* Who uses an insight: AnalyticsService.build_summary with its cache, and *)
(* AgentService.query.  Concurrent readers validate the dataset, look in   *)
(* the cache, resolve the insight they were given and (summaries) fill the *)
(* cache, while datasets are uploaded, expire, and are deleted and their   *)
(* cache entries invalidated.                                              *)
(*                                                                         *)
(* Hashes do not collide: a digest is what it was computed from and by.    *)
(***************************************************************************)
EXTENDS Naturals

CONSTANTS
  Reader,     \* requests, each made once
  Dataset,
  Filter,     \* values of ReviewFilters
  Insight,    \* insight ids
  Ask,        \* Ask[r]: the fields of request r
  Subject,    \* Subject[i]: the dataset and filter i was generated for
  Content,    \* Content[d]: the reviews in d
  Size,       \* Size[f]: how many of them f selects
  AllRows,    \* how many there are
  Storage,    \* settings.storage_backend
  Backend,    \* which cache build_cache returned
  None

Kind == {"summary", "agent", "agent_full"}

ASSUME SummaryAssumption ==
  /\ Ask \in [Reader -> [kind : Kind, dataset : Dataset, filter : Filter,
                         insight : Insight \cup {None}]]
  /\ Subject \in [Insight -> Dataset \X Filter]
  /\ Size \in [Filter -> Nat]
  /\ AllRows \in Nat
  /\ Storage \in {"memory", "database"}
  /\ Backend \in {"redis", "null"}
  /\ None \notin Insight

VARIABLES
  life,       \* life[d] \in {"new", "live", "expired", "gone"}
  known,      \* insights on record
  minted,     \* insight ids that were handed out
  cache,      \* cache[k]: the summary stored under k, or None
  pc,         \* pc[r]: the next call request r makes
  answer,     \* answer[r]: what r was answered
  deletion,   \* deletion[d]: the next step of DELETE /datasets/d
  scanned,    \* scanned[d]: cache keys its invalidation has found
  late        \* history: requests made after their dataset was removed

vars == <<life, known, minted, cache, pc, answer, deletion, scanned, late>>
store == <<life, known, minted>>
delete == <<deletion, scanned>>
reading == <<pc, answer, late>>

\* SqlAlchemyDatasetStore.get returns no content_hash, and the services fall
\* back to hash functions of their own.
Digest(service, d) ==
  <<IF Storage = "memory" THEN "content_hash" ELSE service, Content[d]>>

Signature(service, d, f) == <<Digest(service, d), f>>
SignatureOf(i) ==
  Signature("compute_content_hash", Subject[i][1], Subject[i][2])

\* Mutant: the insight is not part of the key.
CacheKey_NoInsight(a) ==
  <<a.dataset, Signature("dataframe_scope_signature", a.dataset, a.filter),
    None>>

CacheKey(a) ==
  <<a.dataset, Signature("dataframe_scope_signature", a.dataset, a.filter),
    a.insight>>

Key == {CacheKey(Ask[r]) : r \in Reader}

Rows(a) == IF a.kind = "agent_full" THEN AllRows ELSE Size[a.filter]

\* An insight row is found until it expires, with its dataset at the latest;
\* without a foreign key it may outlive the dataset.
Found(i) ==
  i \in known /\ (Storage = "database" => life[Subject[i][1]] = "live")

\* Mutant: resolve does not compare the dataset.
Usable_AnyDataset(a) ==
  /\ a.insight \in Insight
  /\ Found(a.insight)
  /\ SignatureOf(a.insight) =
       Signature("dataframe_scope_signature", a.dataset, a.filter)
  /\ Size[Subject[a.insight][2]] = Rows(a)

\* The conditions of resolve: same dataset, signature and number of reviews.
Usable(a) ==
  /\ a.insight \in Insight
  /\ Found(a.insight)
  /\ Subject[a.insight][1] = a.dataset
  /\ SignatureOf(a.insight) =
       Signature("dataframe_scope_signature", a.dataset, a.filter)
  /\ Size[Subject[a.insight][2]] = Rows(a)

Warning == {"none", "insight_not_found", "insight_scope_mismatch"}

Resolve(a) ==
  [shown   |-> IF Usable(a) THEN a.insight ELSE None,
   warning |-> IF a.insight = None \/ Usable(a) THEN "none"
               ELSE IF Found(a.insight) THEN "insight_scope_mismatch"
               ELSE "insight_not_found"]

Shown == [shown : Insight \cup {None}, warning : Warning]
NotFound == [status |-> "not_found"]
Pending == [status |-> "pending"]
Answer(p) == [status |-> "ok", body |-> p]
Outcome == {Pending, NotFound} \cup {Answer(p) : p \in Shown}
Body(r) == answer[r].body
Served(r) == answer[r].status = "ok"

(***************************************************************************)
(* Types.  A cache entry is a payload, so that a reader never takes an     *)
(* entry of another shape (_valid_cache_payload) for a summary.            *)
(***************************************************************************)
TypeOK ==
  /\ life \in [Dataset -> {"new", "live", "expired", "gone"}]
  /\ known \subseteq minted /\ minted \subseteq Insight
  /\ cache \in [Key -> Shown \cup {None}]
  /\ pc \in [Reader -> {"get", "scope", "cache", "resolve", "fill", "done"}]
  /\ answer \in [Reader -> Outcome]
  /\ deletion \in [Dataset -> {"idle", "insights", "scan", "drop", "done"}]
  /\ scanned \in [Dataset -> SUBSET Key]
  /\ late \subseteq Reader

Init ==
  /\ life = [d \in Dataset |-> "new"]
  /\ known = {} /\ minted = {}
  /\ cache = [k \in Key |-> None]
  /\ pc = [r \in Reader |-> "get"]
  /\ answer = [r \in Reader |-> Pending]
  /\ deletion = [d \in Dataset |-> "idle"]
  /\ scanned = [d \in Dataset |-> {}]
  /\ late = {}

-----------------------------------------------------------------------------
(* Readers *)

Finish(r, a) ==
  /\ pc' = [pc EXCEPT ![r] = "done"]
  /\ answer' = [answer EXCEPT ![r] = a]

Goto(r, label) ==
  /\ pc' = [pc EXCEPT ![r] = label]
  /\ UNCHANGED answer

Removed(r) == life[Ask[r].dataset] \in {"expired", "gone"}

\* Mutant: the cache is read before the dataset is validated.
GetDataset_CacheFirst(r) ==
  /\ pc[r] = "get"
  /\ Ask[r].insight \in minted \cup {None}
  /\ IF Ask[r].kind = "summary" /\ cache[CacheKey(Ask[r])] # None
       THEN Goto(r, "cache")
     ELSE IF life[Ask[r].dataset] # "live" THEN Finish(r, NotFound)
     ELSE Goto(r, IF Ask[r].kind = "summary" THEN "cache" ELSE "scope")
  /\ late' = IF Removed(r) THEN late \cup {r} ELSE late
  /\ UNCHANGED <<store, cache, delete>>

\* store.get: a dataset that is missing or expired is a 404.
GetDataset(r) ==
  /\ pc[r] = "get"
  /\ Ask[r].insight \in minted \cup {None}
  /\ IF life[Ask[r].dataset] # "live" THEN Finish(r, NotFound)
     ELSE Goto(r, IF Ask[r].kind = "summary" THEN "cache" ELSE "scope")
  /\ late' = IF Removed(r) THEN late \cup {r} ELSE late
  /\ UNCHANGED <<store, cache, delete>>

\* AgentService gets the dataset once more, through the scope service.
GetScope(r) ==
  /\ pc[r] = "scope"
  /\ IF life[Ask[r].dataset] # "live" THEN Finish(r, NotFound)
                                      ELSE Goto(r, "resolve")
  /\ UNCHANGED <<store, cache, delete, late>>

CacheHit(r) ==
  /\ pc[r] = "cache"
  /\ cache[CacheKey(Ask[r])] # None
  /\ Finish(r, Answer(cache[CacheKey(Ask[r])]))
  /\ UNCHANGED <<store, cache, delete, late>>

\* No entry, an error, or an entry of another schema version.
CacheMiss(r) ==
  /\ pc[r] = "cache"
  /\ Goto(r, "resolve")
  /\ UNCHANGED <<store, cache, delete, late>>

ResolveForAgent(r) ==
  /\ pc[r] = "resolve" /\ Ask[r].kind # "summary"
  /\ Finish(r, Answer(Resolve(Ask[r])))
  /\ UNCHANGED <<store, cache, delete, late>>

\* The summary is computed from the data frame read at first and the insight
\* found now; it is stored, and answered, only afterwards.
ResolveForSummary(r) ==
  /\ pc[r] = "resolve" /\ Ask[r].kind = "summary"
  /\ pc' = [pc EXCEPT ![r] = "fill"]
  /\ answer' = [answer EXCEPT ![r] = Answer(Resolve(Ask[r]))]
  /\ UNCHANGED <<store, cache, delete, late>>

\* cache.set; NullCache and a Redis error store nothing.
Fill(r) ==
  /\ pc[r] = "fill"
  /\ \/ /\ Backend = "redis"
        /\ cache' = [cache EXCEPT ![CacheKey(Ask[r])] = Body(r)]
     \/ UNCHANGED cache
  /\ Goto(r, "done")
  /\ UNCHANGED <<store, delete, late>>

Read(r) ==
  \/ GetScope(r) \/ CacheHit(r) \/ CacheMiss(r)
  \/ ResolveForAgent(r) \/ ResolveForSummary(r) \/ Fill(r)

-----------------------------------------------------------------------------
(* Datasets and insights *)

Upload(d) ==
  /\ life[d] = "new"
  /\ life' = [life EXCEPT ![d] = "live"]
  /\ UNCHANGED <<known, minted, cache, reading, delete>>

\* POST /insights of a dataset that was live when it began (the Create of
\* InsightContract); the in-memory store does not look for the dataset.
Generate(i) ==
  /\ i \notin minted
  /\ \/ life[Subject[i][1]] \in {"live", "expired"}
     \/ Storage = "memory" /\ life[Subject[i][1]] = "gone"
  /\ known' = known \cup {i}
  /\ minted' = minted \cup {i}
  /\ UNCHANGED <<life, cache, reading, delete>>

Expire(d) ==
  /\ life[d] = "live"
  /\ life' = [life EXCEPT ![d] = "expired"]
  /\ UNCHANGED <<known, minted, cache, reading, delete>>

InsightsOf(d) == {i \in Insight : Subject[i][1] = d}

\* Rows of the database cascade, the in-memory stores are separate.
Remove(d) ==
  /\ life' = [life EXCEPT ![d] = "gone"]
  /\ known' = IF Storage = "database" THEN known \ InsightsOf(d) ELSE known
  /\ UNCHANGED minted

CleanUp(d) ==
  /\ life[d] = "expired"
  /\ Remove(d)
  /\ UNCHANGED <<cache, reading, delete>>

\* An in-memory insight expires a retention period after it was generated,
\* later than its dataset.
Forget(i) ==
  /\ Storage = "memory"
  /\ i \in known /\ life[Subject[i][1]] \in {"expired", "gone"}
  /\ known' = known \ {i}
  /\ UNCHANGED <<life, minted, cache, reading, delete>>

-----------------------------------------------------------------------------
(* DELETE /datasets/{id}: dataset, insights, cache entries *)

DeleteDataset(d) ==
  /\ deletion[d] = "idle" /\ life[d] \in {"live", "expired"}
  /\ Remove(d)
  /\ deletion' = [deletion EXCEPT ![d] = "insights"]
  /\ UNCHANGED <<cache, reading, scanned>>

DeleteInsights(d) ==
  /\ deletion[d] = "insights"
  /\ known' = known \ InsightsOf(d)
  /\ deletion' = [deletion EXCEPT ![d] = "scan"]
  /\ UNCHANGED <<life, minted, cache, reading, scanned>>

\* invalidate_dataset collects the keys with SCAN and then deletes them; an
\* error at either point abandons it.
Scan(d) ==
  /\ deletion[d] = "scan"
  /\ scanned' = [scanned EXCEPT ![d] =
                   {k \in Key : k[1] = d /\ cache[k] # None}]
  /\ deletion' = [deletion EXCEPT ![d] = "drop"]
  /\ UNCHANGED <<store, cache, reading>>

Drop(d) ==
  /\ deletion[d] = "drop"
  /\ \/ cache' = [k \in Key |-> IF k \in scanned[d] THEN None ELSE cache[k]]
     \/ UNCHANGED cache
  /\ scanned' = [scanned EXCEPT ![d] = {}]
  /\ deletion' = [deletion EXCEPT ![d] = "done"]
  /\ UNCHANGED <<store, reading>>

\* Mutant: SET without a lifetime.
Lapse_NoTTL(k) == FALSE /\ UNCHANGED vars

\* SETEX: an entry lapses ANALYTICS_CACHE_TTL_SECONDS after it was stored.
Lapse(k) ==
  /\ cache[k] # None
  /\ cache' = [cache EXCEPT ![k] = None]
  /\ UNCHANGED <<store, reading, delete>>

Next ==
  \/ \E r \in Reader : GetDataset(r) \/ Read(r)
  \/ \E i \in Insight : Generate(i) \/ Forget(i)
  \/ \E d \in Dataset : Upload(d) \/ Expire(d) \/ CleanUp(d)
       \/ DeleteDataset(d) \/ DeleteInsights(d) \/ Scan(d) \/ Drop(d)
  \/ \E k \in Key : Lapse(k)

\* Redis expires every key that has a lifetime; a reader may hang or be lost.
Spec == Init /\ [][Next]_vars /\ \A k \in Key : WF_vars(Lapse(k))

-----------------------------------------------------------------------------
(* Properties *)

OwnInsight(r) ==
  /\ Ask[r].insight \in Insight
  /\ Subject[Ask[r].insight] = <<Ask[r].dataset, Ask[r].filter>>
  /\ Size[Ask[r].filter] = Rows(Ask[r])

(***************************************************************************)
(* stage-3-report, of the services' scope signatures: one algorithm, the   *)
(* same as for AI insights.  A summary or an agent answer for exactly the  *)
(* scope its insight was generated for uses that insight as long as the    *)
(* dataset is live, from the cache or not.                                 *)
(***************************************************************************)
InsightIsUsed ==
  \A r \in Reader :
    Served(r) /\ OwnInsight(r) /\ life[Ask[r].dataset] = "live"
    => Body(r).shown = Ask[r].insight

(***************************************************************************)
(* resolve never lends an insight to another scope: what is shown was      *)
(* generated for that dataset and filter, over exactly the reviews that    *)
(* the answer is about.                                                    *)
(***************************************************************************)
ShownIsOwn ==
  \A r \in Reader :
    Served(r) /\ Body(r).shown # None
    => Body(r).shown = Ask[r].insight /\ OwnInsight(r)

(***************************************************************************)
(* "Stale cache entries are harmless because reads validate dataset        *)
(* existence first" (invalidate_dataset): a reader that comes after the    *)
(* dataset expired or was deleted is not served, though an entry may be    *)
(* left or may even be written after the invalidation.                     *)
(***************************************************************************)
NothingServedAfterRemoval == \A r \in late : ~Served(r)

(***************************************************************************)
(* And such entries do not stay: whatever the invalidation missed, in the  *)
(* end nothing of a removed dataset is in the cache.                       *)
(***************************************************************************)
CacheForgets ==
  \A d \in Dataset :
    life[d] = "gone" ~> [](\A k \in Key : k[1] = d => cache[k] = None)
=============================================================================
