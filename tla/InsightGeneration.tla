------------------------- MODULE InsightGeneration -------------------------
(***************************************************************************)
(* POST /insights over the database: AiInsightService.generate run by      *)
(* concurrent requests, composed with the lock (InsightLock), the dataset  *)
(* and insight tables (SqlAlchemyDatasetStore, SqlAlchemyInsightStore),    *)
(* DELETE /datasets/{id}, the cleanup loop, expiry and server restarts.    *)
(*                                                                         *)
(* A step is one database transaction, one Redis command or one model      *)
(* call.  Insight ids are fresh uuids and a request creates at most one    *)
(* insight, so the request that creates it stands for its id, and the      *)
(* request whose model call produced a payload stands for the payload.     *)
(* With provider, model and version fixed by the configuration, a          *)
(* fingerprint is the pair of dataset and scope signature: the lock key.   *)
(***************************************************************************)
EXTENDS InsightLock

CONSTANTS
  EmptyScope,    \* scopes whose filters match no review
  Retention,     \* settings.data_retention_days
  MaxNow,        \* bound on the clock
  MaxRestarts    \* bound on server restarts

ASSUME GenerationAssumption ==
  /\ EmptyScope \subseteq Scope
  /\ Retention \in Nat \ {0}
  /\ MaxNow \in Nat
  /\ MaxRestarts \in Nat

VARIABLES
  now,        \* wall clock, in days
  dataset,    \* dataset[d]: not uploaded yet, a row of datasets, or removed
  expires,    \* expires[d]: datasets.expires_at
  insights,   \* rows of the insights table
  pc,         \* pc[r]: what request r does next
  result,     \* result[r]: what r has answered, or will once it has released
  deletion,   \* deletion[d]: what DELETE /datasets/d does next
  cleaner,    \* which half of cleanup_expired_records comes next
  restarts    \* restarts so far

tables == <<now, dataset, expires, insights>>
serving == <<pc, result>>
upkeep == <<deletion, cleaner, restarts>>
vars == <<lockVars, tables, serving, upkeep>>

Time == 0..(MaxNow + Retention)

Row == [id : Request, key : Key, payload : Request, expires : Time]

Label ==
  {"get", "scope", "lookup", "hold", "wait", "recheck", "generate",
   "regenerate", "refresh", "create", "insert", "reread", "release",
   "done", "lost"}

\* The status stands for the HTTP answer: 200, 404, 400, 409, 503 and 500.
Status ==
  {"none", "ok", "not_found", "empty", "in_progress", "model_error",
   "server_error"}

Result ==
  [status : Status, id : Request \cup {NoToken},
   payload : Request \cup {NoToken}, fresh : BOOLEAN]

\* The variables have their types; a dataset is kept for one retention period.
TypeOK ==
  /\ LockTypeOK
  /\ now \in 0..MaxNow
  /\ dataset \in [Dataset -> {"new", "stored", "gone"}]
  /\ expires \in [Dataset -> Time]
  /\ insights \subseteq Row
  /\ pc \in [Request -> Label]
  /\ result \in [Request -> Result]
  /\ deletion \in [Dataset -> {"idle", "insights", "scan", "drop", "done"}]
  /\ cleaner \in {"datasets", "insights"}
  /\ restarts \in 0..MaxRestarts

-----------------------------------------------------------------------------
(* Helpers *)

Live(d) == dataset[d] = "stored" /\ now < expires[d]
Fresh(i) == now < i.expires
RowsOf(k) == {i \in insights : i.key = k}
DatasetOf(r) == Target[r][1]

Go(r, label) == pc' = [pc EXCEPT ![r] = label]
Failure(status) ==
  [status |-> status, id |-> NoToken, payload |-> NoToken, fresh |-> FALSE]
Found(i) ==
  [status |-> "ok", id |-> i.id, payload |-> i.payload, fresh |-> Fresh(i)]
Answer(r, a) == result' = [result EXCEPT ![r] = a]

Init ==
  /\ LockInit
  /\ now = 0
  /\ dataset = [d \in Dataset |-> "new"]
  /\ expires = [d \in Dataset |-> 0]
  /\ insights = {}
  /\ pc = [r \in Request |-> "get"]
  /\ result = [r \in Request |-> Failure("none")]
  /\ deletion = [d \in Dataset |-> "idle"]
  /\ cleaner = "datasets"
  /\ restarts = 0

-----------------------------------------------------------------------------
(* AiInsightService.generate *)

\* store.get(dataset_id).  For an expired row get raises after its DELETE, so
\* the transaction rolls back and the row stays.
GetDataset(r) ==
  /\ pc[r] = "get"
  /\ IF Live(DatasetOf(r))
       THEN Go(r, "scope") /\ UNCHANGED result
       ELSE Go(r, "done") /\ Answer(r, Failure("not_found"))
  /\ UNCHANGED <<lockVars, tables, upkeep>>

\* ReviewScopeService.get_dataframe reads the dataset a second time.
GetScope(r) ==
  /\ pc[r] = "scope"
  /\ IF ~Live(DatasetOf(r))
       THEN Go(r, "done") /\ Answer(r, Failure("not_found"))
       ELSE IF Target[r][2] \in EmptyScope
         THEN Go(r, "done") /\ Answer(r, Failure("empty"))
         ELSE Go(r, "lookup") /\ UNCHANGED result
  /\ UNCHANGED <<lockVars, tables, upkeep>>

\* get_by_fingerprint: an unexpired insight is reused without the lock.
Lookup(r) ==
  /\ pc[r] = "lookup"
  /\ \/ \E i \in RowsOf(Target[r]) :
          Fresh(i) /\ Answer(r, Found(i)) /\ Go(r, "done")
     \/ /\ \A i \in RowsOf(Target[r]) : ~Fresh(i)
        /\ Go(r, "hold") /\ UNCHANGED result
  /\ UNCHANGED <<lockVars, tables, upkeep>>

Hold(r) ==
  /\ pc[r] = "hold"
  /\ Acquire(r)
  /\ Go(r, IF lease'[r] = "held" THEN "recheck" ELSE "wait")
  /\ UNCHANGED <<tables, result, upkeep>>

\* _wait_for_generation: a poll that finds the other request's insight ...
Poll(r) ==
  /\ pc[r] = "wait"
  /\ \E i \in RowsOf(Target[r]) : Fresh(i) /\ Answer(r, Found(i))
  /\ Go(r, "release")
  /\ UNCHANGED <<lockVars, tables, upkeep>>

\* Mutant: a wait without a deadline.
GiveUp_NoDeadline(r) ==
  /\ pc[r] = "wait"
  /\ UNCHANGED vars

\* ... or the deadline, LOCK_WAIT_SECONDS after the first poll.
GiveUp(r) ==
  /\ pc[r] = "wait"
  /\ Answer(r, Failure("in_progress"))
  /\ Go(r, "release")
  /\ UNCHANGED <<lockVars, tables, upkeep>>

\* get_by_fingerprint(include_expired=True), now under the lease.
Recheck(r) ==
  /\ pc[r] = "recheck"
  /\ \/ \E i \in RowsOf(Target[r]) :
          IF Fresh(i) THEN Answer(r, Found(i)) /\ Go(r, "release")
                      ELSE Go(r, "regenerate") /\ UNCHANGED result
     \/ RowsOf(Target[r]) = {} /\ Go(r, "generate") /\ UNCHANGED result
  /\ UNCHANGED <<lockVars, tables, upkeep>>

\* analyze_reviews answers a dict ...
ModelAnswers(r) ==
  /\ \/ pc[r] = "generate" /\ Go(r, "create")
     \/ pc[r] = "regenerate" /\ Go(r, "refresh")
  /\ UNCHANGED <<lockVars, tables, result, upkeep>>

\* ... or times out, fails, or answers something else: AiServiceError.
ModelFails(r) ==
  /\ pc[r] \in {"generate", "regenerate"}
  /\ Answer(r, Failure("model_error"))
  /\ Go(r, "release")
  /\ UNCHANGED <<lockVars, tables, upkeep>>

-----------------------------------------------------------------------------
(* SqlAlchemyInsightStore, the writes *)

\* refresh_expired: new payload, same id, the expiry of the dataset.
Refresh(r) ==
  /\ pc[r] = "refresh"
  /\ \/ \E i \in RowsOf(Target[r]) :
          LET new == [i EXCEPT !.payload = r, !.expires = expires[i.key[1]]]
          IN  /\ insights' = (insights \ {i}) \cup {new}
              /\ Answer(r, Found(new))
     \/ /\ RowsOf(Target[r]) = {}
        /\ Answer(r, Failure("server_error"))
        /\ UNCHANGED insights
  /\ Go(r, "release")
  /\ UNCHANGED <<lockVars, now, dataset, expires, upkeep>>

\* upsert_fingerprint: the dataset must have a row, expired or not.  An
\* InsightNotFoundError is a LookupError that nothing handles: HTTP 500.
CheckDataset(r) ==
  /\ pc[r] = "create"
  /\ IF dataset[DatasetOf(r)] = "stored"
       THEN Go(r, "insert") /\ UNCHANGED result
       ELSE Go(r, "release") /\ Answer(r, Failure("server_error"))
  /\ UNCHANGED <<lockVars, tables, upkeep>>

\* Mutant: no UNIQUE constraint on insight_fingerprint.
Insert_NoUnique(r) ==
  LET new == [id |-> r, key |-> Target[r], payload |-> r,
              expires |-> expires[DatasetOf(r)]]
  IN  /\ pc[r] = "insert"
      /\ IF dataset[DatasetOf(r)] = "stored"
           THEN /\ insights' = insights \cup {new}
                /\ Answer(r, Found(new))
                /\ Go(r, "release")
           ELSE Go(r, "reread") /\ UNCHANGED <<insights, result>>
      /\ UNCHANGED <<lockVars, now, dataset, expires, upkeep>>

\* Mutant: no FOREIGN KEY to datasets.
Insert_NoForeignKey(r) ==
  LET new == [id |-> r, key |-> Target[r], payload |-> r,
              expires |-> expires[DatasetOf(r)]]
  IN  /\ pc[r] = "insert"
      /\ IF RowsOf(Target[r]) = {}
           THEN /\ insights' = insights \cup {new}
                /\ Answer(r, Found(new))
                /\ Go(r, "release")
           ELSE Go(r, "reread") /\ UNCHANGED <<insights, result>>
      /\ UNCHANGED <<lockVars, now, dataset, expires, upkeep>>

\* Mutant: the IntegrityError of a lost race propagates.
Insert_ConflictRaises(r) ==
  LET new == [id |-> r, key |-> Target[r], payload |-> r,
              expires |-> expires[DatasetOf(r)]]
  IN  /\ pc[r] = "insert"
      /\ IF dataset[DatasetOf(r)] = "stored" /\ RowsOf(Target[r]) = {}
           THEN insights' = insights \cup {new} /\ Answer(r, Found(new))
           ELSE Answer(r, Failure("server_error")) /\ UNCHANGED insights
      /\ Go(r, "release")
      /\ UNCHANGED <<lockVars, now, dataset, expires, upkeep>>

\* flush and commit.  IntegrityError: the fingerprint exists (UNIQUE) or the
\* dataset is gone (FOREIGN KEY); both roll back and read again.
Insert(r) ==
  LET new == [id |-> r, key |-> Target[r], payload |-> r,
              expires |-> expires[DatasetOf(r)]]
  IN  /\ pc[r] = "insert"
      /\ IF dataset[DatasetOf(r)] = "stored" /\ RowsOf(Target[r]) = {}
           THEN /\ insights' = insights \cup {new}
                /\ Answer(r, Found(new))
                /\ Go(r, "release")
           ELSE Go(r, "reread") /\ UNCHANGED <<insights, result>>
      /\ UNCHANGED <<lockVars, now, dataset, expires, upkeep>>

\* Mutant: the loser of a conflict answers with its own unsaved record.
Reread_OwnRecord(r) ==
  /\ pc[r] = "reread"
  /\ Answer(r, Found([id |-> r, key |-> Target[r], payload |-> r,
                      expires |-> expires[DatasetOf(r)]]))
  /\ Go(r, "release")
  /\ UNCHANGED <<lockVars, tables, upkeep>>

\* A new session reads the row that won, expired or not.
Reread(r) ==
  /\ pc[r] = "reread"
  /\ \/ \E i \in RowsOf(Target[r]) : Answer(r, Found(i))
     \/ RowsOf(Target[r]) = {} /\ Answer(r, Failure("server_error"))
  /\ Go(r, "release")
  /\ UNCHANGED <<lockVars, tables, upkeep>>

\* Leaving the with block, on every path; then the answer goes out.
EndLease(r) ==
  /\ pc[r] = "release"
  /\ Release(r)
  /\ Go(r, IF lease'[r] = "closed" THEN "done" ELSE "release")
  /\ UNCHANGED <<tables, result, upkeep>>

\* The steps of a request that has been accepted.
Progress(r) ==
  \/ GetScope(r) \/ Lookup(r) \/ Hold(r) \/ Poll(r) \/ GiveUp(r)
  \/ Recheck(r) \/ ModelAnswers(r) \/ ModelFails(r)
  \/ Refresh(r) \/ CheckDataset(r) \/ Insert(r) \/ Reread(r) \/ EndLease(r)

-----------------------------------------------------------------------------
(* POST /datasets and DELETE /datasets/{id} *)

\* Mutant: dataset ids derived from the content come back after a deletion.
Upload_ReusedId(d) ==
  /\ dataset[d] \in {"new", "gone"}
  /\ dataset' = [dataset EXCEPT ![d] = "stored"]
  /\ expires' = [expires EXCEPT ![d] = now + Retention]
  /\ UNCHANGED <<lockVars, now, insights, serving, upkeep>>

Upload(d) ==
  /\ dataset[d] = "new"
  /\ dataset' = [dataset EXCEPT ![d] = "stored"]
  /\ expires' = [expires EXCEPT ![d] = now + Retention]
  /\ UNCHANGED <<lockVars, now, insights, serving, upkeep>>

\* dataset_store.delete; the FOREIGN KEY cascades to the insights.
DeleteDataset(d) ==
  /\ deletion[d] = "idle"
  /\ dataset[d] = "stored"
  /\ dataset' = [dataset EXCEPT ![d] = "gone"]
  /\ insights' = {i \in insights : i.key[1] # d}
  /\ deletion' = [deletion EXCEPT ![d] = "insights"]
  /\ UNCHANGED <<lockVars, now, expires, serving, cleaner, restarts>>

\* insight_store.delete_dataset, a transaction of its own.
DeleteInsights(d) ==
  /\ deletion[d] = "insights"
  /\ insights' = {i \in insights : i.key[1] # d}
  /\ deletion' = [deletion EXCEPT ![d] = "scan"]
  /\ UNCHANGED <<lockVars, now, dataset, expires, serving, cleaner, restarts>>

\* cache_service.invalidate_dataset: the lock keys, scanned then deleted.
ScanDeleted(d) ==
  /\ deletion[d] = "scan"
  /\ IF Backend = "redis" THEN ScanLocks(d) ELSE UNCHANGED lockVars
  /\ deletion' = [deletion EXCEPT ![d] = "drop"]
  /\ UNCHANGED <<tables, serving, cleaner, restarts>>

DropDeleted(d) ==
  /\ deletion[d] = "drop"
  /\ DropLocks(d) \/ AbandonSweep(d) \/ (sweep[d] = {} /\ UNCHANGED lockVars)
  /\ deletion' = [deletion EXCEPT ![d] = "done"]
  /\ UNCHANGED <<tables, serving, cleaner, restarts>>

-----------------------------------------------------------------------------
(* cleanup_expired_records, at startup and every hour *)

CleanDatasets ==
  LET dead == {d \in Dataset : dataset[d] = "stored" /\ expires[d] <= now}
  IN  /\ cleaner = "datasets"
      /\ dataset' = [d \in Dataset |-> IF d \in dead THEN "gone"
                                                     ELSE dataset[d]]
      /\ insights' = {i \in insights : i.key[1] \notin dead}
      /\ cleaner' = "insights"
      /\ UNCHANGED <<lockVars, now, expires, serving, deletion, restarts>>

\* Mutant: the insights of a dataset that is gone are left to its deletion.
CleanInsights_LeavesOrphans ==
  /\ cleaner = "insights"
  /\ insights' = {i \in insights : Fresh(i) \/ dataset[i.key[1]] = "gone"}
  /\ cleaner' = "datasets"
  /\ UNCHANGED <<lockVars, now, dataset, expires, serving, deletion, restarts>>

CleanInsights ==
  /\ cleaner = "insights"
  /\ insights' = {i \in insights : Fresh(i)}
  /\ cleaner' = "datasets"
  /\ UNCHANGED <<lockVars, now, dataset, expires, serving, deletion, restarts>>

\* The loop logs an error and starts over an hour later.
CleanupFails ==
  /\ cleaner = "insights"
  /\ cleaner' = "datasets"
  /\ UNCHANGED <<lockVars, tables, serving, deletion, restarts>>

-----------------------------------------------------------------------------
(* Time and failures *)

Tick ==
  /\ now < MaxNow
  /\ now' = now + 1
  /\ UNCHANGED <<lockVars, dataset, expires, insights, serving, upkeep>>

LockLapses ==
  /\ \E k \in Key : Lapse({k})
  /\ UNCHANGED <<tables, serving, upkeep>>

InFlight(r) == pc[r] \notin {"get", "done", "lost"}

\* The process dies and comes back.  The database and Redis keep what they
\* hold; requests, deletions under way and a process-local lock are lost.
Restart ==
  /\ restarts < MaxRestarts
  /\ restarts' = restarts + 1
  /\ pc' = [r \in Request |-> IF InFlight(r) THEN "lost" ELSE pc[r]]
  /\ lease' = [r \in Request |-> IF InFlight(r) THEN "closed" ELSE lease[r]]
  /\ entry' = IF Backend = "memory" THEN [k \in Key |-> NoToken] ELSE entry
  /\ sweep' = [d \in Dataset |-> {}]
  /\ deletion' = [d \in Dataset |-> IF deletion[d] = "idle" THEN "idle"
                                                            ELSE "done"]
  /\ cleaner' = "datasets"
  /\ UNCHANGED <<tables, result>>

Next ==
  \/ \E r \in Request : GetDataset(r) \/ Progress(r)
  \/ \E d \in Dataset : Upload(d) \/ DeleteDataset(d) \/ DeleteInsights(d)
                          \/ ScanDeleted(d) \/ DropDeleted(d)
  \/ CleanDatasets \/ CleanInsights \/ CleanupFails
  \/ Tick \/ LockLapses \/ Restart

(***************************************************************************)
(* A thread serves each accepted request to its end: every database and    *)
(* Redis call returns or raises, the model call has a timeout and the wait *)
(* a deadline.  Nothing is assumed of clients, deletions or the cleanup.   *)
(***************************************************************************)
Spec == Init /\ [][Next]_vars /\ \A r \in Request : WF_vars(Progress(r))

-----------------------------------------------------------------------------
(* Properties *)

(***************************************************************************)
(* "UNIQUE(insight_fingerprint) guarantees one insight record", whether or *)
(* not the lock works: however many requests generate for one scope, its   *)
(* fingerprint has at most one row.                                        *)
(***************************************************************************)
UniqueInsight ==
  \A i, j \in insights : i.key = j.key => i = j

(***************************************************************************)
(* A model call that outlives its dataset writes nothing back (no orphan   *)
(* results after a deletion), and an insight expires with its dataset.     *)
(***************************************************************************)
NoOrphanInsight ==
  \A i \in insights :
    dataset[i.key[1]] = "stored" /\ i.expires = expires[i.key[1]]

(***************************************************************************)
(* Requests for one scope that were answered while its dataset was live    *)
(* were all given the same insight with the same content, even when        *)
(* several of them called the model.                                       *)
(***************************************************************************)
FreshAnswersAgree ==
  \A r, q \in Request :
    /\ result[r].status = "ok" /\ result[r].fresh
    /\ result[q].status = "ok" /\ result[q].fresh
    /\ Target[r] = Target[q]
    => result[r].id = result[q].id /\ result[r].payload = result[q].payload

(***************************************************************************)
(* As long as the dataset is live a request is never answered with a 500:  *)
(* the row that a refresh or a lost race needs is still there.             *)
(***************************************************************************)
LiveNeverFails ==
  \A r \in Request :
    result[r].status = "server_error" => ~Live(DatasetOf(r))

(***************************************************************************)
(* Why these hold: a deletion under way has removed its dataset, a request *)
(* past its first read has one that was uploaded, a refresh finds only     *)
(* expired datasets, a lost race still has its winner's row, and an answer *)
(* given fresh stays on record while the dataset is live.                  *)
(***************************************************************************)
DeletionGone ==
  \A d \in Dataset : deletion[d] # "idle" => dataset[d] = "gone"

KnownDataset ==
  \A r \in Request :
    pc[r] \notin {"get", "done", "lost"}
      \/ result[r].status \in {"ok", "server_error"}
    => dataset[DatasetOf(r)] # "new"

PendingRow ==
  \A r \in Request :
    Live(DatasetOf(r)) =>
      /\ pc[r] \notin {"regenerate", "refresh"}
      /\ pc[r] = "reread" => RowsOf(Target[r]) # {}

Unanswered ==
  \A r \in Request :
    pc[r] \notin {"release", "done", "lost"} => result[r] = Failure("none")

Records(i, a) == i.id = a.id /\ i.payload = a.payload

FreshOnRecord ==
  \A r \in Request :
    result[r].status = "ok" /\ result[r].fresh /\ Live(DatasetOf(r))
    => \E i \in RowsOf(Target[r]) : Records(i, result[r])

Strengthening ==
  DeletionGone /\ KnownDataset /\ PendingRow /\ Unanswered /\ FreshOnRecord

(***************************************************************************)
(* A request accepted after its dataset was deleted or cleaned up is never *)
(* served an insight of it.                                                *)
(***************************************************************************)
NothingServedAfterRemoval ==
  \A r \in Request :
    [](dataset[DatasetOf(r)] = "gone" /\ pc[r] = "get"
         => [](result[r].status # "ok"))

(***************************************************************************)
(* However far a request had got when its dataset was deleted or cleaned   *)
(* up, no answer settles on an insight of it after that.  (One that had    *)
(* settled, and waits for the lease to be given back, still goes out.)     *)
(***************************************************************************)
OnlyStoredIsServed ==
  [][\A r \in Request :
       result'[r] # result[r] /\ result'[r].status = "ok"
       => dataset[DatasetOf(r)] = "stored"]_vars

(***************************************************************************)
(* Every accepted request is answered, unless the server restarts under    *)
(* it: a holder that takes long, or fails, does not keep it waiting.       *)
(***************************************************************************)
Answered ==
  \A r \in Request : pc[r] # "get" ~> pc[r] \in {"done", "lost"}

(***************************************************************************)
(* The whole is a get-or-create register per scope: see InsightContract.   *)
(***************************************************************************)
Life ==
  [d \in Dataset |-> IF dataset[d] # "stored" THEN dataset[d]
                     ELSE IF Live(d) THEN "live" ELSE "expired"]
OnFile == {<<i.key, i.id>> : i \in insights}
AnswerId == [r \in Request |-> result[r].id]

Contract == INSTANCE InsightContract WITH
  NoInsight <- NoToken, life <- Life, record <- OnFile, answer <- AnswerId

ImplementsContract == Contract!ContractSpec
=============================================================================
