---------------------------- MODULE MemoryStores ----------------------------
(***************************************************************************)
(* POST /insights over either storage backend.  With the database this is  *)
(* InsightGeneration.  The in-memory stores keep no foreign key and no     *)
(* UNIQUE constraint: InMemoryInsightStore finds a record through an index *)
(* of fingerprints that nothing prunes, an insight outlives its dataset,   *)
(* and a restart forgets everything.                                       *)
(*                                                                         *)
(* Each method runs under the store's RLock and is one step.               *)
(***************************************************************************)
EXTENDS InsightGeneration

VARIABLES
  storage,    \* settings.storage_backend, fixed at startup
  index       \* InMemoryInsightStore._fingerprints

stores == <<storage, index>>
allVars == <<vars, stores>>

StoresInit ==
  /\ Init
  /\ storage \in {"memory", "database"}
  /\ index = [k \in Key |-> NoToken]

\* Records are found by their id: the index may name one that is gone.
Indexed(k) == {i \in insights : i.id = index[k]}

-----------------------------------------------------------------------------
(* AiInsightService.generate over the in-memory stores *)

\* InMemoryDatasetStore.get drops an expired record and keeps it dropped.
Dropped(d) == [dataset EXCEPT ![d] = IF Live(d) \/ @ = "new" THEN @ ELSE "gone"]

MemoryGetDataset(r) ==
  /\ pc[r] = "get"
  /\ IF Live(DatasetOf(r))
       THEN Go(r, "scope") /\ UNCHANGED result
       ELSE Go(r, "done") /\ Answer(r, Failure("not_found"))
  /\ dataset' = Dropped(DatasetOf(r))
  /\ UNCHANGED <<lockVars, now, expires, insights, upkeep, index>>

MemoryGetScope(r) ==
  /\ pc[r] = "scope"
  /\ IF ~Live(DatasetOf(r))
       THEN Go(r, "done") /\ Answer(r, Failure("not_found"))
       ELSE IF Target[r][2] \in EmptyScope
         THEN Go(r, "done") /\ Answer(r, Failure("empty"))
         ELSE Go(r, "lookup") /\ UNCHANGED result
  /\ dataset' = Dropped(DatasetOf(r))
  /\ UNCHANGED <<lockVars, now, expires, insights, upkeep, index>>

\* get_by_fingerprint before the lock, and while waiting for the holder.
MemoryReuse(r, from, to) ==
  /\ pc[r] = from
  /\ \E i \in Indexed(Target[r]) : Fresh(i) /\ Answer(r, Found(i))
  /\ Go(r, to)
  /\ UNCHANGED <<lockVars, tables, upkeep, index>>

MemoryLookup(r) ==
  \/ MemoryReuse(r, "lookup", "done")
  \/ /\ pc[r] = "lookup"
     /\ \A i \in Indexed(Target[r]) : ~Fresh(i)
     /\ Go(r, "hold")
     /\ UNCHANGED <<lockVars, tables, result, upkeep, index>>

MemoryRecheck(r) ==
  \/ MemoryReuse(r, "recheck", "release")
  \/ /\ pc[r] = "recheck"
     /\ \A i \in Indexed(Target[r]) : ~Fresh(i)
     /\ Go(r, IF Indexed(Target[r]) = {} THEN "generate" ELSE "regenerate")
     /\ UNCHANGED <<lockVars, tables, result, upkeep, index>>

\* refresh_expired.  The record may have been removed since the recheck: the
\* index still names it, and the KeyError is an HTTP 500.
MemoryRefresh(r) ==
  /\ pc[r] = "refresh"
  /\ \/ \E i \in Indexed(Target[r]) :
          LET new == [i EXCEPT !.payload = r, !.expires = now + Retention]
          IN  /\ insights' = (insights \ {i}) \cup {new}
              /\ Answer(r, Found(new))
     \/ /\ Indexed(Target[r]) = {}
        /\ Answer(r, Failure("server_error"))
        /\ UNCHANGED insights
  /\ Go(r, "release")
  /\ UNCHANGED <<lockVars, now, dataset, expires, upkeep, index>>

\* Mutant: upsert_fingerprint does not look the fingerprint up.
MemoryCreate_NoLookup(r) ==
  LET new == [id |-> r, key |-> Target[r], payload |-> r,
              expires |-> now + Retention]
  IN  /\ pc[r] = "create"
      /\ insights' = insights \cup {new}
      /\ index' = [index EXCEPT ![Target[r]] = r]
      /\ Answer(r, Found(new))
      /\ Go(r, "release")
      /\ UNCHANGED <<lockVars, now, dataset, expires, upkeep>>

\* upsert_fingerprint asks neither for the dataset nor for its expiry.  An
\* expired record of the same fingerprint stays until the cleanup.
MemoryCreate(r) ==
  LET new == [id |-> r, key |-> Target[r], payload |-> r,
              expires |-> now + Retention]
  IN  /\ pc[r] = "create"
      /\ \/ /\ \E i \in Indexed(Target[r]) : Fresh(i) /\ Answer(r, Found(i))
            /\ UNCHANGED <<insights, index>>
         \/ /\ \A i \in Indexed(Target[r]) : ~Fresh(i)
            /\ insights' = insights \cup {new}
            /\ index' = [index EXCEPT ![Target[r]] = r]
            /\ Answer(r, Found(new))
      /\ Go(r, "release")
      /\ UNCHANGED <<lockVars, now, dataset, expires, upkeep>>

MemoryProgress(r) ==
  \/ MemoryGetScope(r) \/ MemoryLookup(r) \/ MemoryReuse(r, "wait", "release")
  \/ MemoryRecheck(r) \/ MemoryRefresh(r) \/ MemoryCreate(r)
  \/ /\ Hold(r) \/ GiveUp(r) \/ ModelAnswers(r) \/ ModelFails(r) \/ EndLease(r)
     /\ UNCHANGED index

-----------------------------------------------------------------------------
(* DELETE /datasets/{id}, the cleanup and a restart over the stores *)

\* InMemoryDatasetStore.delete removes the record alone.
MemoryDeleteDataset(d) ==
  /\ deletion[d] = "idle"
  /\ dataset[d] = "stored"
  /\ dataset' = [dataset EXCEPT ![d] = "gone"]
  /\ deletion' = [deletion EXCEPT ![d] = "insights"]
  /\ UNCHANGED <<lockVars, now, expires, insights, serving, cleaner, restarts,
                 index>>

MemoryCleanDatasets ==
  /\ cleaner = "datasets"
  /\ dataset' = [d \in Dataset |-> Dropped(d)[d]]
  /\ cleaner' = "insights"
  /\ UNCHANGED <<lockVars, now, expires, insights, serving, deletion, restarts,
                 index>>

MemoryRestart ==
  /\ restarts < MaxRestarts
  /\ restarts' = restarts + 1
  /\ dataset' = [d \in Dataset |-> IF dataset[d] = "stored" THEN "gone"
                                                            ELSE dataset[d]]
  /\ insights' = {}
  /\ index' = [k \in Key |-> NoToken]
  /\ pc' = [r \in Request |-> IF InFlight(r) THEN "lost" ELSE pc[r]]
  /\ lease' = [r \in Request |-> IF InFlight(r) THEN "closed" ELSE lease[r]]
  /\ entry' = IF Backend = "memory" THEN [k \in Key |-> NoToken] ELSE entry
  /\ sweep' = [d \in Dataset |-> {}]
  /\ deletion' = [d \in Dataset |-> IF deletion[d] = "idle" THEN "idle"
                                                            ELSE "done"]
  /\ cleaner' = "datasets"
  /\ UNCHANGED <<now, expires, result>>

-----------------------------------------------------------------------------
(* Both backends *)

Serve(r) ==
  /\ \/ storage = "memory" /\ MemoryProgress(r)
     \/ storage = "database" /\ Progress(r) /\ UNCHANGED index
  /\ UNCHANGED storage

Clean ==
  /\ \/ storage = "memory" /\ MemoryCleanDatasets
     \/ storage = "database" /\ CleanDatasets /\ UNCHANGED index
     \/ CleanInsights /\ UNCHANGED index
     \/ storage = "database" /\ CleanupFails /\ UNCHANGED index
  /\ UNCHANGED storage

Accept(r) ==
  /\ \/ storage = "memory" /\ MemoryGetDataset(r)
     \/ storage = "database" /\ GetDataset(r) /\ UNCHANGED index
  /\ UNCHANGED storage

Remove(d) ==
  /\ \/ storage = "memory" /\ MemoryDeleteDataset(d)
     \/ /\ storage = "database" /\ DeleteDataset(d)
        /\ UNCHANGED index
     \/ DeleteInsights(d) /\ UNCHANGED index
     \/ (ScanDeleted(d) \/ DropDeleted(d)) /\ UNCHANGED index
  /\ UNCHANGED storage

Environment ==
  /\ \/ storage = "memory" /\ MemoryRestart
     \/ storage = "database" /\ Restart /\ UNCHANGED index
     \/ /\ Tick \/ LockLapses \/ \E d \in Dataset : Upload(d)
        /\ UNCHANGED index
  /\ UNCHANGED storage

StoresNext ==
  \/ \E r \in Request : Accept(r) \/ Serve(r)
  \/ \E d \in Dataset : Remove(d)
  \/ Clean
  \/ Environment

(***************************************************************************)
(* As in InsightGeneration a thread serves each accepted request to its    *)
(* end; the cleanup loop comes back every hour, whatever its last run met. *)
(***************************************************************************)
StoresSpec ==
  /\ StoresInit /\ [][StoresNext]_allVars
  /\ \A r \in Request : WF_allVars(Serve(r))
  /\ WF_allVars(Clean)

-----------------------------------------------------------------------------
(* Properties *)

(***************************************************************************)
(* Memory is given back: an insight that has expired is gone in the end,   *)
(* or was generated again, also the one that a slow model call stored      *)
(* after its dataset was deleted and that no request can reach.            *)
(***************************************************************************)
ExpiredForgotten ==
  \A r \in Request :
    (\E i \in insights : i.id = r /\ ~Fresh(i))
      ~> (\A i \in insights : i.id = r => Fresh(i))

(***************************************************************************)
(* Without any constraint on the tables one scope still has one insight    *)
(* that is served: of the records of a fingerprint that have not expired   *)
(* the index names the only one, so that concurrent requests agree.        *)
(***************************************************************************)
OneFreshInsight ==
  \A i, j \in insights :
    i.key = j.key /\ Fresh(i) /\ Fresh(j) => i = j
=============================================================================
