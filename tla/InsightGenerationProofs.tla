---------------------- MODULE InsightGenerationProofs ----------------------
(***************************************************************************)
(* Proofs about the generation of insights, for every number of requests,  *)
(* datasets and scopes, every retention period and every bound on time and *)
(* restarts: the invariants of InsightGeneration, then that it implements  *)
(* InsightContract, then the invariants of MemoryStores.                   *)
(***************************************************************************)
EXTENDS MemoryStores, InsightLockProofs

USE LockAssumption, GenerationAssumption

IInv ==
  /\ TypeOK /\ UniqueInsight /\ NoOrphanInsight
  /\ Strengthening /\ FreshAnswersAgree /\ LiveNeverFails

\* The parts of IInv that do not mention the lock.
TableInv == UniqueInsight /\ NoOrphanInsight /\ DeletionGone
ServeInv ==
  /\ KnownDataset /\ PendingRow /\ Unanswered /\ FreshOnRecord
  /\ FreshAnswersAgree /\ LiveNeverFails

LEMMA Parts == IInv <=> TypeOK /\ TableInv /\ ServeInv
  BY DEF IInv, TableInv, ServeInv, Strengthening

\* The parts of a key.
LEMMA KeyParts ==
  /\ \A k \in Key : k[1] \in Dataset /\ k[2] \in Scope
  /\ \A r \in Request : Target[r] \in Key /\ DatasetOf(r) \in Dataset
  <1>1. \A k \in Key : k[1] \in Dataset /\ k[2] \in Scope
    BY DEF Key
  <1>2. \A r \in Request : Target[r] \in Key
    OBVIOUS
  <1> QED
    BY <1>1, <1>2 DEF DatasetOf

\* The next state of the lock is well typed in every step of the service.
LEMMA LockStepType == LockTypeOK /\ LockNext => LockTypeOK'
  BY LockTypeStep

LEMMA FailureType == \A s \in Status : Failure(s) \in Result
  BY DEF Failure, Result

LEMMA FoundType ==
  ASSUME TypeOK, NEW i \in Row
  PROVE  Found(i) \in Result
  BY DEF Found, Result, Row, Status, Fresh, TypeOK, Time

(***************************************************************************)
(* A step of request r that goes to label l and answers a keeps the        *)
(* invariant if it takes no row of a live dataset away and, when a is a    *)
(* new and fresh answer, that answer is then on record.                    *)
(***************************************************************************)
Moves(r, l, a) ==
  /\ l \notin {"get", "done", "lost"} \/ a.status \in {"ok", "server_error"}
       => dataset[DatasetOf(r)] # "new"
  /\ Live(DatasetOf(r)) =>
       /\ l \notin {"regenerate", "refresh"}
       /\ l = "reread" => RowsOf(Target[r]) # {}
       /\ a.status # "server_error"
  /\ l \notin {"release", "done", "lost"} => a = Failure("none")

OnRecord(r, a) ==
  a.status = "ok" /\ a.fresh =>
    \/ a = result[r]
    \/ \E i \in RowsOf(Target[r]) : Fresh(i) /\ Records(i, a)

LEMMA WriteStep ==
  ASSUME IInv, LockTypeOK',
         UNCHANGED <<now, dataset, expires, upkeep>>,
         insights' \subseteq Row, UniqueInsight', NoOrphanInsight',
         \A i \in insights : Live(i.key[1]) => i \in insights',
         NEW r \in Request, NEW l \in Label, NEW a \in Result,
         Go(r, l), Answer(r, a), Moves(r, l, a),
         a.status = "ok" /\ a.fresh =>
           \/ a = result[r]
           \/ \E i \in insights' :
                i.key = Target[r] /\ Fresh(i) /\ Records(i, a)
  PROVE  IInv'
  <1> USE DEF upkeep, Go, Answer
  <1>1. TypeOK'
    BY DEF IInv, TypeOK
  <1>2. TableInv'
    BY Parts DEF TableInv, DeletionGone
  <1>3. /\ \A q \in Request : pc'[q] = (IF q = r THEN l ELSE pc[q])
        /\ \A q \in Request : result'[q] = (IF q = r THEN a ELSE result[q])
    BY DEF IInv, TypeOK
  <1>4. /\ \A d \in Dataset : Live(d)' = Live(d)
        /\ \A k \in Key : RowsOf(k)' = {i \in insights' : i.key = k}
    BY DEF Live, RowsOf
  <1>5. \A q \in Request : Live(DatasetOf(q)) =>
          \A i \in RowsOf(Target[q]) : i \in insights' /\ i.key = Target[q]
    BY DEF RowsOf, DatasetOf
  <1>6. KnownDataset'
    BY <1>3, Parts DEF ServeInv, KnownDataset, Moves, DatasetOf
  <1>7. PendingRow'
    <2> SUFFICES ASSUME NEW q \in Request, Live(DatasetOf(q))
                 PROVE  /\ pc'[q] \notin {"regenerate", "refresh"}
                        /\ pc'[q] = "reread" => RowsOf(Target[q])' # {}
      BY <1>4, KeyParts DEF PendingRow, DatasetOf, RowsOf
    <2>1. /\ pc'[q] \notin {"regenerate", "refresh"}
          /\ pc'[q] = "reread" => RowsOf(Target[q]) # {}
      BY <1>3, Parts DEF ServeInv, PendingRow, Moves
    <2> QED
      BY <2>1, <1>4, <1>5, KeyParts
  <1>8. Unanswered'
    BY <1>3, Parts DEF ServeInv, Unanswered, Moves, Failure
  <1>9. LiveNeverFails'
    BY <1>3, <1>4, KeyParts, Parts
    DEF ServeInv, LiveNeverFails, Moves, DatasetOf
  <1>10. \A q \in Request :
           result[q].status = "ok" /\ result[q].fresh /\ Live(DatasetOf(q))
           => \E i \in insights' : i.key = Target[q] /\ Records(i, result[q])
    BY <1>5, Parts DEF ServeInv, FreshOnRecord
  <1>11. FreshOnRecord'
    <2> SUFFICES ASSUME NEW q \in Request, result'[q].status = "ok",
                        result'[q].fresh, Live(DatasetOf(q))
                 PROVE  \E i \in insights' :
                          i.key = Target[q] /\ Records(i, result'[q])
      BY <1>4, KeyParts DEF FreshOnRecord, Records, DatasetOf, RowsOf
    <2>1. CASE q # r \/ a = result[r]
      BY <2>1, <1>3, <1>10
    <2>2. CASE q = r /\ a # result[r]
      BY <2>2, <1>3
    <2> QED
      BY <2>1, <2>2
  <1>12. FreshAnswersAgree'
    <2>1. ASSUME NEW q \in Request, Target[q] = Target[r],
                 a # result[r], a.status = "ok", a.fresh,
                 result[q].status = "ok", result[q].fresh
          PROVE  a.id = result[q].id /\ a.payload = result[q].payload
      <3>1. PICK i \in insights' :
              i.key = Target[r] /\ Fresh(i) /\ Records(i, a)
        BY <2>1
      <3>2. Live(DatasetOf(q))
        BY <3>1, <2>1 DEF NoOrphanInsight, Fresh, Live, DatasetOf
      <3>3. PICK j \in insights' : j.key = Target[q] /\ Records(j, result[q])
        BY <3>2, <2>1, <1>10
      <3>4. i = j
        BY <3>1, <3>3, <2>1 DEF UniqueInsight
      <3> QED
        BY <3>1, <3>3, <3>4 DEF Records
    <2>2. \A p, q \in Request :
            /\ result[p].status = "ok" /\ result[p].fresh
            /\ result[q].status = "ok" /\ result[q].fresh
            /\ Target[p] = Target[q]
            => result[p].id = result[q].id
                 /\ result[p].payload = result[q].payload
      BY Parts DEF ServeInv, FreshAnswersAgree
    <2>3. ASSUME NEW p \in Request, NEW q \in Request,
                 result'[p].status = "ok", result'[p].fresh,
                 result'[q].status = "ok", result'[q].fresh,
                 Target[p] = Target[q]
          PROVE  /\ result'[p].id = result'[q].id
                 /\ result'[p].payload = result'[q].payload
      <3>1. CASE a = result[r]
        BY <3>1, <2>2, <2>3, <1>3
      <3>2. CASE a # result[r] /\ p = r /\ q # r
        BY <3>2, <2>1, <2>3, <1>3
      <3>3. CASE a # result[r] /\ p # r /\ q = r
        BY <3>3, <2>1, <2>3, <1>3
      <3>4. CASE p # r /\ q # r
        BY <3>4, <2>2, <2>3, <1>3
      <3> QED
        BY <3>1, <3>2, <3>3, <3>4
    <2> QED
      BY <2>3 DEF FreshAnswersAgree
  <1> QED
    BY <1>1, <1>2, <1>6, <1>7, <1>8, <1>9, <1>11, <1>12
    DEF IInv, TableInv, Strengthening

\* The case of a step that only reads the tables.
Serves(r, l, a) ==
  Go(r, l) /\ Answer(r, a) /\ Moves(r, l, a) /\ OnRecord(r, a)

LEMMA ServeStep ==
  ASSUME IInv, LockTypeOK',
         UNCHANGED <<tables, upkeep>>,
         NEW r \in Request, NEW l \in Label, NEW a \in Result,
         Serves(r, l, a)
  PROVE  IInv'
  <1>1. /\ UNCHANGED <<now, dataset, expires, insights, upkeep>>
        /\ insights' \subseteq Row
        /\ \A i \in insights : i \in insights'
    BY DEF tables, IInv, TypeOK
  <1>2. UniqueInsight' /\ NoOrphanInsight'
    BY <1>1 DEF IInv, UniqueInsight, NoOrphanInsight
  <1>3. a.status = "ok" /\ a.fresh =>
          \/ a = result[r]
          \/ \E i \in insights' :
               i.key = Target[r] /\ Fresh(i) /\ Records(i, a)
    BY <1>1 DEF Serves, OnRecord, RowsOf
  <1> QED
    BY <1>1, <1>2, <1>3, WriteStep DEF Serves

\* An action that keeps the lock's variables keeps their types.
LEMMA LockKept == ASSUME TypeOK, UNCHANGED lockVars PROVE LockTypeOK'
  BY LockTypeStep DEF TypeOK

\* What the invariant says of the request that takes the step.
LEMMA AtRequest ==
  ASSUME IInv, NEW r \in Request
  PROVE  /\ pc[r] \in Label /\ result[r] \in Result
         /\ result = [result EXCEPT ![r] = result[r]]
         /\ pc[r] \notin {"get", "done", "lost"}
              => dataset[DatasetOf(r)] # "new"
         /\ pc[r] \notin {"release", "done", "lost"}
              => result[r] = Failure("none")
         /\ Live(DatasetOf(r)) =>
              /\ pc[r] \notin {"regenerate", "refresh"}
              /\ pc[r] = "reread" => RowsOf(Target[r]) # {}
         /\ \A i \in RowsOf(Target[r]) :
              /\ i \in Row
              /\ dataset[DatasetOf(r)] = "stored"
              /\ i.expires = expires[DatasetOf(r)]
              /\ Fresh(i) => Live(DatasetOf(r))
  <1>1. /\ TypeOK /\ NoOrphanInsight /\ KnownDataset /\ PendingRow
        /\ Unanswered
    BY DEF IInv, Strengthening
  <1>2. pc[r] \in Label /\ result[r] \in Result
        /\ result = [result EXCEPT ![r] = result[r]]
    BY <1>1 DEF TypeOK
  <1>3. \A i \in RowsOf(Target[r]) :
          /\ i \in Row
          /\ dataset[DatasetOf(r)] = "stored"
          /\ i.expires = expires[DatasetOf(r)]
    BY <1>1 DEF TypeOK, RowsOf, NoOrphanInsight, DatasetOf
  <1>4. \A i \in RowsOf(Target[r]) : Fresh(i) => Live(DatasetOf(r))
    BY <1>3 DEF Fresh, Live
  <1> QED
    BY <1>1, <1>2, <1>3, <1>4 DEF KnownDataset, PendingRow, Unanswered

\* Answering with a row of the fingerprint, fresh or not, is allowed.
LEMMA FoundServes ==
  ASSUME IInv, NEW r \in Request, NEW i \in RowsOf(Target[r]),
         NEW l \in {"release", "done"}
  PROVE  Moves(r, l, Found(i)) /\ OnRecord(r, Found(i)) /\ Found(i) \in Result
  <1>1. i \in Row /\ dataset[DatasetOf(r)] = "stored"
    BY AtRequest
  <1>2. Found(i) \in Result
    BY <1>1, FoundType DEF IInv
  <1>3. Found(i).status = "ok" /\ (Found(i).fresh => Fresh(i))
        /\ Records(i, Found(i))
    BY DEF Found, Records
  <1> QED
    BY <1>1, <1>2, <1>3 DEF Moves, OnRecord

\* So is answering with a failure, if a 500 comes after the dataset's end.
LEMMA FailureServes ==
  ASSUME IInv, NEW r \in Request, NEW s \in Status \ {"ok"},
         NEW l \in {"release", "done"},
         dataset[DatasetOf(r)] # "new" \/ l = "done",
         s = "server_error" =>
           dataset[DatasetOf(r)] # "new" /\ ~Live(DatasetOf(r))
  PROVE  /\ Moves(r, l, Failure(s)) /\ OnRecord(r, Failure(s))
         /\ Failure(s) \in Result
  BY FailureType DEF Moves, OnRecord, Failure

\* Moving on without an answer.
LEMMA GoesOn ==
  ASSUME IInv, NEW r \in Request,
         NEW l \in Label \ {"get", "done", "lost", "release"},
         pc[r] \notin {"release", "done", "lost"},
         dataset[DatasetOf(r)] # "new",
         Live(DatasetOf(r)) => l \notin {"regenerate", "refresh", "reread"}
  PROVE  Moves(r, l, result[r]) /\ OnRecord(r, result[r])
  <1>1. result[r] = Failure("none")
    BY AtRequest
  <1>2. result[r].status = "none"
    BY <1>1 DEF Failure
  <1> QED
    BY <1>1, <1>2 DEF Moves, OnRecord

-----------------------------------------------------------------------------
(* The steps that read *)

LEMMA GetDatasetStep ==
  ASSUME IInv, NEW r \in Request, GetDataset(r) PROVE IInv'
  <1>1. LockTypeOK'
    BY LockKept DEF GetDataset, IInv
  <1>2. CASE Live(DatasetOf(r))
    <2>1. dataset[DatasetOf(r)] # "new"
      BY <1>2 DEF Live
    <2>2. Moves(r, "scope", result[r]) /\ OnRecord(r, result[r])
      BY <2>1, GoesOn DEF Label, GetDataset
    <2>3. Serves(r, "scope", result[r])
      BY <1>2, <2>2, AtRequest DEF GetDataset, Serves, Answer
    <2> QED
      BY <1>1, <2>3, ServeStep, AtRequest DEF GetDataset, Label
  <1>3. CASE ~Live(DatasetOf(r))
    <2>1. Serves(r, "done", Failure("not_found"))
      BY <1>3, FailureServes DEF GetDataset, Serves, Status
    <2> QED
      BY <1>1, <2>1, ServeStep, FailureType DEF GetDataset, Label, Status
  <1> QED
    BY <1>2, <1>3

LEMMA GetScopeStep ==
  ASSUME IInv, NEW r \in Request, GetScope(r) PROVE IInv'
  <1>1. LockTypeOK'
    BY LockKept DEF GetScope, IInv
  <1>2. ASSUME NEW s \in {"not_found", "empty"},
               Go(r, "done"), Answer(r, Failure(s))
        PROVE  IInv'
    <2>1. Serves(r, "done", Failure(s))
      BY <1>2, FailureServes DEF Serves, Status
    <2> QED
      BY <1>1, <2>1, ServeStep, FailureType DEF GetScope, Label, Status
  <1>3. ASSUME Go(r, "lookup"), UNCHANGED result PROVE IInv'
    <2>1. Moves(r, "lookup", result[r]) /\ OnRecord(r, result[r])
      BY GoesOn, AtRequest DEF Label, GetScope
    <2>2. Serves(r, "lookup", result[r])
      BY <1>3, <2>1, AtRequest DEF Serves, Answer
    <2> QED
      BY <1>1, <2>2, ServeStep, AtRequest DEF GetScope, Label
  <1> QED
    BY <1>2, <1>3 DEF GetScope

LEMMA LookupStep ==
  ASSUME IInv, NEW r \in Request, Lookup(r) PROVE IInv'
  <1>1. LockTypeOK'
    BY LockKept DEF Lookup, IInv
  <1>2. ASSUME NEW i \in RowsOf(Target[r]), Answer(r, Found(i)), Go(r, "done")
        PROVE  IInv'
    <2>1. Serves(r, "done", Found(i))
      BY <1>2, FoundServes DEF Serves
    <2> QED
      BY <1>1, <2>1, ServeStep, FoundServes DEF Lookup, Label
  <1>3. ASSUME Go(r, "hold"), UNCHANGED result PROVE IInv'
    <2>1. Serves(r, "hold", result[r])
      BY <1>3, GoesOn, AtRequest DEF Serves, Answer, Label, Lookup
    <2> QED
      BY <1>1, <2>1, ServeStep, AtRequest DEF Lookup, Label
  <1> QED
    BY <1>2, <1>3 DEF Lookup

LEMMA HoldStep ==
  ASSUME IInv, NEW r \in Request, Hold(r) PROVE IInv'
  <1>1. LockTypeOK'
    BY LockTypeStep DEF Hold, IInv, TypeOK, LockNext
  <1>2. PICK l \in {"recheck", "wait"} : Go(r, l)
    BY DEF Hold
  <1>3. Serves(r, l, result[r])
    BY <1>2, GoesOn, AtRequest DEF Serves, Answer, Label, Hold
  <1> QED
    BY <1>1, <1>3, ServeStep, AtRequest DEF Hold, Label

LEMMA PollStep ==
  ASSUME IInv, NEW r \in Request, Poll(r) PROVE IInv'
  <1>1. LockTypeOK'
    BY LockKept DEF Poll, IInv
  <1>2. PICK i \in RowsOf(Target[r]) : Answer(r, Found(i))
    BY DEF Poll
  <1>3. Serves(r, "release", Found(i))
    BY <1>2, FoundServes DEF Serves, Poll
  <1> QED
    BY <1>1, <1>3, ServeStep, FoundServes DEF Poll, Label

\* A wait that runs out and a model call that fails answer an error.
LEMMA ErrorStep ==
  ASSUME IInv, NEW r \in Request, GiveUp(r) \/ ModelFails(r) PROVE IInv'
  <1>1. LockTypeOK'
    BY LockKept DEF GiveUp, ModelFails, IInv
  <1>2. PICK s \in {"in_progress", "model_error"} : Answer(r, Failure(s))
    BY DEF GiveUp, ModelFails
  <1>3. dataset[DatasetOf(r)] # "new"
    BY AtRequest DEF GiveUp, ModelFails
  <1>4. Serves(r, "release", Failure(s))
    BY <1>2, <1>3, FailureServes DEF Serves, GiveUp, ModelFails, Status
  <1> QED
    BY <1>1, <1>4, ServeStep, FailureType DEF GiveUp, ModelFails, Label, Status

(***************************************************************************)
(* The recheck under the lease regenerates only an insight that expired,   *)
(* and an insight expires with its dataset: nothing live is refreshed.     *)
(***************************************************************************)
LEMMA RecheckStep ==
  ASSUME IInv, NEW r \in Request, Recheck(r) PROVE IInv'
  <1>1. LockTypeOK'
    BY LockKept DEF Recheck, IInv
  <1>2. dataset[DatasetOf(r)] # "new" /\ pc[r] = "recheck"
    BY AtRequest DEF Recheck
  <1>3. ASSUME NEW i \in RowsOf(Target[r]), Answer(r, Found(i)),
               Go(r, "release")
        PROVE  IInv'
    <2>1. Serves(r, "release", Found(i))
      BY <1>3, FoundServes DEF Serves
    <2> QED
      BY <1>1, <2>1, ServeStep, FoundServes DEF Recheck, Label
  <1>4. ASSUME NEW i \in RowsOf(Target[r]), ~Fresh(i),
               Go(r, "regenerate"), UNCHANGED result
        PROVE  IInv'
    <2>1. ~Live(DatasetOf(r))
      BY <1>4, AtRequest DEF Fresh, Live
    <2>2. Serves(r, "regenerate", result[r])
      BY <1>2, <1>4, <2>1, GoesOn, AtRequest DEF Serves, Answer, Label
    <2> QED
      BY <1>1, <2>2, ServeStep, AtRequest DEF Recheck, Label
  <1>5. ASSUME Go(r, "generate"), UNCHANGED result PROVE IInv'
    <2>1. Serves(r, "generate", result[r])
      BY <1>2, <1>5, GoesOn, AtRequest DEF Serves, Answer, Label
    <2> QED
      BY <1>1, <2>1, ServeStep, AtRequest DEF Recheck, Label
  <1> QED
    BY <1>3, <1>4, <1>5 DEF Recheck

LEMMA ModelAnswersStep ==
  ASSUME IInv, NEW r \in Request, ModelAnswers(r) PROVE IInv'
  <1>1. LockTypeOK'
    BY LockKept DEF ModelAnswers, IInv
  <1>2. PICK l \in {"create", "refresh"} :
          Go(r, l) /\ (l = "refresh" => pc[r] = "regenerate")
    BY DEF ModelAnswers
  <1>3. Serves(r, l, result[r])
    BY <1>2, GoesOn, AtRequest DEF Serves, Answer, Label, ModelAnswers
  <1> QED
    BY <1>1, <1>3, ServeStep, AtRequest DEF ModelAnswers, Label

LEMMA CheckDatasetStep ==
  ASSUME IInv, NEW r \in Request, CheckDataset(r) PROVE IInv'
  <1>1. LockTypeOK'
    BY LockKept DEF CheckDataset, IInv
  <1>2. dataset[DatasetOf(r)] # "new"
    BY AtRequest DEF CheckDataset
  <1>3. CASE dataset[DatasetOf(r)] = "stored"
    <2>1. Serves(r, "insert", result[r])
      BY <1>2, <1>3, GoesOn, AtRequest
      DEF Serves, Answer, Label, CheckDataset
    <2> QED
      BY <1>1, <2>1, ServeStep, AtRequest DEF CheckDataset, Label
  <1>4. CASE dataset[DatasetOf(r)] # "stored"
    <2>1. ~Live(DatasetOf(r))
      BY <1>4 DEF Live
    <2>2. Serves(r, "release", Failure("server_error"))
      BY <1>2, <1>4, <2>1, FailureServes DEF Serves, CheckDataset, Status
    <2> QED
      BY <1>1, <2>2, ServeStep, FailureType DEF CheckDataset, Label, Status
  <1> QED
    BY <1>3, <1>4

\* The winner of the race is still there while the dataset is live.
LEMMA RereadStep ==
  ASSUME IInv, NEW r \in Request, Reread(r) PROVE IInv'
  <1>1. LockTypeOK'
    BY LockKept DEF Reread, IInv
  <1>2. ASSUME NEW i \in RowsOf(Target[r]), Answer(r, Found(i)) PROVE IInv'
    <2>1. Serves(r, "release", Found(i))
      BY <1>2, FoundServes DEF Serves, Reread
    <2> QED
      BY <1>1, <2>1, ServeStep, FoundServes DEF Reread, Label
  <1>3. ASSUME RowsOf(Target[r]) = {}, Answer(r, Failure("server_error"))
        PROVE  IInv'
    <2>1. ~Live(DatasetOf(r)) /\ dataset[DatasetOf(r)] # "new"
      BY <1>3, AtRequest DEF Reread
    <2>2. Serves(r, "release", Failure("server_error"))
      BY <1>3, <2>1, FailureServes DEF Serves, Reread, Status
    <2> QED
      BY <1>1, <2>2, ServeStep, FailureType DEF Reread, Label, Status
  <1> QED
    BY <1>2, <1>3 DEF Reread

LEMMA EndLeaseStep ==
  ASSUME IInv, NEW r \in Request, EndLease(r) PROVE IInv'
  <1>1. LockTypeOK'
    BY LockTypeStep DEF EndLease, IInv, TypeOK, LockNext
  <1>2. PICK l \in {"release", "done"} : Go(r, l)
    BY DEF EndLease
  <1>3. Moves(r, l, result[r]) /\ OnRecord(r, result[r])
    BY AtRequest, Parts DEF Moves, OnRecord, EndLease, ServeInv, LiveNeverFails
  <1>4. Serves(r, l, result[r])
    BY <1>2, <1>3, AtRequest DEF Serves, Answer, EndLease
  <1> QED
    BY <1>1, <1>4, ServeStep, AtRequest DEF EndLease, Label

-----------------------------------------------------------------------------
(* The steps that write an insight *)

\* A refresh happens only when the dataset is no longer live, so it answers
\* with an expired row and touches no row of a live dataset.
LEMMA RefreshStep ==
  ASSUME IInv, NEW r \in Request, Refresh(r) PROVE IInv'
  <1> USE DEF Refresh
  <1>1. LockTypeOK'
    BY LockKept DEF IInv
  <1>2. ~Live(DatasetOf(r)) /\ dataset[DatasetOf(r)] # "new"
    BY AtRequest
  <1>3. CASE RowsOf(Target[r]) = {}
    <2>1. /\ Answer(r, Failure("server_error"))
          /\ UNCHANGED <<tables, upkeep>>
      BY <1>3 DEF tables
    <2>2. Serves(r, "release", Failure("server_error"))
      BY <2>1, <1>2, FailureServes DEF Serves, Status
    <2> QED
      BY <1>1, <2>1, <2>2, ServeStep, FailureType DEF Label, Status
  <1>4. ASSUME NEW i \in RowsOf(Target[r]), NEW new,
               new = [i EXCEPT !.payload = r, !.expires = expires[i.key[1]]],
               insights' = (insights \ {i}) \cup {new}, Answer(r, Found(new))
        PROVE  IInv'
    <2>1. /\ i \in Row /\ i \in insights /\ i.key = Target[r]
          /\ dataset[DatasetOf(r)] = "stored"
          /\ i.expires = expires[DatasetOf(r)]
      BY <1>4, AtRequest DEF RowsOf
    <2>2. new \in Row /\ new.key = Target[r] /\ new.id = i.id
            /\ new.expires = expires[DatasetOf(r)]
      BY <1>4, <2>1, KeyParts DEF Row, IInv, TypeOK, DatasetOf
    <2>3. \A j \in insights' : j = new \/ (j \in insights /\ j.key # Target[r])
      BY <1>4, <2>1 DEF IInv, UniqueInsight
    <2>4. insights' \subseteq Row
      BY <2>2, <2>3 DEF IInv, TypeOK
    <2>5. UniqueInsight'
      BY <2>2, <2>3 DEF IInv, UniqueInsight
    <2>6. NoOrphanInsight'
      BY <2>1, <2>2, <2>3 DEF IInv, NoOrphanInsight, DatasetOf
    <2>7. \A j \in insights : Live(j.key[1]) => j \in insights'
      BY <1>2, <1>4, <2>1 DEF DatasetOf
    <2>8. ~Found(new).fresh /\ Found(new).status = "ok"
      BY <1>2, <2>1, <2>2 DEF Found, Fresh, Live
    <2>9. Found(new) \in Result /\ Moves(r, "release", Found(new))
      BY <1>2, <2>2, <2>8, FoundType DEF IInv, Moves
    <2> QED
      BY <1>1, <1>4, <2>4, <2>5, <2>6, <2>7, <2>8, <2>9, WriteStep DEF Label
  <1> QED
    BY <1>3, <1>4

\* The insert finds no row, so its own is the only one of the fingerprint;
\* while the dataset is live no other request can have a fresh answer.
LEMMA InsertStep ==
  ASSUME IInv, NEW r \in Request, Insert(r) PROVE IInv'
  <1> USE DEF Insert
  <1>1. LockTypeOK'
    BY LockKept DEF IInv
  <1>2. DatasetOf(r) \in Dataset /\ Target[r] \in Key
          /\ dataset[DatasetOf(r)] # "new"
    BY AtRequest, KeyParts
  <1>3. CASE dataset[DatasetOf(r)] = "stored" /\ RowsOf(Target[r]) = {}
    <2> DEFINE new == [id |-> r, key |-> Target[r], payload |-> r,
                       expires |-> expires[DatasetOf(r)]]
    <2>1. insights' = insights \cup {new} /\ Answer(r, Found(new))
            /\ Go(r, "release")
      BY <1>3
    <2>2. new \in Row /\ new.key = Target[r]
            /\ new.expires = expires[DatasetOf(r)]
      BY <1>2 DEF Row, IInv, TypeOK
    <2> HIDE DEF new
    <2>3. \A j \in insights : j.key # Target[r]
      BY <1>3 DEF RowsOf
    <2>4. insights' \subseteq Row
      BY <2>1, <2>2 DEF IInv, TypeOK
    <2>5. UniqueInsight'
      BY <2>1, <2>2, <2>3 DEF IInv, UniqueInsight
    <2>6. NoOrphanInsight'
      BY <1>3, <2>1, <2>2 DEF IInv, NoOrphanInsight, DatasetOf
    <2>7. \A j \in insights : j \in insights'
      BY <2>1
    <2>8. /\ Found(new) \in Result
          /\ Found(new).status = "ok" /\ Records(new, Found(new))
          /\ Found(new).fresh => Fresh(new)
      BY <2>2, FoundType DEF IInv, Found, Records
    <2>9. Moves(r, "release", Found(new))
      BY <1>2, <2>8 DEF Moves
    <2> QED
      BY <1>1, <2>1, <2>2, <2>4, <2>5, <2>6, <2>7, <2>8, <2>9, WriteStep
      DEF Label
  <1>4. CASE ~(dataset[DatasetOf(r)] = "stored" /\ RowsOf(Target[r]) = {})
    <2>1. Go(r, "reread") /\ UNCHANGED <<tables, upkeep, result>>
      BY <1>4 DEF tables
    <2>a. result[r] = Failure("none")
      BY AtRequest
    <2>2. result[r] = Failure("none") /\ result[r].status = "none"
      BY <2>a DEF Failure
    <2>3. Moves(r, "reread", result[r]) /\ OnRecord(r, result[r])
      BY <1>2, <1>4, <2>2 DEF Moves, OnRecord, Live
    <2>4. Serves(r, "reread", result[r])
      BY <2>1, <2>3, AtRequest DEF Serves, Answer
    <2> QED
      BY <1>1, <2>1, <2>4, ServeStep, AtRequest DEF Label
  <1> QED
    BY <1>3, <1>4

-----------------------------------------------------------------------------
(* The steps of the datasets, the cleanup, the clock and the restarts *)

(***************************************************************************)
(* A step that answers nobody keeps the invariant if it brings no dataset  *)
(* back, takes no row of a dataset that stays live, and at most abandons   *)
(* requests.                                                               *)
(***************************************************************************)
LEMMA UpkeepStep ==
  ASSUME IInv, LockTypeOK', UNCHANGED result,
         now' \in 0..MaxNow,
         dataset' \in [Dataset -> {"new", "stored", "gone"}],
         expires' \in [Dataset -> Time],
         insights' \subseteq insights,
         pc' \in [Request -> Label],
         \A r \in Request : pc'[r] \in {pc[r], "lost"},
         deletion' \in [Dataset -> {"idle", "insights", "scan", "drop", "done"}],
         cleaner' \in {"datasets", "insights"},
         restarts' \in 0..MaxRestarts,
         NoOrphanInsight', DeletionGone',
         \A d \in Dataset : dataset[d] # "new" =>
           dataset'[d] # "new" /\ (Live(d)' => Live(d)),
         \A i \in insights : Live(i.key[1])' => i \in insights'
  PROVE  IInv'
  <1>1. TypeOK'
    BY DEF IInv, TypeOK
  <1>2. TableInv'
    BY DEF IInv, TableInv, UniqueInsight
  <1>3. \A r \in Request : DatasetOf(r) \in Dataset /\ DatasetOf(r)' = DatasetOf(r)
    BY KeyParts DEF DatasetOf
  <1>4. \A r \in Request :
          Live(DatasetOf(r))' /\ dataset[DatasetOf(r)] # "new"
          => /\ Live(DatasetOf(r))
             /\ \A i \in RowsOf(Target[r]) : i \in RowsOf(Target[r])'
    BY <1>3 DEF RowsOf, DatasetOf
  <1>5. KnownDataset'
    BY <1>3, Parts DEF ServeInv, KnownDataset
  <1>6. PendingRow'
    BY <1>3, <1>4, Parts DEF ServeInv, PendingRow, KnownDataset
  <1>7. Unanswered'
    BY Parts DEF ServeInv, Unanswered, Failure
  <1>8. LiveNeverFails'
    BY <1>3, <1>4, Parts DEF ServeInv, LiveNeverFails, KnownDataset
  <1>9. FreshOnRecord'
    BY <1>3, <1>4, Parts DEF ServeInv, FreshOnRecord, KnownDataset, Records
  <1>10. FreshAnswersAgree'
    BY Parts DEF ServeInv, FreshAnswersAgree
  <1> QED
    BY <1>1, <1>2, <1>5, <1>6, <1>7, <1>8, <1>9, <1>10
    DEF IInv, TableInv, Strengthening

LEMMA UploadStep ==
  ASSUME IInv, NEW d \in Dataset, Upload(d) PROVE IInv'
  <1> USE DEF Upload, serving, upkeep
  <1>1. LockTypeOK' /\ TypeOK /\ NoOrphanInsight /\ DeletionGone
    BY LockKept DEF IInv, Strengthening
  <1>2. now + Retention \in Time
    BY <1>1 DEF TypeOK, Time
  <1>3. /\ dataset' \in [Dataset -> {"new", "stored", "gone"}]
        /\ expires' \in [Dataset -> Time]
        /\ \A e \in Dataset : dataset[e] # "new" =>
             dataset'[e] = dataset[e] /\ expires'[e] = expires[e]
    BY <1>1, <1>2 DEF TypeOK
  <1>4. NoOrphanInsight' /\ DeletionGone'
    BY <1>1, <1>3, KeyParts DEF NoOrphanInsight, DeletionGone, TypeOK, Row
  <1>5. \A e \in Dataset : dataset[e] # "new" =>
          dataset'[e] # "new" /\ (Live(e)' => Live(e))
    BY <1>3 DEF Live
  <1> QED
    BY <1>1, <1>3, <1>4, <1>5, UpkeepStep DEF TypeOK

LEMMA DeleteDatasetStep ==
  ASSUME IInv, NEW d \in Dataset, DeleteDataset(d) PROVE IInv'
  <1> USE DEF DeleteDataset, serving
  <1>1. LockTypeOK' /\ TypeOK /\ NoOrphanInsight /\ DeletionGone
    BY LockKept DEF IInv, Strengthening
  <1>2. NoOrphanInsight' /\ DeletionGone'
    BY <1>1, KeyParts DEF NoOrphanInsight, DeletionGone, TypeOK, Row
  <1>3. \A e \in Dataset : dataset[e] # "new" =>
          dataset'[e] # "new" /\ (Live(e)' => Live(e) /\ e # d)
    BY <1>1 DEF Live, TypeOK
  <1>4. \A i \in insights : Live(i.key[1])' => i \in insights'
    BY <1>1, <1>3, KeyParts DEF Live, TypeOK, Row
  <1> QED
    BY <1>1, <1>2, <1>3, <1>4, UpkeepStep DEF TypeOK

LEMMA DeleteInsightsStep ==
  ASSUME IInv, NEW d \in Dataset, DeleteInsights(d) PROVE IInv'
  <1> USE DEF DeleteInsights, serving
  <1>1. LockTypeOK' /\ TypeOK /\ NoOrphanInsight /\ DeletionGone
    BY LockKept DEF IInv, Strengthening
  <1>2. NoOrphanInsight' /\ DeletionGone'
    BY <1>1 DEF NoOrphanInsight, DeletionGone, TypeOK
  <1>3. ~Live(d)'
    BY <1>1 DEF DeletionGone, Live
  <1>4. \A i \in insights : Live(i.key[1])' => i \in insights'
    BY <1>3
  <1>5. \A e \in Dataset : Live(e)' => Live(e)
    BY DEF Live
  <1> QED
    BY <1>1, <1>2, <1>4, <1>5, UpkeepStep DEF TypeOK

\* The lock's side of a deletion, and an entry that lapses.
LEMMA InvalidateStep ==
  ASSUME IInv, NEW d \in Dataset, ScanDeleted(d) \/ DropDeleted(d)
  PROVE  IInv'
  <1> USE DEF ScanDeleted, DropDeleted, serving, tables
  <1>1. LockTypeOK' /\ TypeOK /\ NoOrphanInsight /\ DeletionGone
    BY LockTypeStep DEF IInv, Strengthening, TypeOK, LockNext
  <1>2. NoOrphanInsight' /\ DeletionGone'
    BY <1>1 DEF NoOrphanInsight, DeletionGone, TypeOK
  <1>3. \A e \in Dataset : Live(e)' => Live(e)
    BY DEF Live
  <1> QED
    BY <1>1, <1>2, <1>3, UpkeepStep DEF TypeOK

LEMMA LockLapsesStep ==
  ASSUME IInv, LockLapses PROVE IInv'
  <1> USE DEF LockLapses, serving, tables, upkeep
  <1>1. LockTypeOK' /\ TypeOK /\ NoOrphanInsight /\ DeletionGone
    BY LockTypeStep DEF IInv, Strengthening, TypeOK, LockNext
  <1>2. NoOrphanInsight' /\ DeletionGone'
    BY <1>1 DEF NoOrphanInsight, DeletionGone, TypeOK
  <1>3. \A e \in Dataset : Live(e)' => Live(e)
    BY DEF Live
  <1> QED
    BY <1>1, <1>2, <1>3, UpkeepStep DEF TypeOK

LEMMA CleanDatasetsStep ==
  ASSUME IInv, CleanDatasets PROVE IInv'
  <1> USE DEF CleanDatasets, serving
  <1>1. LockTypeOK' /\ TypeOK /\ NoOrphanInsight /\ DeletionGone
    BY LockKept DEF IInv, Strengthening
  <1>2. NoOrphanInsight' /\ DeletionGone'
    BY <1>1, KeyParts DEF NoOrphanInsight, DeletionGone, TypeOK, Row
  <1>3. \A e \in Dataset : dataset[e] # "new" =>
          dataset'[e] # "new" /\ (Live(e)' => Live(e))
    BY <1>1 DEF Live, TypeOK
  <1>4. \A i \in insights : Live(i.key[1])' => i \in insights'
    BY <1>1, KeyParts DEF Live, TypeOK, Row
  <1> QED
    BY <1>1, <1>2, <1>3, <1>4, UpkeepStep DEF TypeOK

LEMMA CleanInsightsStep ==
  ASSUME IInv, CleanInsights \/ CleanupFails PROVE IInv'
  <1> USE DEF CleanInsights, CleanupFails, serving, tables
  <1>1. LockTypeOK' /\ TypeOK /\ NoOrphanInsight /\ DeletionGone
    BY LockKept DEF IInv, Strengthening
  <1>2. NoOrphanInsight' /\ DeletionGone'
    BY <1>1 DEF NoOrphanInsight, DeletionGone, TypeOK
  <1>3. \A e \in Dataset : Live(e)' => Live(e)
    BY DEF Live
  <1>4. \A i \in insights : Live(i.key[1])' => i \in insights'
    BY <1>1 DEF Live, Fresh, NoOrphanInsight
  <1> QED
    BY <1>1, <1>2, <1>3, <1>4, UpkeepStep DEF TypeOK

LEMMA TickStep ==
  ASSUME IInv, Tick PROVE IInv'
  <1> USE DEF Tick, serving, upkeep
  <1>1. LockTypeOK' /\ TypeOK /\ NoOrphanInsight /\ DeletionGone
    BY LockKept DEF IInv, Strengthening
  <1>2. NoOrphanInsight' /\ DeletionGone'
    BY <1>1 DEF NoOrphanInsight, DeletionGone, TypeOK
  <1>3. now \in Nat /\ now' \in 0..MaxNow
    BY <1>1 DEF TypeOK
  <1>4. \A e \in Dataset : expires[e] \in Nat
    BY <1>1 DEF TypeOK, Time
  <1>5. \A e \in Dataset : Live(e)' => Live(e)
    BY <1>3, <1>4 DEF Live
  <1> QED
    BY <1>1, <1>2, <1>3, <1>5, UpkeepStep DEF TypeOK

LEMMA RestartStep ==
  ASSUME IInv, Restart PROVE IInv'
  <1> USE DEF Restart, tables
  <1>1. TypeOK /\ NoOrphanInsight /\ DeletionGone
    BY DEF IInv, Strengthening
  <1>2. LockTypeOK'
    BY <1>1 DEF TypeOK, LockTypeOK, LeaseState
  <1>3. NoOrphanInsight' /\ DeletionGone'
    BY <1>1 DEF NoOrphanInsight, DeletionGone, TypeOK
  <1>4. \A e \in Dataset : Live(e)' => Live(e)
    BY DEF Live
  <1>5. restarts' \in 0..MaxRestarts
    BY <1>1 DEF TypeOK
  <1> QED
    BY <1>1, <1>2, <1>3, <1>4, <1>5, UpkeepStep DEF TypeOK, Label

-----------------------------------------------------------------------------
(* The invariant *)

LEMMA Initially == Init => IInv
  <1> SUFFICES ASSUME Init PROVE IInv
    OBVIOUS
  <1> USE DEF Init
  <1>1. LockTypeOK
    BY DEF LockInit, LockTypeOK, LeaseState
  <1>2. TypeOK
    BY <1>1, FailureType DEF TypeOK, Time, Label, Status
  <1>3. UniqueInsight /\ NoOrphanInsight /\ DeletionGone
    BY DEF UniqueInsight, NoOrphanInsight, DeletionGone
  <1>4. \A r \in Request : /\ pc[r] = "get"
                           /\ result[r] = Failure("none")
                           /\ result[r].status = "none"
    BY DEF Failure
  <1>5. ServeInv
    BY <1>4 DEF ServeInv, KnownDataset, PendingRow, Unanswered,
                FreshOnRecord, FreshAnswersAgree, LiveNeverFails
  <1> QED
    BY <1>2, <1>3, <1>5, Parts DEF TableInv

LEMMA Stutter ==
  ASSUME IInv, UNCHANGED vars PROVE IInv'
  <1> USE DEF vars, lockVars, serving, tables, upkeep
  <1>1. LockTypeOK' /\ TypeOK /\ NoOrphanInsight /\ DeletionGone
    BY LockKept DEF IInv, Strengthening
  <1>2. NoOrphanInsight' /\ DeletionGone'
    BY <1>1 DEF NoOrphanInsight, DeletionGone
  <1>3. \A e \in Dataset : Live(e)' => Live(e)
    BY DEF Live
  <1> QED
    BY <1>1, <1>2, <1>3, UpkeepStep DEF TypeOK

LEMMA Inductive == IInv /\ [Next]_vars => IInv'
  <1> SUFFICES ASSUME IInv, [Next]_vars PROVE IInv'
    OBVIOUS
  <1>1. ASSUME NEW r \in Request, GetDataset(r) \/ Progress(r) PROVE IInv'
    BY <1>1, GetDatasetStep, GetScopeStep, LookupStep, HoldStep, PollStep,
       ErrorStep, RecheckStep, ModelAnswersStep, RefreshStep,
       CheckDatasetStep, InsertStep, RereadStep, EndLeaseStep DEF Progress
  <1>2. ASSUME NEW d \in Dataset,
               \/ Upload(d) \/ DeleteDataset(d) \/ DeleteInsights(d)
               \/ ScanDeleted(d) \/ DropDeleted(d)
        PROVE  IInv'
    BY <1>2, UploadStep, DeleteDatasetStep, DeleteInsightsStep, InvalidateStep
  <1>3. CASE CleanDatasets \/ CleanInsights \/ CleanupFails
    BY <1>3, CleanDatasetsStep, CleanInsightsStep
  <1>4. CASE Tick \/ LockLapses \/ Restart
    BY <1>4, TickStep, LockLapsesStep, RestartStep
  <1>5. CASE UNCHANGED vars
    BY <1>5, Stutter
  <1> QED
    BY <1>1, <1>2, <1>3, <1>4, <1>5 DEF Next

(***************************************************************************)
(* The inductive invariant of insight generation.                          *)
(***************************************************************************)
THEOREM GenerationInvariant == Spec => []IInv
  BY Initially, Inductive, PTL DEF Spec

(***************************************************************************)
(* A fingerprint never has two insights, whatever happens to the lock: it  *)
(* may lapse, be deleted under its holder, or not exist at all.            *)
(***************************************************************************)
THEOREM InsightIsUnique == Spec => []UniqueInsight
  <1>1. IInv => UniqueInsight
    BY DEF IInv
  <1> QED
    BY <1>1, GenerationInvariant, PTL

(***************************************************************************)
(* No insight outlives its dataset, and it expires when the dataset does.  *)
(***************************************************************************)
THEOREM InsightHasDataset == Spec => []NoOrphanInsight
  <1>1. IInv => NoOrphanInsight
    BY DEF IInv
  <1> QED
    BY <1>1, GenerationInvariant, PTL

(***************************************************************************)
(* Fresh answers about one scope agree: a losing writer answers with the   *)
(* winner's insight, and a refresh cannot replace a live one.              *)
(***************************************************************************)
THEOREM FreshAnswersAlwaysAgree == Spec => []FreshAnswersAgree
  <1>1. IInv => FreshAnswersAgree
    BY DEF IInv
  <1> QED
    BY <1>1, GenerationInvariant, PTL

(***************************************************************************)
(* While a dataset is live no request for it is answered with a 500.       *)
(***************************************************************************)
THEOREM LiveNeverAnswers500 == Spec => []LiveNeverFails
  <1>1. IInv => LiveNeverFails
    BY DEF IInv
  <1> QED
    BY <1>1, GenerationInvariant, PTL

(***************************************************************************)
(* However far a request had got when its dataset was deleted or cleaned   *)
(* up, no answer settles on an insight after that: what the lookup, the    *)
(* poll, the recheck and the reread find, and what the refresh and the     *)
(* insert write, is a row that its dataset's row keeps alive.              *)
(***************************************************************************)
THEOREM OnlyStoredDatasetsServe == Spec => OnlyStoredIsServed
  <1> DEFINE Served(r) == result'[r] # result[r] /\ result'[r].status = "ok"
                            => dataset[DatasetOf(r)] = "stored"
  <1>1. ASSUME IInv, NEW r \in Request, GetDataset(r) \/ Progress(r)
        PROVE  \A q \in Request : Served(q)
    <2>1. \A q \in Request \ {r} : result'[q] = result[q]
      BY <1>1
      DEF IInv, TypeOK, GetDataset, Progress, GetScope, Lookup, Hold, Poll,
          GiveUp, Recheck, ModelAnswers, ModelFails, Refresh, CheckDataset,
          Insert, Reread, EndLease, Answer
    <2>2. RowsOf(Target[r]) # {} => dataset[DatasetOf(r)] = "stored"
      BY <1>1, AtRequest
    <2>3. CASE GetDataset(r) \/ GetScope(r) \/ Hold(r) \/ GiveUp(r)
                 \/ ModelAnswers(r) \/ ModelFails(r) \/ CheckDataset(r)
                 \/ EndLease(r)
      BY <2>3, <1>1
      DEF IInv, TypeOK, GetDataset, GetScope, Hold, GiveUp, ModelAnswers,
          ModelFails, CheckDataset, EndLease, Answer, Failure
    <2>4. CASE Lookup(r) \/ Poll(r) \/ Recheck(r) \/ Refresh(r) \/ Reread(r)
      <3>1. result' # result /\ RowsOf(Target[r]) = {}
              => Answer(r, Failure("server_error"))
        BY <2>4 DEF Lookup, Poll, Recheck, Refresh, Reread
      <3>2. Answer(r, Failure("server_error")) => result'[r].status # "ok"
        BY <1>1 DEF IInv, TypeOK, Answer, Failure
      <3> QED
        BY <2>1, <2>2, <3>1, <3>2
    <2>5. CASE Insert(r)
      BY <2>1, <2>5 DEF Insert
    <2> QED
      BY <1>1, <2>1, <2>3, <2>4, <2>5 DEF Progress
  <1>2. ASSUME NEW d \in Dataset,
               Upload(d) \/ DeleteDataset(d) \/ DeleteInsights(d)
                 \/ ScanDeleted(d) \/ DropDeleted(d)
        PROVE  UNCHANGED result
    BY <1>2
    DEF Upload, DeleteDataset, DeleteInsights, ScanDeleted, DropDeleted, serving
  <1>3. CleanDatasets \/ CleanInsights \/ CleanupFails \/ Tick \/ LockLapses
          \/ Restart \/ UNCHANGED vars => UNCHANGED result
    BY DEF CleanDatasets, CleanInsights, CleanupFails, Tick, LockLapses,
           Restart, vars, serving
  <1>4. IInv /\ [Next]_vars => [\A r \in Request : Served(r)]_vars
    BY <1>1, <1>2, <1>3 DEF Next
  <1> QED
    BY <1>4, GenerationInvariant, PTL DEF Spec, OnlyStoredIsServed

-----------------------------------------------------------------------------
(* Insight generation implements the get-or-create register of             *)
(* InsightContract.                                                        *)

LEMMA InitRefines == Init => Contract!ContractInit
  <1> SUFFICES ASSUME Init PROVE Contract!ContractInit
    OBVIOUS
  <1>1. Life = [d \in Dataset |-> "new"]
    BY DEF Init, Life
  <1>2. OnFile = {}
    BY DEF Init, OnFile
  <1>3. AnswerId = [r \in Request |-> NoToken]
    BY DEF Init, AnswerId, Failure
  <1> QED
    BY <1>1, <1>2, <1>3 DEF Contract!ContractInit

\* The dataset and insight tables decide what is on record.
LEMMA TablesKept ==
  ASSUME UNCHANGED tables PROVE Life' = Life /\ OnFile' = OnFile
  BY DEF tables, Life, Live, OnFile

\* A request answers with its first answer, or keeps quiet.
LEMMA AnswerIdAfter ==
  ASSUME IInv, NEW r \in Request, NEW a, Answer(r, a)
  PROVE  AnswerId' = [AnswerId EXCEPT ![r] = a.id]
  BY DEF IInv, TypeOK, Answer, AnswerId

LEMMA NotYetAnswered ==
  ASSUME IInv, NEW r \in Request, pc[r] \notin {"release", "done", "lost"}
  PROVE  AnswerId[r] = NoToken
  <1>1. result[r] = Failure("none")
    BY AtRequest
  <1> QED
    BY <1>1 DEF Failure, AnswerId

\* Failing, and going on without an answer, changes nothing.
LEMMA FailureStutters ==
  ASSUME IInv, NEW r \in Request, pc[r] \notin {"release", "done", "lost"},
         NEW s, Answer(r, Failure(s)), UNCHANGED tables
  PROVE  UNCHANGED Contract!contractVars
  <1>1. AnswerId' = [AnswerId EXCEPT ![r] = NoToken]
    BY AnswerIdAfter DEF Failure
  <1>2. AnswerId' = AnswerId
    BY <1>1, NotYetAnswered DEF AnswerId
  <1> QED
    BY <1>2, TablesKept DEF Contract!contractVars

LEMMA SilentStutters ==
  ASSUME UNCHANGED <<tables, result>> PROVE UNCHANGED Contract!contractVars
  BY TablesKept DEF AnswerId, Contract!contractVars

\* Answering with a row of the fingerprint is Reuse.
LEMMA FoundReuses ==
  ASSUME IInv, NEW r \in Request, pc[r] \notin {"release", "done", "lost"},
         NEW i \in RowsOf(Target[r]), Answer(r, Found(i)), UNCHANGED tables
  PROVE  Contract!Reuse(r)
  <1>1. i \in Row /\ i \in insights /\ i.key = Target[r] /\ i.id \in Request
    BY AtRequest DEF RowsOf, Row
  <1>2. AnswerId' = [AnswerId EXCEPT ![r] = i.id]
    BY AnswerIdAfter DEF Found
  <1>3. <<Target[r], i.id>> \in OnFile
    BY <1>1 DEF OnFile
  <1> QED
    BY <1>1, <1>2, <1>3, NotYetAnswered, TablesKept DEF Contract!Reuse

LEMMA RefreshReuses ==
  ASSUME IInv, NEW r \in Request, Refresh(r)
  PROVE  Contract!Reuse(r) \/ UNCHANGED Contract!contractVars
  <1> USE DEF Refresh
  <1>1. CASE RowsOf(Target[r]) = {}
    BY <1>1, FailureStutters DEF tables
  <1>2. ASSUME NEW i \in RowsOf(Target[r]), NEW new,
               new = [i EXCEPT !.payload = r, !.expires = expires[i.key[1]]],
               insights' = (insights \ {i}) \cup {new}, Answer(r, Found(new))
        PROVE  Contract!Reuse(r)
    <2>1. i \in Row /\ i \in insights /\ i.key = Target[r] /\ i.id \in Request
      BY AtRequest DEF RowsOf, Row
    <2>2. new.key = i.key /\ new.id = i.id
      BY <1>2, <2>1 DEF Row
    <2>3. OnFile' = OnFile
      <3>1. \A j \in insights' : <<j.key, j.id>> \in OnFile
        BY <1>2, <2>1, <2>2 DEF OnFile
      <3>2. \A j \in insights : \E n \in insights' :
              <<j.key, j.id>> = <<n.key, n.id>>
        BY <1>2, <2>2
      <3>3. OnFile' \subseteq OnFile
        BY <3>1 DEF OnFile
      <3>4. OnFile \subseteq OnFile'
        BY <3>2 DEF OnFile
      <3> QED
        BY <3>3, <3>4
    <2>a. Found(new).id = i.id
      BY <2>2 DEF Found
    <2>4. AnswerId' = [AnswerId EXCEPT ![r] = i.id]
      BY <1>2, <2>a, AnswerIdAfter
    <2>5. <<Target[r], i.id>> \in OnFile
      BY <2>1 DEF OnFile
    <2>6. Life' = Life
      BY DEF Life, Live
    <2> QED
      BY <2>1, <2>3, <2>4, <2>5, <2>6, NotYetAnswered DEF Contract!Reuse
  <1> QED
    BY <1>1, <1>2

LEMMA InsertCreates ==
  ASSUME IInv, NEW r \in Request, Insert(r)
  PROVE  Contract!Create(r) \/ UNCHANGED Contract!contractVars
  <1> USE DEF Insert
  <1>1. CASE dataset[DatasetOf(r)] = "stored" /\ RowsOf(Target[r]) = {}
    <2> DEFINE new == [id |-> r, key |-> Target[r], payload |-> r,
                       expires |-> expires[DatasetOf(r)]]
    <2>1. insights' = insights \cup {new} /\ Answer(r, Found(new))
      BY <1>1
    <2>2. new.key = Target[r] /\ new.id = r
      OBVIOUS
    <2> HIDE DEF new
    <2>3. OnFile' = OnFile \cup {<<Target[r], r>>}
      BY <2>1, <2>2 DEF OnFile
    <2>4. AnswerId' = [AnswerId EXCEPT ![r] = r]
      BY <2>1, <2>2, AnswerIdAfter DEF Found
    <2>5. Life[Target[r][1]] \in {"live", "expired"}
      BY <1>1, KeyParts DEF Life, DatasetOf
    <2>6. \A p \in OnFile : p[1] # Target[r]
      BY <1>1 DEF OnFile, RowsOf
    <2>7. Life' = Life
      BY DEF Life, Live
    <2> QED
      BY <2>3, <2>4, <2>5, <2>6, <2>7, NotYetAnswered DEF Contract!Create
  <1>2. CASE ~(dataset[DatasetOf(r)] = "stored" /\ RowsOf(Target[r]) = {})
    BY <1>2, SilentStutters DEF tables
  <1> QED
    BY <1>1, <1>2

LEMMA RequestRefines ==
  ASSUME IInv, NEW r \in Request, GetDataset(r) \/ Progress(r)
  PROVE  Contract!Create(r) \/ Contract!Reuse(r)
           \/ UNCHANGED Contract!contractVars
  <1>1. CASE GetDataset(r) \/ GetScope(r) \/ GiveUp(r) \/ ModelFails(r)
               \/ CheckDataset(r)
    BY <1>1, FailureStutters, SilentStutters
    DEF GetDataset, GetScope, GiveUp, ModelFails, CheckDataset
  <1>2. CASE Lookup(r) \/ Poll(r) \/ Recheck(r)
    BY <1>2, FoundReuses, SilentStutters DEF Lookup, Poll, Recheck
  <1>3. CASE Reread(r)
    BY <1>3, FoundReuses, FailureStutters DEF Reread
  <1>4. CASE Hold(r) \/ ModelAnswers(r) \/ EndLease(r)
    BY <1>4, SilentStutters DEF Hold, ModelAnswers, EndLease
  <1> QED
    BY <1>1, <1>2, <1>3, <1>4, RefreshReuses, InsertCreates DEF Progress

-----------------------------------------------------------------------------
(* The steps that no request takes *)

LEMMA UploadOpens ==
  ASSUME IInv, NEW d \in Dataset, Upload(d) PROVE Contract!Open(d)
  <1> USE DEF Upload, serving
  <1>1. TypeOK
    BY DEF IInv
  <1>2. Life[d] = "new"
    BY DEF Life
  <1>3. Live(d)'
    BY <1>1 DEF Live, TypeOK
  <1>4. \A e \in Dataset \ {d} :
          dataset'[e] = dataset[e] /\ expires'[e] = expires[e]
    BY <1>1 DEF TypeOK
  <1>5. Life' = [e \in Dataset |-> IF e \in {d} THEN "live" ELSE Life[e]]
    BY <1>1, <1>3, <1>4 DEF Life, Live, TypeOK
  <1>6. UNCHANGED <<OnFile, AnswerId>>
    BY DEF OnFile, AnswerId
  <1> QED
    BY <1>2, <1>5, <1>6 DEF Contract!Open, Contract!Become

LEMMA TickExpires ==
  ASSUME IInv, Tick
  PROVE  \E D \in SUBSET Dataset : Contract!Expire(D)
  <1> USE DEF Tick, serving
  <1> DEFINE D == {d \in Dataset : Live(d) /\ ~(now + 1 < expires[d])}
  <1>1. now \in Nat /\ \A d \in Dataset : expires[d] \in Nat
    BY DEF IInv, TypeOK, Time
  <1>2. \A d \in D : Life[d] = "live"
    BY DEF Life, Live
  <1>3. Life' = [d \in Dataset |-> IF d \in D THEN "expired" ELSE Life[d]]
    BY <1>1 DEF Life, Live
  <1>4. UNCHANGED <<OnFile, AnswerId>>
    BY DEF OnFile, AnswerId
  <1>5. D \in SUBSET Dataset
    OBVIOUS
  <1> QED
    BY <1>2, <1>3, <1>4, <1>5 DEF Contract!Expire, Contract!Become

\* Deleting the datasets D takes their rows with them.
LEMMA RemovalRetires ==
  ASSUME IInv, NEW D \in SUBSET Dataset,
         \A d \in D : dataset[d] = "stored",
         dataset' = [d \in Dataset |-> IF d \in D THEN "gone" ELSE dataset[d]],
         insights' = {i \in insights : i.key[1] \notin D},
         UNCHANGED <<now, expires, result>>
  PROVE  Contract!Retire(D)
  <1>1. \A d \in D : Life[d] \in {"live", "expired"}
    BY DEF Life
  <1>2. Life' = [d \in Dataset |-> IF d \in D THEN "gone" ELSE Life[d]]
    BY DEF Life, Live
  <1>3. OnFile' = {p \in OnFile : p[1][1] \notin D}
    BY DEF OnFile
  <1>4. UNCHANGED AnswerId
    BY DEF AnswerId
  <1> QED
    BY <1>1, <1>2, <1>3, <1>4
    DEF Contract!Retire, Contract!Become, Contract!Forget

\* By then the dataset has no rows left.
LEMMA DeleteInsightsStutters ==
  ASSUME IInv, NEW d \in Dataset, DeleteInsights(d)
  PROVE  UNCHANGED Contract!contractVars
  <1>1. \A i \in insights : i.key[1] # d
    BY DEF IInv, Strengthening, DeletionGone, NoOrphanInsight, DeleteInsights
  <1> QED
    BY <1>1, SilentStutters DEF DeleteInsights, tables, serving

\* The rows that have expired are those of the expired datasets.
LEMMA CleanInsightsPurges ==
  ASSUME IInv, CleanInsights
  PROVE  \E D \in SUBSET Dataset : Contract!Purge(D)
  <1> USE DEF CleanInsights, serving
  <1> DEFINE D == {d \in Dataset : Life[d] = "expired"}
  <1>1. \A i \in insights : Fresh(i) <=> i.key[1] \notin D
    <2> SUFFICES ASSUME NEW i \in insights PROVE Fresh(i) <=> i.key[1] \notin D
      OBVIOUS
    <2>1. i.key[1] \in Dataset
      BY KeyParts DEF IInv, TypeOK, Row
    <2>2. dataset[i.key[1]] = "stored" /\ i.expires = expires[i.key[1]]
      BY DEF IInv, NoOrphanInsight
    <2> QED
      BY <2>1, <2>2 DEF Life, Live, Fresh
  <1>2. OnFile' = {p \in OnFile : p[1][1] \notin D}
    BY <1>1 DEF OnFile
  <1>3. UNCHANGED <<Life, AnswerId>>
    BY DEF Life, Live, AnswerId
  <1>4. D \in SUBSET Dataset /\ \A d \in D : Life[d] = "expired"
    OBVIOUS
  <1> QED
    BY <1>2, <1>3, <1>4 DEF Contract!Purge, Contract!Forget

(***************************************************************************)
(* Every step is a step of the register or a stutter.                      *)
(***************************************************************************)
LEMMA NextRefines ==
  IInv /\ [Next]_vars => [Contract!ContractNext]_(Contract!contractVars)
  <1> SUFFICES ASSUME IInv, [Next]_vars
               PROVE  Contract!ContractNext \/ UNCHANGED Contract!contractVars
    OBVIOUS
  <1> USE DEF Contract!ContractNext
  <1>1. ASSUME NEW r \in Request, GetDataset(r) \/ Progress(r)
        PROVE  Contract!ContractNext \/ UNCHANGED Contract!contractVars
    BY <1>1, RequestRefines
  <1>2. ASSUME NEW d \in Dataset, Upload(d) PROVE Contract!ContractNext
    BY <1>2, UploadOpens
  <1>3. ASSUME NEW d \in Dataset, DeleteDataset(d)
        PROVE  Contract!ContractNext
    <2>1. dataset' = [e \in Dataset |-> IF e \in {d} THEN "gone"
                                                     ELSE dataset[e]]
      BY <1>3 DEF DeleteDataset, IInv, TypeOK
    <2>2. insights' = {i \in insights : i.key[1] \notin {d}}
      BY <1>3 DEF DeleteDataset
    <2>3. Contract!Retire({d})
      BY <1>3, <2>1, <2>2, RemovalRetires DEF DeleteDataset, serving
    <2> QED
      BY <2>3
  <1>4. ASSUME NEW d \in Dataset,
               DeleteInsights(d) \/ ScanDeleted(d) \/ DropDeleted(d)
        PROVE  UNCHANGED Contract!contractVars
    BY <1>4, DeleteInsightsStutters, SilentStutters
    DEF ScanDeleted, DropDeleted, serving
  <1>5. CASE CleanDatasets
    <2> DEFINE dead == {d \in Dataset : dataset[d] = "stored"
                                          /\ expires[d] <= now}
    <2>1. Contract!Retire(dead)
      BY <1>5, RemovalRetires DEF CleanDatasets, serving
    <2> QED
      BY <2>1
  <1>6. CASE CleanInsights
    BY <1>6, CleanInsightsPurges
  <1>7. CASE Tick
    BY <1>7, TickExpires
  <1>8. CASE CleanupFails \/ LockLapses \/ Restart
    BY <1>8, SilentStutters DEF CleanupFails, LockLapses, Restart, serving
  <1>9. CASE UNCHANGED vars
    BY <1>9, SilentStutters DEF vars, serving
  <1> QED
    BY <1>1, <1>2, <1>3, <1>4, <1>5, <1>6, <1>7, <1>8, <1>9 DEF Next

(***************************************************************************)
(* POST /insights is a get-or-create register, whatever the lock does and  *)
(* wherever deletions, cleanups and restarts fall.                         *)
(***************************************************************************)
THEOREM GenerationImplementsContract == Spec => ImplementsContract
  BY GenerationInvariant, InitRefines, NextRefines, PTL
  DEF Spec, ImplementsContract, Contract!ContractSpec

-----------------------------------------------------------------------------
(***************************************************************************)
(* MemoryStores, over both backends.  With the database a step is a step   *)
(* of InsightGeneration and its invariant carries over; the in-memory      *)
(* stores have no constraint to rely on and need an invariant of their     *)
(* own.                                                                    *)
(***************************************************************************)

\* An insight lives at least as long as its dataset.
Outlives ==
  /\ \A d \in Dataset : expires[d] <= now + Retention
  /\ \A i \in insights :
       dataset[i.key[1]] # "new" /\ expires[i.key[1]] <= i.expires

\* A record has an id of its own, and the fingerprint its creator asked for.
OneRecord ==
  /\ \A i, j \in insights : i.id = j.id => i = j
  /\ \A i \in insights : i.key = Target[i.id]

\* The index names records of the fingerprint only, and every fresh record.
IndexNames ==
  /\ index \in [Key -> Request \cup {NoToken}]
  /\ \A k \in Key : index[k] # NoToken => Target[index[k]] = k
  /\ \A i \in insights : Fresh(i) => index[i.key] = i.id

\* A request that has a record has been answered.
Created ==
  \A i \in insights : pc[i.id] \in {"release", "done", "lost"}

\* Only the insight of a dataset that has expired is generated again.
NoLiveRefresh ==
  \A r \in Request :
    Live(DatasetOf(r)) => pc[r] \notin {"regenerate", "refresh"}

StoreInv == Outlives /\ OneRecord /\ IndexNames
MemoryServeInv ==
  Created /\ KnownDataset /\ NoLiveRefresh /\ Unanswered /\ LiveNeverFails

MemoryInv == TypeOK /\ StoreInv /\ MemoryServeInv

StoresInv ==
  \/ storage = "memory" /\ MemoryInv
  \/ storage = "database" /\ IInv

-----------------------------------------------------------------------------
(* The steps of a request over the in-memory stores *)

\* What a request may do next: label l with answer a.
MayMove(r, l, a) ==
  /\ l \notin {"get", "done", "lost"} \/ a.status \in {"ok", "server_error"}
       => dataset[DatasetOf(r)] # "new"
  /\ Live(DatasetOf(r)) =>
       l \notin {"regenerate", "refresh"} /\ a.status # "server_error"
  /\ l \notin {"release", "done", "lost"} => a = Failure("none")

\* No dataset is uploaded and none stops being live.
DatasetsKept ==
  /\ dataset' \in [Dataset -> {"new", "stored", "gone"}]
  /\ \A d \in Dataset : /\ dataset'[d] = "new" <=> dataset[d] = "new"
                        /\ Live(d)' <=> Live(d)

LEMMA SameDatasets ==
  ASSUME TypeOK, UNCHANGED <<now, dataset, expires>> PROVE DatasetsKept
  BY DEF DatasetsKept, Live, TypeOK

\* Reading an expired dataset may drop it, and does no more to it.
LEMMA DroppedKeeps ==
  ASSUME TypeOK, NEW d \in Dataset, dataset' = Dropped(d),
         UNCHANGED <<now, expires>>
  PROVE  DatasetsKept
  BY DEF DatasetsKept, Dropped, Live, TypeOK

\* What the invariant says of the request that takes the step.
LEMMA MemoryRequest ==
  ASSUME MemoryInv, NEW r \in Request
  PROVE  /\ pc[r] \in Label /\ result[r] \in Result
         /\ result = [result EXCEPT ![r] = result[r]]
         /\ DatasetOf(r) \in Dataset /\ Target[r] \in Key
         /\ pc[r] \notin {"get", "done", "lost"}
              => dataset[DatasetOf(r)] # "new"
         /\ result[r].status \in {"ok", "server_error"}
              => dataset[DatasetOf(r)] # "new"
         /\ pc[r] \notin {"release", "done", "lost"}
              => result[r] = Failure("none")
         /\ Live(DatasetOf(r)) =>
              /\ pc[r] \notin {"regenerate", "refresh"}
              /\ result[r].status # "server_error"
         /\ \A i \in Indexed(Target[r]) :
              /\ i \in Row /\ i \in insights /\ i.key = Target[r]
              /\ dataset[DatasetOf(r)] # "new"
              /\ expires[DatasetOf(r)] <= i.expires
  <1>1. DatasetOf(r) \in Dataset /\ Target[r] \in Key
    BY KeyParts
  <1>2. pc[r] \in Label /\ result[r] \in Result
          /\ result = [result EXCEPT ![r] = result[r]]
    BY DEF MemoryInv, TypeOK
  <1>3. ASSUME NEW i \in Indexed(Target[r])
        PROVE  /\ i \in Row /\ i \in insights /\ i.key = Target[r]
               /\ dataset[DatasetOf(r)] # "new"
               /\ expires[DatasetOf(r)] <= i.expires
    <2>1. i \in insights /\ i \in Row /\ i.id = index[Target[r]]
      BY DEF MemoryInv, TypeOK, Indexed
    <2>2. i.id \in Request /\ i.id # NoToken
      BY <2>1 DEF Row
    <2>3. i.key = Target[r]
      BY <1>1, <2>1, <2>2 DEF MemoryInv, StoreInv, OneRecord, IndexNames
    <2> QED
      BY <2>1, <2>3 DEF MemoryInv, StoreInv, Outlives, DatasetOf
  <1> QED
    BY <1>1, <1>2, <1>3
    DEF MemoryInv, MemoryServeInv, KnownDataset, NoLiveRefresh, Unanswered,
        LiveNeverFails

(***************************************************************************)
(* A step of request r that goes to label l with answer a keeps the        *)
(* invariant if the records stay in order and r may move there.            *)
(***************************************************************************)
LEMMA MemoryWrites ==
  ASSUME MemoryInv, LockTypeOK', StoreInv', insights' \subseteq Row,
         UNCHANGED <<now, expires, upkeep>>,
         DatasetsKept,
         NEW r \in Request, NEW l \in Label, NEW a \in Result,
         Go(r, l), Answer(r, a), MayMove(r, l, a),
         \A i \in insights' :
           IF i.id = r THEN l \in {"release", "done", "lost"}
                       ELSE pc[i.id] \in {"release", "done", "lost"}
  PROVE  MemoryInv'
  <1> USE DEF upkeep, Go, Answer
  <1>1. TypeOK'
    BY DEF MemoryInv, TypeOK, DatasetsKept
  <1>2. /\ \A q \in Request : pc'[q] = (IF q = r THEN l ELSE pc[q])
        /\ \A q \in Request : result'[q] = (IF q = r THEN a ELSE result[q])
    BY DEF MemoryInv, TypeOK
  <1>3. \A q \in Request : DatasetOf(q) \in Dataset /\ DatasetOf(q)' = DatasetOf(q)
    BY KeyParts DEF DatasetOf
  <1>4. Created'
    BY <1>2 DEF Created, Row
  <1>5. KnownDataset'
    BY <1>2, <1>3 DEF MemoryInv, MemoryServeInv, KnownDataset, MayMove,
        DatasetsKept
  <1>6. NoLiveRefresh'
    BY <1>2, <1>3 DEF MemoryInv, MemoryServeInv, NoLiveRefresh, MayMove,
        DatasetsKept
  <1>7. Unanswered'
    <2>1. Unanswered
      BY DEF MemoryInv, MemoryServeInv
    <2> QED
      BY ONLY <1>2, <2>1, MayMove(r, l, a) DEF Unanswered, MayMove, Failure
  <1>8. LiveNeverFails'
    BY <1>2, <1>3 DEF MemoryInv, MemoryServeInv, LiveNeverFails, MayMove,
        DatasetsKept
  <1> QED
    BY <1>1, <1>4, <1>5, <1>6, <1>7, <1>8 DEF MemoryInv, MemoryServeInv

\* The case of a step that leaves the insights alone.
LEMMA MemoryReads ==
  ASSUME MemoryInv, LockTypeOK',
         UNCHANGED <<now, expires, insights, upkeep, index>>,
         DatasetsKept,
         NEW r \in Request, NEW l \in Label, NEW a \in Result,
         pc[r] \notin {"done", "lost"},
         pc[r] = "release" => l \in {"release", "done"},
         Go(r, l), Answer(r, a), MayMove(r, l, a)
  PROVE  MemoryInv'
  <1>1. insights' \subseteq Row /\ \A i \in insights : i.key[1] \in Dataset
    BY KeyParts DEF MemoryInv, TypeOK, Row
  <1>2. StoreInv'
    BY <1>1
    DEF MemoryInv, StoreInv, Outlives, OneRecord, IndexNames, Fresh,
        DatasetsKept
  <1>3. \A i \in insights' :
          IF i.id = r THEN l \in {"release", "done", "lost"}
                      ELSE pc[i.id] \in {"release", "done", "lost"}
    BY DEF MemoryInv, MemoryServeInv, Created
  <1> QED
    BY <1>1, <1>2, <1>3, MemoryWrites

LEMMA LiveIsKnown == \A d : Live(d) => dataset[d] # "new"
  BY DEF Live

LEMMA FailureMoves ==
  ASSUME NEW r \in Request, NEW s \in Status \ {"ok"},
         NEW l \in {"release", "done"},
         l = "release" \/ s = "server_error" => dataset[DatasetOf(r)] # "new",
         s = "server_error" => ~Live(DatasetOf(r))
  PROVE  MayMove(r, l, Failure(s)) /\ Failure(s) \in Result
  BY FailureType DEF MayMove, Failure

\* A record that the index names may be the answer.
LEMMA IndexedMoves ==
  ASSUME MemoryInv, NEW r \in Request, NEW i \in Indexed(Target[r]),
         NEW l \in {"release", "done"}
  PROVE  MayMove(r, l, Found(i)) /\ Found(i) \in Result
  <1>1. i \in Row /\ dataset[DatasetOf(r)] # "new"
    BY MemoryRequest
  <1>2. Found(i) \in Result /\ Found(i).status = "ok"
    BY <1>1, FoundType DEF MemoryInv, Found
  <1> QED
    BY <1>1, <1>2 DEF MayMove

\* Moving on without an answer.
LEMMA MovesOn ==
  ASSUME MemoryInv, NEW r \in Request,
         NEW l \in Label \ {"get", "done", "lost", "release"},
         pc[r] \notin {"release", "done", "lost"},
         dataset[DatasetOf(r)] # "new",
         Live(DatasetOf(r)) => l \notin {"regenerate", "refresh"}
  PROVE  MayMove(r, l, result[r])
  <1>1. result[r] = Failure("none")
    BY MemoryRequest
  <1>2. result[r].status = "none"
    BY <1>1 DEF Failure
  <1> QED
    BY <1>1, <1>2 DEF MayMove

LEMMA MemoryGetDatasetStep ==
  ASSUME MemoryInv, NEW r \in Request, MemoryGetDataset(r) PROVE MemoryInv'
  <1> USE DEF MemoryGetDataset
  <1>1. LockTypeOK' /\ DatasetsKept /\ pc[r] = "get"
    BY LockKept, DroppedKeeps, KeyParts DEF MemoryInv
  <1>2. CASE Live(DatasetOf(r))
    <2>1. MayMove(r, "scope", result[r])
      BY <1>1, <1>2, MovesOn, LiveIsKnown DEF Label
    <2> QED
      BY <1>1, <1>2, <2>1, MemoryReads, MemoryRequest DEF Label, Answer
  <1>3. CASE ~Live(DatasetOf(r))
    <2>1. MayMove(r, "done", Failure("not_found"))
            /\ Failure("not_found") \in Result
      BY FailureMoves DEF Status
    <2> QED
      BY <1>1, <1>3, <2>1, MemoryReads DEF Label
  <1> QED
    BY <1>2, <1>3

LEMMA MemoryGetScopeStep ==
  ASSUME MemoryInv, NEW r \in Request, MemoryGetScope(r) PROVE MemoryInv'
  <1> USE DEF MemoryGetScope
  <1>1. /\ LockTypeOK' /\ DatasetsKept /\ pc[r] = "scope"
        /\ dataset[DatasetOf(r)] # "new"
    BY LockKept, DroppedKeeps, KeyParts, MemoryRequest DEF MemoryInv
  <1>2. ASSUME NEW s \in {"not_found", "empty"},
               Go(r, "done"), Answer(r, Failure(s))
        PROVE  MemoryInv'
    <2>1. MayMove(r, "done", Failure(s)) /\ Failure(s) \in Result
      BY FailureMoves DEF Status
    <2> QED
      BY <1>1, <1>2, <2>1, MemoryReads DEF Label
  <1>3. ASSUME Go(r, "lookup"), UNCHANGED result PROVE MemoryInv'
    <2>1. MayMove(r, "lookup", result[r])
      BY <1>1, MovesOn DEF Label
    <2> QED
      BY <1>1, <1>3, <2>1, MemoryReads, MemoryRequest DEF Label, Answer
  <1> QED
    BY <1>2, <1>3

LEMMA MemoryReuseStep ==
  ASSUME MemoryInv, NEW r \in Request,
         NEW from \in {"lookup", "wait", "recheck"},
         NEW to \in {"release", "done"}, MemoryReuse(r, from, to)
  PROVE  MemoryInv'
  <1> USE DEF MemoryReuse, tables
  <1>1. LockTypeOK' /\ DatasetsKept
    BY LockKept, SameDatasets DEF MemoryInv
  <1>2. PICK i \in Indexed(Target[r]) : Answer(r, Found(i))
    OBVIOUS
  <1>3. MayMove(r, to, Found(i)) /\ Found(i) \in Result
    BY IndexedMoves
  <1> QED
    BY <1>1, <1>2, <1>3, MemoryReads DEF Label

\* A step that goes on without an answer and leaves the tables alone.
LEMMA MemoryGoesOn ==
  ASSUME MemoryInv, LockTypeOK', NEW r \in Request,
         pc[r] \notin {"get", "release", "done", "lost"},
         NEW l \in Label \ {"get", "done", "lost", "release"},
         Live(DatasetOf(r)) => l \notin {"regenerate", "refresh"},
         Go(r, l), UNCHANGED <<tables, result, upkeep, index>>
  PROVE  MemoryInv'
  <1> USE DEF tables
  <1>1. DatasetsKept /\ MayMove(r, l, result[r]) /\ result[r] \in Result
          /\ Answer(r, result[r])
    BY SameDatasets, MovesOn, MemoryRequest DEF MemoryInv, Answer
  <1> QED
    BY <1>1, MemoryReads

LEMMA MemoryLookupStep ==
  ASSUME MemoryInv, NEW r \in Request, MemoryLookup(r) PROVE MemoryInv'
  <1>1. CASE MemoryReuse(r, "lookup", "done")
    BY <1>1, MemoryReuseStep
  <1>2. CASE pc[r] = "lookup" /\ Go(r, "hold")
               /\ UNCHANGED <<lockVars, tables, result, upkeep, index>>
    BY <1>2, LockKept, MemoryGoesOn DEF MemoryInv, Label
  <1> QED
    BY <1>1, <1>2 DEF MemoryLookup

(***************************************************************************)
(* The recheck regenerates a record that is named and has expired.  Its    *)
(* dataset expired no later, so nothing live is refreshed.                 *)
(***************************************************************************)
LEMMA MemoryRecheckStep ==
  ASSUME MemoryInv, NEW r \in Request, MemoryRecheck(r) PROVE MemoryInv'
  <1>1. CASE MemoryReuse(r, "recheck", "release")
    BY <1>1, MemoryReuseStep
  <1>2. ASSUME pc[r] = "recheck", \A i \in Indexed(Target[r]) : ~Fresh(i),
               Go(r, IF Indexed(Target[r]) = {} THEN "generate"
                                                ELSE "regenerate"),
               UNCHANGED <<lockVars, tables, result, upkeep, index>>
        PROVE  MemoryInv'
    <2>1. CASE Indexed(Target[r]) = {}
      BY <1>2, <2>1, LockKept, MemoryGoesOn DEF MemoryInv, Label
    <2>2. ASSUME NEW i \in Indexed(Target[r]) PROVE MemoryInv'
      <3>1. expires[DatasetOf(r)] <= i.expires /\ ~(now < i.expires)
              /\ i \in Row /\ DatasetOf(r) \in Dataset
        BY <1>2, MemoryRequest DEF Fresh
      <3>2. ~(now < expires[DatasetOf(r)])
        BY <3>1 DEF MemoryInv, TypeOK, Time, Row
      <3>3. ~Live(DatasetOf(r))
        BY <3>2 DEF Live
      <3> QED
        BY <1>2, <2>2, <3>3, LockKept, MemoryGoesOn DEF MemoryInv, Label
    <2> QED
      BY <2>1, <2>2
  <1> QED
    BY <1>1, <1>2 DEF MemoryRecheck

\* The steps of InsightGeneration that touch neither table.
LEMMA MemoryHoldStep ==
  ASSUME MemoryInv, NEW r \in Request, Hold(r), UNCHANGED index
  PROVE  MemoryInv'
  <1>1. LockTypeOK'
    BY LockStepType DEF Hold, MemoryInv, TypeOK, LockNext
  <1>2. PICK l \in {"recheck", "wait"} : Go(r, l)
    BY DEF Hold
  <1> QED
    BY <1>1, <1>2, MemoryGoesOn DEF Hold, Label

LEMMA MemoryModelStep ==
  ASSUME MemoryInv, NEW r \in Request, ModelAnswers(r), UNCHANGED index
  PROVE  MemoryInv'
  <1>1. LockTypeOK'
    BY LockKept DEF ModelAnswers, MemoryInv
  <1>2. PICK l \in {"create", "refresh"} :
          Go(r, l) /\ (l = "refresh" => pc[r] = "regenerate")
    BY DEF ModelAnswers
  <1>3. Live(DatasetOf(r)) => l \notin {"regenerate", "refresh"}
    BY <1>2, MemoryRequest
  <1> QED
    BY <1>1, <1>2, <1>3, MemoryGoesOn DEF ModelAnswers, Label

LEMMA MemoryErrorStep ==
  ASSUME MemoryInv, NEW r \in Request, GiveUp(r) \/ ModelFails(r),
         UNCHANGED index
  PROVE  MemoryInv'
  <1> USE DEF GiveUp, ModelFails, tables
  <1>1. LockTypeOK' /\ DatasetsKept /\ dataset[DatasetOf(r)] # "new"
    BY LockKept, SameDatasets, MemoryRequest DEF MemoryInv
  <1>2. PICK s \in {"in_progress", "model_error"} : Answer(r, Failure(s))
    OBVIOUS
  <1>3. MayMove(r, "release", Failure(s)) /\ Failure(s) \in Result
    BY <1>1, FailureMoves DEF Status
  <1> QED
    BY <1>1, <1>2, <1>3, MemoryReads DEF Label

LEMMA MemoryEndLeaseStep ==
  ASSUME MemoryInv, NEW r \in Request, EndLease(r), UNCHANGED index
  PROVE  MemoryInv'
  <1> USE DEF EndLease, tables
  <1>1. LockTypeOK' /\ DatasetsKept
    BY LockStepType, SameDatasets DEF MemoryInv, TypeOK, LockNext
  <1>2. PICK l \in {"release", "done"} : Go(r, l)
    OBVIOUS
  <1>3. MayMove(r, l, result[r]) /\ Answer(r, result[r])
    BY MemoryRequest DEF MayMove, Answer
  <1> QED
    BY <1>1, <1>2, <1>3, MemoryReads, MemoryRequest DEF Label

-----------------------------------------------------------------------------
(* The steps that write an insight *)

\* The refreshed record keeps its id and is the one the index names.
LEMMA MemoryRefreshStep ==
  ASSUME MemoryInv, NEW r \in Request, MemoryRefresh(r) PROVE MemoryInv'
  <1>1. /\ LockTypeOK' /\ DatasetsKept /\ ~Live(DatasetOf(r))
        /\ dataset[DatasetOf(r)] # "new" /\ pc[r] = "refresh"
        /\ Go(r, "release")
        /\ UNCHANGED <<now, dataset, expires, upkeep, index>>
    BY LockKept, SameDatasets, MemoryRequest DEF MemoryInv, MemoryRefresh
  <1>2. CASE UNCHANGED insights /\ Answer(r, Failure("server_error"))
    <2>1. MayMove(r, "release", Failure("server_error"))
            /\ Failure("server_error") \in Result
      BY <1>1, FailureMoves DEF Status
    <2> QED
      BY <1>1, <1>2, <2>1, MemoryReads DEF Label
  <1>3. ASSUME NEW i \in Indexed(Target[r]), NEW new,
               new = [i EXCEPT !.payload = r, !.expires = now + Retention],
               insights' = (insights \ {i}) \cup {new}, Answer(r, Found(new))
        PROVE  MemoryInv'
    <2>1. /\ i \in Row /\ i \in insights /\ i.key = Target[r]
          /\ i.id = index[i.key]
      BY <1>3, MemoryRequest DEF Indexed
    <2>2. now + Retention \in Time
      BY DEF MemoryInv, TypeOK, Time
    <2>3. /\ new \in Row /\ new.key = i.key /\ new.id = i.id
          /\ new.expires = now + Retention
      BY <1>3, <2>1, <2>2 DEF Row
    <2>4. \A j \in insights' : j = new \/ (j \in insights /\ j.id # new.id)
      BY <1>3, <2>1, <2>3 DEF MemoryInv, StoreInv, OneRecord
    <2>5. insights' \subseteq Row
      BY <2>3, <2>4 DEF MemoryInv, TypeOK
    <2>6. OneRecord'
      BY <2>1, <2>3, <2>4 DEF MemoryInv, StoreInv, OneRecord
    <2>7. Outlives'
      BY <1>1, <2>1, <2>3, <2>4, KeyParts
      DEF MemoryInv, StoreInv, Outlives, Row
    <2>8. IndexNames'
      BY <1>1, <2>1, <2>3, <2>4 DEF MemoryInv, StoreInv, IndexNames, Fresh
    <2>9. Found(new) \in Result /\ MayMove(r, "release", Found(new))
      BY <1>1, <2>3, FoundType DEF MemoryInv, MayMove, Found
    <2>10. \A j \in insights' :
             IF j.id = r THEN TRUE
                         ELSE pc[j.id] \in {"release", "done", "lost"}
      BY <2>1, <2>3, <2>4 DEF MemoryInv, MemoryServeInv, Created
    <2> QED
      BY <1>1, <1>3, <2>5, <2>6, <2>7, <2>8, <2>9, <2>10, MemoryWrites
      DEF StoreInv, Label
  <1> QED
    BY <1>2, <1>3 DEF MemoryRefresh

\* A record is created only when the index names no fresh one, and the id is
\* the request's own: it has created nothing before.
LEMMA MemoryCreateStep ==
  ASSUME MemoryInv, NEW r \in Request, MemoryCreate(r) PROVE MemoryInv'
  <1>1. /\ LockTypeOK' /\ DatasetsKept /\ dataset[DatasetOf(r)] # "new"
        /\ pc[r] = "create" /\ Go(r, "release")
        /\ UNCHANGED <<now, dataset, expires, upkeep>>
    BY LockKept, SameDatasets, MemoryRequest DEF MemoryInv, MemoryCreate
  <1>2. ASSUME NEW i \in Indexed(Target[r]), Answer(r, Found(i)),
               UNCHANGED <<insights, index>>
        PROVE  MemoryInv'
    <2>1. MayMove(r, "release", Found(i)) /\ Found(i) \in Result
      BY IndexedMoves
    <2> QED
      BY <1>1, <1>2, <2>1, MemoryReads DEF Label
  <1>3. ASSUME NEW new,
               new = [id |-> r, key |-> Target[r], payload |-> r,
                      expires |-> now + Retention],
               \A i \in Indexed(Target[r]) : ~Fresh(i),
               insights' = insights \cup {new},
               index' = [index EXCEPT ![Target[r]] = r],
               Answer(r, Found(new))
        PROVE  MemoryInv'
    <2>1. now + Retention \in Time /\ Target[r] \in Key
            /\ DatasetOf(r) \in Dataset
      BY KeyParts DEF MemoryInv, TypeOK, Time
    <2>2. /\ new \in Row /\ new.key = Target[r] /\ new.id = r
          /\ new.expires = now + Retention
      BY <1>3, <2>1 DEF Row
    <2>3. \A j \in insights : j.id # r /\ j \in Row
      BY <1>1 DEF MemoryInv, MemoryServeInv, Created, TypeOK
    <2>4. \A j \in insights : j.key = Target[r] => ~Fresh(j)
      BY <1>3 DEF MemoryInv, StoreInv, IndexNames, Indexed
    <2>5. insights' \subseteq Row
      BY <1>3, <2>2, <2>3
    <2>6. OneRecord'
      BY <1>3, <2>2, <2>3 DEF MemoryInv, StoreInv, OneRecord
    <2>7. Outlives'
      BY <1>1, <1>3, <2>1, <2>2 DEF MemoryInv, StoreInv, Outlives, DatasetOf
    <2>8. IndexNames'
      BY <1>1, <1>3, <2>1, <2>2, <2>3, <2>4
      DEF MemoryInv, StoreInv, IndexNames, Fresh, Row
    <2>9. Found(new) \in Result /\ MayMove(r, "release", Found(new))
      BY <1>1, <2>2, FoundType DEF MemoryInv, MayMove, Found
    <2>10. \A j \in insights' :
             IF j.id = r THEN TRUE
                         ELSE pc[j.id] \in {"release", "done", "lost"}
      BY <1>3, <2>2 DEF MemoryInv, MemoryServeInv, Created
    <2> QED
      BY <1>1, <1>3, <2>5, <2>6, <2>7, <2>8, <2>9, <2>10, MemoryWrites
      DEF StoreInv, Label
  <1> QED
    BY <1>2, <1>3 DEF MemoryCreate

-----------------------------------------------------------------------------
(* The steps of the datasets, the cleanup, the clock and a restart *)

\* A step that answers nobody, creates no record and at most loses requests.
Upkept ==
  /\ now' \in 0..MaxNow /\ now <= now'
  /\ dataset' \in [Dataset -> {"new", "stored", "gone"}]
  /\ expires' \in [Dataset -> Time]
  /\ insights' \subseteq insights
  /\ pc' \in [Request -> Label]
  /\ \A r \in Request : pc'[r] \in {pc[r], "lost"}
  /\ deletion' \in [Dataset -> {"idle", "insights", "scan", "drop", "done"}]
  /\ cleaner' \in {"datasets", "insights"}
  /\ restarts' \in 0..MaxRestarts
  /\ UNCHANGED result

\* Records that go, and time that passes, leave the index right.
LEMMA IndexStays ==
  ASSUME MemoryInv, Upkept, UNCHANGED index PROVE IndexNames'
  <1>1. \A i \in insights : Fresh(i)' => Fresh(i)
    BY DEF MemoryInv, TypeOK, Fresh, Row, Time, Upkept
  <1> QED
    BY <1>1 DEF MemoryInv, StoreInv, IndexNames, Upkept

(***************************************************************************)
(* A step that answers nobody keeps the invariant if it creates no record, *)
(* brings no dataset back and at most abandons requests.                   *)
(***************************************************************************)
LEMMA MemoryUpkeep ==
  ASSUME MemoryInv, LockTypeOK', Upkept,
         Outlives', IndexNames',
         \A d \in Dataset : dataset[d] # "new" =>
           dataset'[d] # "new" /\ (Live(d)' => Live(d))
  PROVE  MemoryInv'
  <1>1. TypeOK'
    BY DEF MemoryInv, TypeOK, Upkept
  <1>2. OneRecord'
    BY DEF MemoryInv, StoreInv, OneRecord, Upkept
  <1>4. \A r \in Request : DatasetOf(r) \in Dataset /\ DatasetOf(r)' = DatasetOf(r)
    BY KeyParts DEF DatasetOf
  <1>5. Created'
    BY DEF MemoryInv, MemoryServeInv, Created, TypeOK, Row, Upkept
  <1>6. KnownDataset'
    BY <1>4 DEF MemoryInv, MemoryServeInv, KnownDataset, Upkept
  <1>7. NoLiveRefresh'
    BY <1>4 DEF MemoryInv, MemoryServeInv, NoLiveRefresh, KnownDataset,
        Upkept
  <1>8. Unanswered'
    BY DEF MemoryInv, MemoryServeInv, Unanswered, Failure, Upkept
  <1>9. LiveNeverFails'
    BY <1>4 DEF MemoryInv, MemoryServeInv, LiveNeverFails, KnownDataset,
        Upkept
  <1> QED
    BY <1>1, <1>2, <1>5, <1>6, <1>7, <1>8, <1>9
    DEF MemoryInv, StoreInv, MemoryServeInv

\* What the invariant says of the variables an upkeep step leaves alone.
LEMMA MemoryParts ==
  ASSUME MemoryInv
  PROVE  /\ TypeOK /\ Outlives /\ IndexNames
         /\ now \in 0..MaxNow /\ now <= now
         /\ \A i \in insights : i.key[1] \in Dataset /\ i.expires \in Nat
         /\ \A d \in Dataset : expires[d] \in Nat
  BY KeyParts DEF MemoryInv, StoreInv, TypeOK, Row, Time

LEMMA MemoryUploadStep ==
  ASSUME MemoryInv, NEW d \in Dataset, Upload(d), UNCHANGED index
  PROVE  MemoryInv'
  <1> USE DEF Upload, serving, upkeep
  <1>1. LockTypeOK' /\ TypeOK /\ Outlives
    BY LockKept, MemoryParts
  <1>2. now + Retention \in Time
    BY <1>1 DEF TypeOK, Time
  <1>3. /\ dataset' \in [Dataset -> {"new", "stored", "gone"}]
        /\ expires' \in [Dataset -> Time]
        /\ expires'[d] = now + Retention
        /\ \A e \in Dataset : dataset[e] # "new" =>
             dataset'[e] = dataset[e] /\ expires'[e] = expires[e]
        /\ \A e \in Dataset : e # d => expires'[e] = expires[e]
    BY <1>1, <1>2 DEF TypeOK
  <1>4. Outlives'
    BY <1>1, <1>3, MemoryParts DEF Outlives, TypeOK, Time
  <1>5. \A e \in Dataset : dataset[e] # "new" =>
          dataset'[e] # "new" /\ (Live(e)' => Live(e))
    BY <1>3 DEF Live
  <1>6. Upkept
    BY <1>1, <1>3, MemoryParts DEF Upkept, TypeOK
  <1> QED
    BY <1>1, <1>4, <1>5, <1>6, IndexStays, MemoryUpkeep

\* A removed dataset leaves its insights behind, reachable by none.
LEMMA MemoryDeleteStep ==
  ASSUME MemoryInv, NEW d \in Dataset,
         MemoryDeleteDataset(d) \/ (DeleteInsights(d) /\ UNCHANGED index)
  PROVE  MemoryInv'
  <1> USE DEF MemoryDeleteDataset, DeleteInsights, serving
  <1>1. LockTypeOK' /\ TypeOK /\ Outlives
    BY LockKept, MemoryParts
  <1>2. /\ dataset' \in [Dataset -> {"new", "stored", "gone"}]
        /\ insights' \subseteq insights
        /\ \A e \in Dataset : dataset'[e] = dataset[e] \/ dataset'[e] = "gone"
    BY <1>1 DEF TypeOK
  <1>3. Outlives'
    BY <1>1, <1>2, MemoryParts DEF Outlives
  <1>4. \A e \in Dataset : dataset[e] # "new" =>
          dataset'[e] # "new" /\ (Live(e)' => Live(e))
    BY <1>2 DEF Live
  <1>5. Upkept
    BY <1>1, <1>2, MemoryParts DEF Upkept, TypeOK
  <1> QED
    BY <1>1, <1>3, <1>4, <1>5, IndexStays, MemoryUpkeep

\* The lock's side of a deletion, and an entry that lapses.
LEMMA MemoryLockStep ==
  ASSUME MemoryInv, UNCHANGED index,
         LockLapses \/ \E d \in Dataset : ScanDeleted(d) \/ DropDeleted(d)
  PROVE  MemoryInv'
  <1> USE DEF LockLapses, ScanDeleted, DropDeleted, serving, tables, upkeep
  <1>1. LockTypeOK' /\ TypeOK /\ Outlives
    BY LockStepType, LockKept, MemoryParts DEF TypeOK, LockNext
  <1>2. Outlives'
    BY <1>1 DEF Outlives
  <1>3. deletion' \in [Dataset -> {"idle", "insights", "scan", "drop", "done"}]
    BY <1>1 DEF TypeOK
  <1>4. \A e \in Dataset : dataset[e] # "new" =>
          dataset'[e] # "new" /\ (Live(e)' => Live(e))
    BY DEF Live
  <1>5. Upkept
    BY <1>1, <1>3, MemoryParts DEF Upkept, TypeOK
  <1> QED
    BY <1>1, <1>2, <1>4, <1>5, IndexStays, MemoryUpkeep

LEMMA MemoryCleanStep ==
  ASSUME MemoryInv, MemoryCleanDatasets \/ (CleanInsights /\ UNCHANGED index)
  PROVE  MemoryInv'
  <1> USE DEF MemoryCleanDatasets, CleanInsights, serving
  <1>1. LockTypeOK' /\ TypeOK /\ Outlives
    BY LockKept, MemoryParts
  <1>2. /\ dataset' \in [Dataset -> {"new", "stored", "gone"}]
        /\ insights' \subseteq insights
        /\ \A e \in Dataset :
             \/ dataset'[e] = dataset[e]
             \/ dataset[e] # "new" /\ dataset'[e] = "gone"
    BY <1>1 DEF TypeOK, Dropped
  <1>3. Outlives'
    BY <1>1, <1>2, MemoryParts DEF Outlives
  <1>4. \A e \in Dataset : dataset[e] # "new" =>
          dataset'[e] # "new" /\ (Live(e)' => Live(e))
    BY <1>2 DEF Live
  <1>5. Upkept
    BY <1>1, <1>2, MemoryParts DEF Upkept, TypeOK
  <1> QED
    BY <1>1, <1>3, <1>4, <1>5, IndexStays, MemoryUpkeep

LEMMA MemoryTickStep ==
  ASSUME MemoryInv, Tick, UNCHANGED index PROVE MemoryInv'
  <1> USE DEF Tick, serving, upkeep
  <1>1. LockTypeOK' /\ TypeOK /\ Outlives
    BY LockKept, MemoryParts
  <1>2. now' \in 0..MaxNow /\ now' = now + 1 /\ now \in Nat
    BY <1>1 DEF TypeOK
  <1>3. Outlives'
    BY <1>1, <1>2, MemoryParts DEF Outlives
  <1>4. \A e \in Dataset : dataset[e] # "new" =>
          dataset'[e] # "new" /\ (Live(e)' => Live(e))
    BY <1>2, MemoryParts DEF Live
  <1>5. Upkept
    BY <1>1, <1>2, MemoryParts DEF Upkept, TypeOK
  <1> QED
    BY <1>1, <1>3, <1>4, <1>5, IndexStays, MemoryUpkeep

LEMMA MemoryRestartStep ==
  ASSUME MemoryInv, MemoryRestart PROVE MemoryInv'
  <1> USE DEF MemoryRestart
  <1>1. TypeOK /\ Outlives
    BY MemoryParts
  <1>2. LockTypeOK'
    BY <1>1 DEF TypeOK, LockTypeOK, LeaseState
  <1>3. Outlives' /\ IndexNames'
    BY <1>1 DEF Outlives, IndexNames
  <1>4. \A e \in Dataset : dataset[e] # "new" =>
          dataset'[e] # "new" /\ (Live(e)' => Live(e))
    BY DEF Live
  <1>5. /\ restarts' \in 0..MaxRestarts
        /\ dataset' \in [Dataset -> {"new", "stored", "gone"}]
        /\ pc' \in [Request -> Label]
        /\ \A r \in Request : pc'[r] \in {pc[r], "lost"}
        /\ deletion' \in
             [Dataset -> {"idle", "insights", "scan", "drop", "done"}]
    BY <1>1 DEF TypeOK, Label
  <1>6. Upkept
    BY <1>1, <1>5, MemoryParts DEF Upkept, TypeOK
  <1> QED
    BY <1>2, <1>3, <1>4, <1>6, MemoryUpkeep

LEMMA MemoryStutter ==
  ASSUME MemoryInv, UNCHANGED allVars PROVE MemoryInv'
  <1> USE DEF allVars, vars, stores, serving, tables, upkeep
  <1>1. LockTypeOK' /\ TypeOK /\ Outlives
    BY LockKept, MemoryParts
  <1>2. Outlives'
    BY <1>1 DEF Outlives
  <1>3. \A e \in Dataset : dataset[e] # "new" =>
          dataset'[e] # "new" /\ (Live(e)' => Live(e))
    BY DEF Live
  <1>4. Upkept
    BY <1>1, MemoryParts DEF Upkept, TypeOK
  <1> QED
    BY <1>1, <1>2, <1>3, <1>4, IndexStays, MemoryUpkeep

-----------------------------------------------------------------------------
(* The invariant over both backends *)

LEMMA StoresInitially == StoresInit => StoresInv
  <1> SUFFICES ASSUME StoresInit PROVE StoresInv
    OBVIOUS
  <1>1. IInv
    BY Initially DEF StoresInit
  <1>2. TypeOK /\ KnownDataset /\ Unanswered /\ LiveNeverFails
    BY <1>1 DEF IInv, Strengthening
  <1>3. Outlives
    BY DEF StoresInit, Init, Outlives
  <1>4. OneRecord /\ IndexNames /\ Created /\ NoLiveRefresh
    BY DEF StoresInit, Init, OneRecord, IndexNames, Created, NoLiveRefresh
  <1> QED
    BY <1>1, <1>2, <1>3, <1>4
    DEF StoresInit, StoresInv, MemoryInv, StoreInv, MemoryServeInv

\* Over the database a step of the service is one of InsightGeneration.
LEMMA DatabaseStep ==
  storage = "database" /\ [StoresNext]_allVars
    => [Next]_vars /\ UNCHANGED storage
  BY DEF StoresNext, Accept, Serve, Remove, Clean, Environment, Next, allVars,
         stores

LEMMA MemoryStep ==
  ASSUME MemoryInv, storage = "memory", [StoresNext]_allVars
  PROVE  MemoryInv' /\ UNCHANGED storage
  <1>1. ASSUME NEW r \in Request, Accept(r) \/ Serve(r) PROVE MemoryInv'
    <2>1. CASE MemoryGetDataset(r)
      BY <2>1, MemoryGetDatasetStep
    <2>2. CASE MemoryProgress(r)
      BY <2>2, MemoryGetScopeStep, MemoryLookupStep, MemoryReuseStep,
         MemoryRecheckStep, MemoryRefreshStep, MemoryCreateStep,
         MemoryHoldStep, MemoryModelStep, MemoryErrorStep, MemoryEndLeaseStep
      DEF MemoryProgress
    <2> QED
      BY <1>1, <2>1, <2>2 DEF Accept, Serve
  <1>2. ASSUME NEW d \in Dataset, Remove(d) PROVE MemoryInv'
    BY <1>2, MemoryDeleteStep, MemoryLockStep DEF Remove
  <1>3. CASE Clean
    BY <1>3, MemoryCleanStep DEF Clean
  <1>4. CASE Environment
    BY <1>4, MemoryRestartStep, MemoryTickStep, MemoryLockStep, MemoryUploadStep
    DEF Environment
  <1>5. ASSUME UNCHANGED allVars PROVE MemoryInv'
    BY <1>5, MemoryStutter
  <1>6. UNCHANGED storage
    BY DEF StoresNext, Accept, Serve, Remove, Clean, Environment, allVars,
           stores
  <1> QED
    BY <1>1, <1>2, <1>3, <1>4, <1>5, <1>6 DEF StoresNext

LEMMA StoresInductive == StoresInv /\ [StoresNext]_allVars => StoresInv'
  BY DatabaseStep, MemoryStep, Inductive DEF StoresInv

(***************************************************************************)
(* The inductive invariant of insight generation over either backend.      *)
(***************************************************************************)
THEOREM StoresInvariant == StoresSpec => []StoresInv
  BY StoresInitially, StoresInductive, PTL DEF StoresSpec

(***************************************************************************)
(* A scope has at most one insight that is served, with no constraint on   *)
(* the tables to enforce it: the index names every fresh record, and a     *)
(* request that has a record of its own has created nothing else.          *)
(***************************************************************************)
THEOREM OneInsightIsServed == StoresSpec => []OneFreshInsight
  <1>1. StoresInv => OneFreshInsight
    BY DEF StoresInv, IInv, UniqueInsight, MemoryInv, StoreInv, OneRecord,
           IndexNames, OneFreshInsight
  <1> QED
    BY <1>1, StoresInvariant, PTL

(***************************************************************************)
(* Nor does the in-memory store answer with a 500 while the dataset is     *)
(* live: refresh_expired is reached for expired datasets only.             *)
(***************************************************************************)
THEOREM StoresNeverFailLive == StoresSpec => []LiveNeverFails
  <1>1. StoresInv => LiveNeverFails
    BY DEF StoresInv, IInv, MemoryInv, MemoryServeInv
  <1> QED
    BY <1>1, StoresInvariant, PTL

=============================================================================
