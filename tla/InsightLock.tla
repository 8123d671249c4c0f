---------------------------- MODULE InsightLock ----------------------------
(***************************************************************************)
(* The lock of backend/services/cache_service.py that keeps two requests   *)
(* from generating the same insight: InsightLock.hold hands a request a    *)
(* lease on a key, InsightLease.__exit__ gives it back.  The cache behind  *)
(* it is Redis (SET NX EX, WATCH / GET / MULTI / DEL / EXEC), the          *)
(* process-local MemoryCache, or NullCache when no Redis is configured.    *)
(*                                                                         *)
(* Every hold mints a fresh uuid token and a request holds once, so the    *)
(* request itself stands for its token.  Time is abstracted here: an entry *)
(* may lapse at any moment.  TimedLock adds the TTL.                       *)
(***************************************************************************)
EXTENDS Naturals

CONSTANTS
  Request,    \* requests that hold a lease, one each
  Dataset,    \* dataset ids
  Scope,      \* scope signatures
  Target,     \* the dataset and scope a request asks for
  Backend,    \* which cache build_cache returned
  NoToken     \* the key has no entry

Key == Dataset \X Scope

ASSUME LockAssumption ==
  /\ Target \in [Request -> Key]
  /\ Backend \in {"redis", "memory", "null"}
  /\ NoToken \notin Request

VARIABLES
  entry,      \* entry[k]: the token stored under lock key k
  lease,      \* lease[r]: how far r is between hold and the end of __exit__
  sweep       \* sweep[d]: lock keys of d that invalidate_dataset has scanned

lockVars == <<entry, lease, sweep>>

(***************************************************************************)
(* "held" runs from hold to __exit__.  "matched": the release has WATCHed  *)
(* the key and read its own token; "stale": the key was written after      *)
(* that, so EXEC will be refused.                                          *)
(***************************************************************************)
LeaseState == {"none", "held", "refused", "matched", "stale", "closed"}

\* The types of the lock's variables.
LockTypeOK ==
  /\ entry \in [Key -> Request \cup {NoToken}]
  /\ lease \in [Request -> LeaseState]
  /\ sweep \in [Dataset -> SUBSET Key]

LockInit ==
  /\ entry = [k \in Key |-> NoToken]
  /\ lease = [r \in Request |-> "none"]
  /\ sweep = [d \in Dataset |-> {}]

\* A write to the keys K spoils every transaction that WATCHes one of them.
Spoiled(K) ==
  [r \in Request |-> IF lease[r] = "matched" /\ Target[r] \in K
                       THEN "stale" ELSE lease[r]]

-----------------------------------------------------------------------------
(* hold -> _try_acquire *)

\* SET key token NX EX ttl (MemoryCache.lock_set) on a free key.
AcquireFree(r) ==
  /\ Backend # "null"
  /\ lease[r] = "none"
  /\ entry[Target[r]] = NoToken
  /\ entry' = [entry EXCEPT ![Target[r]] = r]
  /\ lease' = [Spoiled({Target[r]}) EXCEPT ![r] = "held"]
  /\ UNCHANGED sweep

\* Mutant: SET without NX.
AcquireTaken_NoNX(r) ==
  /\ lease[r] = "none"
  /\ entry[Target[r]] # NoToken
  /\ Backend # "null"
  /\ entry' = [entry EXCEPT ![Target[r]] = r]
  /\ lease' = [Spoiled({Target[r]}) EXCEPT ![r] = "held"]
  /\ UNCHANGED sweep

\* The key is taken: the caller must wait for the holder's result.
AcquireTaken(r) ==
  /\ Backend # "null"
  /\ lease[r] = "none"
  /\ entry[Target[r]] # NoToken
  /\ lease' = [lease EXCEPT ![r] = "refused"]
  /\ UNCHANGED <<entry, sweep>>

\* NullCache never locks; a Redis error lets the caller proceed.  (An error
\* raised after Redis has applied the SET is AcquireFree.)
AcquireUnlocked(r) ==
  /\ Backend \in {"null", "redis"}
  /\ lease[r] = "none"
  /\ lease' = [lease EXCEPT ![r] = "held"]
  /\ UNCHANGED <<entry, sweep>>

Acquire(r) == AcquireFree(r) \/ AcquireTaken(r) \/ AcquireUnlocked(r)

-----------------------------------------------------------------------------
(* InsightLease.__exit__ -> _release_token *)

\* WATCH key; GET key.  Another token: unwatch and leave the key alone.
Compare(r) ==
  /\ Backend = "redis"
  /\ lease[r] = "held"
  /\ lease' = [lease EXCEPT ![r] = IF entry[Target[r]] = r THEN "matched"
                                                           ELSE "closed"]
  /\ UNCHANGED <<entry, sweep>>

\* Mutant: GET and DEL without a transaction.
Exec_NoWatch(r) ==
  /\ lease[r] \in {"matched", "stale"}
  /\ entry' = [entry EXCEPT ![Target[r]] = NoToken]
  /\ lease' = [lease EXCEPT ![r] = "closed"]
  /\ UNCHANGED sweep

\* MULTI; DEL key; EXEC.  EXEC is refused when the key was written since.
Exec(r) ==
  /\ lease[r] \in {"matched", "stale"}
  /\ entry' = IF lease[r] = "matched"
                THEN [entry EXCEPT ![Target[r]] = NoToken] ELSE entry
  /\ lease' = [lease EXCEPT ![r] = "closed"]
  /\ UNCHANGED sweep

\* Any Redis error during the release is logged and swallowed.  A process that
\* dies with the lease leaves the same behind.
ReleaseFails(r) ==
  /\ Backend = "redis"
  /\ lease[r] \in {"held", "matched", "stale"}
  /\ lease' = [lease EXCEPT ![r] = "closed"]
  /\ UNCHANGED <<entry, sweep>>

\* MemoryCache.lock_delete_if_token runs under its mutex; NullCache: nothing.
ReleaseLocal(r) ==
  /\ Backend # "redis"
  /\ lease[r] = "held"
  /\ entry' = [entry EXCEPT ![Target[r]] = IF @ = r THEN NoToken ELSE @]
  /\ lease' = [lease EXCEPT ![r] = "closed"]
  /\ UNCHANGED sweep

\* A lease that was refused releases nothing.
Leave(r) ==
  /\ lease[r] = "refused"
  /\ lease' = [lease EXCEPT ![r] = "closed"]
  /\ UNCHANGED <<entry, sweep>>

Release(r) ==
  Compare(r) \/ Exec(r) \/ ReleaseFails(r) \/ ReleaseLocal(r) \/ Leave(r)

-----------------------------------------------------------------------------
(* The server side: expiry, and invalidate_dataset on the lock keys *)

\* The TTL of the entries K runs out.
Lapse(K) ==
  /\ \A k \in K : entry[k] # NoToken
  /\ entry' = [k \in Key |-> IF k \in K THEN NoToken ELSE entry[k]]
  /\ UNCHANGED <<lease, sweep>>

\* RedisCache.invalidate_dataset collects the dataset's lock keys with SCAN ...
ScanLocks(d) ==
  /\ Backend = "redis"
  /\ sweep[d] = {}
  /\ sweep' = [sweep EXCEPT ![d] =
                 {k \in Key : k[1] = d /\ entry[k] # NoToken}]
  /\ UNCHANGED <<entry, lease>>

\* ... and deletes whatever is stored under them by then.
DropLocks(d) ==
  /\ sweep[d] # {}
  /\ entry' = [k \in Key |-> IF k \in sweep[d] THEN NoToken ELSE entry[k]]
  /\ lease' = Spoiled({k \in sweep[d] : entry[k] # NoToken})
  /\ sweep' = [sweep EXCEPT ![d] = {}]

\* An error in between abandons the rest of the invalidation.
AbandonSweep(d) ==
  /\ sweep[d] # {}
  /\ sweep' = [sweep EXCEPT ![d] = {}]
  /\ UNCHANGED <<entry, lease>>

LockNext ==
  \/ \E r \in Request : Acquire(r) \/ Release(r)
  \/ \E k \in Key : Lapse({k})
  \/ \E d \in Dataset : ScanLocks(d) \/ DropLocks(d) \/ AbandonSweep(d)

(***************************************************************************)
(* Redis expires every key that has a TTL, and a request that holds a      *)
(* lease leaves its with block.                                            *)
(***************************************************************************)
LockFairness ==
  /\ \A k \in Key : WF_lockVars(Lapse({k}))
  /\ \A r \in Request : WF_lockVars(Release(r))

LockSpec == LockInit /\ [][LockNext]_lockVars /\ LockFairness

-----------------------------------------------------------------------------
(* Properties *)

\* A lease has left its with block, or is leaving it.
Closing(r) == lease[r] \in {"held", "refused", "matched", "stale"}

(***************************************************************************)
(* "Exiting the lease releases exactly this key + this token; it never     *)
(* touches leases held by other requests" (InsightLease): the step that    *)
(* closes r changes no entry except its own token under its own key, even  *)
(* when its entry lapsed and the key changed hands between GET and EXEC.   *)
(***************************************************************************)
TokenSafe ==
  [][\A r \in Request : Closing(r) /\ lease'[r] = "closed" =>
       \A k \in Key : entry'[k] # entry[k] => k = Target[r] /\ entry[k] = r
    ]_lockVars

(***************************************************************************)
(* A key whose transaction would still go through stores that request's    *)
(* token or nothing: the inductive reason for TokenSafe.                   *)
(***************************************************************************)
MatchedOwns ==
  \A r \in Request :
    lease[r] = "matched" => entry[Target[r]] \in {r, NoToken}

(***************************************************************************)
(* A release that is lost to a Redis error does not block the scope for    *)
(* ever: the entry a closed lease left behind goes away with its TTL.      *)
(***************************************************************************)
NoLeakedEntry ==
  \A r \in Request :
    lease[r] = "closed" ~> \A k \in Key : entry[k] # r

=============================================================================
