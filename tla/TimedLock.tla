----------------------------- MODULE TimedLock -----------------------------
(***************************************************************************)
(* InsightLock with its TTL.  A holder keeps its lease for the time of one *)
(* model call (ai_analysis.call_deepseek, at most MaxHold), while the      *)
(* entry it stored lives LockTTL (InsightLock.__init__, 30 seconds).  One  *)
(* unit of time is whatever the configuration takes it to be.              *)
(***************************************************************************)
EXTENDS InsightLock

CONSTANTS
  LockTTL,    \* lifetime of an entry
  MaxHold     \* longest time between hold and __exit__

ASSUME TimeAssumption ==
  /\ LockTTL \in Nat \ {0}
  /\ MaxHold \in Nat

VARIABLES
  ttl,        \* ttl[k]: what is left of the lifetime of the entry under k
  age,        \* age[r]: time since r acquired its lease
  struck      \* history: a Redis error or a dataset deletion has happened

timedVars == <<entry, lease, sweep, ttl, age, struck>>

\* The clocks are in range: no entry outlives the TTL, no hold the longest one.
TimedTypeOK ==
  /\ LockTypeOK
  /\ ttl \in [Key -> 0..LockTTL]
  /\ age \in [Request -> 0..MaxHold]
  /\ struck \in BOOLEAN

TimedInit ==
  /\ LockInit
  /\ ttl = [k \in Key |-> 0]
  /\ age = [r \in Request |-> 0]
  /\ struck = FALSE

\* Every entry that appears starts its lifetime, every one that goes ends it.
Restamp ==
  ttl' = [k \in Key |-> IF entry'[k] = NoToken THEN 0
                        ELSE IF entry'[k] = entry[k] THEN ttl[k]
                        ELSE LockTTL]

\* Between hold and the end of __exit__ with a lease that was acquired.
Holding(r) == lease[r] \in {"held", "matched", "stale"}

\* Mutant: SET without EX, nothing expires.
Tick_NoTTL ==
  /\ \A r \in Request : Holding(r) => age[r] < MaxHold
  /\ age' = [r \in Request |-> IF Holding(r) THEN age[r] + 1 ELSE age[r]]
  /\ ttl' = [k \in Key |-> IF ttl[k] = 0 THEN 0 ELSE ttl[k] - 1]
  /\ UNCHANGED <<entry, lease, sweep, struck>>

\* Time passes, unless a holder has used up the time its model call may take.
Tick ==
  /\ \A r \in Request : Holding(r) => age[r] < MaxHold
  /\ age' = [r \in Request |-> IF Holding(r) THEN age[r] + 1 ELSE age[r]]
  /\ ttl' = [k \in Key |-> IF ttl[k] = 0 THEN 0 ELSE ttl[k] - 1]
  /\ entry' = [k \in Key |-> IF ttl[k] <= 1 THEN NoToken ELSE entry[k]]
  /\ UNCHANGED <<lease, sweep, struck>>

\* What the lock does when Redis answers and no dataset is deleted.
Faultless ==
  \E r \in Request :
    \/ AcquireFree(r) \/ AcquireTaken(r)
    \/ Compare(r) \/ Exec(r) \/ ReleaseLocal(r) \/ Leave(r)

\* What else Redis and a deletion may do to it.
Faulty ==
  \/ \E r \in Request : AcquireUnlocked(r) \/ ReleaseFails(r)
  \/ \E d \in Dataset : ScanLocks(d) \/ DropLocks(d) \/ AbandonSweep(d)

TimedNext ==
  \/ Faultless /\ Restamp /\ UNCHANGED <<age, struck>>
  \/ Faulty /\ Restamp /\ struck' = TRUE /\ UNCHANGED age
  \/ Tick

\* Time passes, and a request leaves its with block: the model call is timed.
TimedFairness ==
  /\ WF_timedVars(Tick)
  /\ \A r \in Request : WF_timedVars(Release(r) /\ TimedNext)

TimedSpec == TimedInit /\ [][TimedNext]_timedVars /\ TimedFairness

-----------------------------------------------------------------------------
(* Properties *)

(***************************************************************************)
(* "Never call the model from a second request" (AiInsightService): while  *)
(* Redis answers and no dataset is deleted, two requests for one scope     *)
(* never hold the lease at the same time.  It needs a TTL longer than the  *)
(* longest hold.                                                           *)
(***************************************************************************)
SingleFlight ==
  ~struck =>
    \A r, q \in Request :
      lease[r] = "held" /\ lease[q] = "held" /\ Target[r] = Target[q]
      => r = q

(***************************************************************************)
(* What is left of it when a model call may outlive the TTL, as the code's *)
(* 60 seconds outlive its 30: while Redis answers and no dataset is        *)
(* deleted, of the holders of one scope at most one is younger than the    *)
(* TTL.  Late releases of the older ones, whose entries lapsed, and the    *)
(* leases taken after them never open the scope a second time.             *)
(***************************************************************************)
OneHolderPerTTL ==
  ~struck =>
    \A r, q \in Request :
      /\ lease[r] = "held" /\ age[r] < LockTTL
      /\ lease[q] = "held" /\ age[q] < LockTTL
      /\ Target[r] = Target[q]
      => r = q

(***************************************************************************)
(* Why: the token of a holder younger than the TTL is under its key, with  *)
(* exactly the rest of the TTL to live.                                    *)
(***************************************************************************)
HolderOwnsEntry ==
  \A r \in Request :
    lease[r] \in {"held", "matched"} /\ age[r] < LockTTL =>
      /\ entry[Target[r]] = r
      /\ ttl[Target[r]] + age[r] = LockTTL

\* The age of a lease starts at zero.
AgeOfIdle == \A r \in Request : lease[r] = "none" => age[r] = 0
=============================================================================
