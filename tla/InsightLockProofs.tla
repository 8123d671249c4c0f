------------------------ MODULE InsightLockProofs --------------------------
(* Proofs about InsightLock, for every set of requests and scopes.         *)
EXTENDS InsightLock, TLAPS

USE LockAssumption

\* Spoiling transactions keeps the leases well typed.
LEMMA SpoiledType ==
  ASSUME NEW K, lease \in [Request -> LeaseState]
  PROVE  Spoiled(K) \in [Request -> LeaseState]
  BY DEF Spoiled, LeaseState

(***************************************************************************)
(* The state of the lock keeps its type (cache_service.InsightLock).       *)
(***************************************************************************)
LEMMA LockTypeStep == LockTypeOK /\ [LockNext]_lockVars => LockTypeOK'
  <1> SUFFICES ASSUME LockTypeOK, [LockNext]_lockVars PROVE LockTypeOK'
    OBVIOUS
  <1> USE DEF LockTypeOK, LeaseState
  <1>1. ASSUME NEW r \in Request, Acquire(r) PROVE LockTypeOK'
    <2>1. CASE AcquireFree(r)
      BY <2>1, SpoiledType DEF AcquireFree
    <2>2. CASE AcquireTaken(r) \/ AcquireUnlocked(r)
      BY <2>2 DEF AcquireTaken, AcquireUnlocked
    <2> QED
      BY <1>1, <2>1, <2>2 DEF Acquire
  <1>2. ASSUME NEW r \in Request, Release(r) PROVE LockTypeOK'
    BY <1>2 DEF Release, Compare, Exec, ReleaseFails, ReleaseLocal, Leave
  <1>3. ASSUME NEW k \in Key, Lapse({k}) PROVE LockTypeOK'
    BY <1>3 DEF Lapse
  <1>4. ASSUME NEW d \in Dataset, ScanLocks(d) PROVE LockTypeOK'
    BY <1>4 DEF ScanLocks
  <1>5. ASSUME NEW d \in Dataset, DropLocks(d) PROVE LockTypeOK'
    BY <1>5 DEF DropLocks, Spoiled
  <1>6. ASSUME NEW d \in Dataset, AbandonSweep(d) PROVE LockTypeOK'
    BY <1>6 DEF AbandonSweep
  <1>7. CASE UNCHANGED lockVars
    BY <1>7 DEF lockVars
  <1> QED
    BY <1>1, <1>2, <1>3, <1>4, <1>5, <1>6, <1>7 DEF LockNext

(***************************************************************************)
(* A transaction that would still go through is on a key that stores the   *)
(* caller's token or nothing.  A new token can only appear by AcquireFree, *)
(* and that write spoils every transaction watching the key.               *)
(***************************************************************************)
LEMMA MatchedOwnsStep ==
  LockTypeOK /\ MatchedOwns /\ [LockNext]_lockVars => MatchedOwns'
  <1> SUFFICES ASSUME LockTypeOK, MatchedOwns, [LockNext]_lockVars
               PROVE MatchedOwns'
    OBVIOUS
  <1> USE DEF LockTypeOK, MatchedOwns
  <1>1. ASSUME NEW r \in Request, Acquire(r) PROVE MatchedOwns'
    BY <1>1 DEF Acquire, AcquireFree, AcquireTaken, AcquireUnlocked, Spoiled
  <1>2. ASSUME NEW r \in Request, Release(r) PROVE MatchedOwns'
    BY <1>2 DEF Release, Compare, Exec, ReleaseFails, ReleaseLocal, Leave
  <1>3. ASSUME NEW k \in Key, Lapse({k}) PROVE MatchedOwns'
    BY <1>3 DEF Lapse
  <1>4. ASSUME NEW d \in Dataset, ScanLocks(d) PROVE MatchedOwns'
    BY <1>4 DEF ScanLocks
  <1>5. ASSUME NEW d \in Dataset, DropLocks(d) PROVE MatchedOwns'
    BY <1>5 DEF DropLocks, Spoiled
  <1>6. ASSUME NEW d \in Dataset, AbandonSweep(d) PROVE MatchedOwns'
    BY <1>6 DEF AbandonSweep
  <1>7. CASE UNCHANGED lockVars
    BY <1>7 DEF lockVars
  <1> QED
    BY <1>1, <1>2, <1>3, <1>4, <1>5, <1>6, <1>7 DEF LockNext

(***************************************************************************)
(* The lock always satisfies its type and MatchedOwns.                     *)
(***************************************************************************)
THEOREM LockInvariant == LockSpec => [](LockTypeOK /\ MatchedOwns)
  <1>1. LockInit => LockTypeOK /\ MatchedOwns
    BY DEF LockInit, LockTypeOK, MatchedOwns, LeaseState
  <1> QED
    BY <1>1, LockTypeStep, MatchedOwnsStep, PTL DEF LockSpec

(***************************************************************************)
(* InsightLease.__exit__ removes no token but its own, whatever expires,   *)
(* is deleted or is re-acquired between its GET and its EXEC.              *)
(***************************************************************************)
THEOREM ReleaseIsTokenSafe == LockSpec => TokenSafe
  <1> DEFINE Safe == \A r \in Request : Closing(r) /\ lease'[r] = "closed" =>
               \A k \in Key :
                 entry'[k] # entry[k] => k = Target[r] /\ entry[k] = r
  <1>1. LockTypeOK /\ MatchedOwns /\ [LockNext]_lockVars => [Safe]_lockVars
    <2> SUFFICES ASSUME LockTypeOK, MatchedOwns, LockNext PROVE Safe
      BY DEF lockVars
    <2> USE DEF LockTypeOK, MatchedOwns, Closing
    <2>1. ASSUME NEW q \in Request, Acquire(q) PROVE Safe
      BY <2>1 DEF Acquire, AcquireFree, AcquireTaken, AcquireUnlocked, Spoiled
    <2>2. ASSUME NEW q \in Request, Release(q) PROVE Safe
      BY <2>2 DEF Release, Compare, Exec, ReleaseFails, ReleaseLocal, Leave
    <2>3. ASSUME NEW k \in Key, Lapse({k}) PROVE Safe
      BY <2>3 DEF Lapse
    <2>4. ASSUME NEW d \in Dataset, ScanLocks(d) \/ AbandonSweep(d) PROVE Safe
      BY <2>4 DEF ScanLocks, AbandonSweep
    <2>5. ASSUME NEW d \in Dataset, DropLocks(d) PROVE Safe
      BY <2>5 DEF DropLocks, Spoiled
    <2> QED
      BY <2>1, <2>2, <2>3, <2>4, <2>5 DEF LockNext
  <1>2. LockSpec => [](LockTypeOK /\ MatchedOwns) /\ [][LockNext]_lockVars
    BY LockInvariant DEF LockSpec
  <1> QED
    BY <1>1, <1>2, PTL DEF TokenSafe

=============================================================================
