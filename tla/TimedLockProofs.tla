-------------------------- MODULE TimedLockProofs --------------------------
(* What the TTL of the lock is worth, for every TTL and every hold time.   *)
EXTENDS TimedLock, InsightLockProofs

USE LockAssumption, TimeAssumption

\* Each step but the clock's is a step of the untimed lock.
LEMMA FaultlessOrFaulty == Faultless \/ Faulty => LockNext
  BY DEF Faultless, Faulty, LockNext, Acquire, Release

(***************************************************************************)
(* Lifetimes and ages stay within the TTL and the hold time.               *)
(***************************************************************************)
LEMMA TimedTypeStep ==
  TimedTypeOK /\ [TimedNext]_timedVars => TimedTypeOK'
  <1> SUFFICES ASSUME TimedTypeOK, [TimedNext]_timedVars PROVE TimedTypeOK'
    OBVIOUS
  <1> USE DEF TimedTypeOK
  <1>1. ASSUME Faultless \/ Faulty, Restamp, UNCHANGED age,
               struck' \in BOOLEAN
        PROVE  TimedTypeOK'
    <2>1. LockTypeOK'
      BY <1>1, FaultlessOrFaulty, LockTypeStep
    <2> QED
      BY <1>1, <2>1 DEF Restamp
  <1>2. CASE Tick
    <2>1. LockTypeOK'
      BY <1>2 DEF Tick, LockTypeOK
    <2> QED
      BY <1>2, <2>1 DEF Tick
  <1>3. CASE UNCHANGED timedVars
    BY <1>3 DEF timedVars, LockTypeOK
  <1> QED
    BY <1>1, <1>2, <1>3 DEF TimedNext

THEOREM TimedType == TimedSpec => []TimedTypeOK
  <1>1. TimedInit => TimedTypeOK
    <2> SUFFICES ASSUME TimedInit PROVE TimedTypeOK
      OBVIOUS
    <2>1. LockTypeOK
      BY DEF TimedInit, LockInit, LockTypeOK, LeaseState
    <2>2. /\ ttl \in [Key -> 0..LockTTL]
          /\ age \in [Request -> 0..MaxHold]
      BY DEF TimedInit
    <2>3. struck \in BOOLEAN
      BY DEF TimedInit
    <2> QED
      BY <2>1, <2>2, <2>3 DEF TimedTypeOK
  <1> QED
    BY <1>1, TimedTypeStep, PTL DEF TimedSpec

(***************************************************************************)
(* A transaction that would still go through is on a key that stores the   *)
(* caller's token or nothing, in the timed lock too: a lapse spoils no     *)
(* transaction, but it leaves the key empty.                               *)
(***************************************************************************)
LEMMA TimedMatchedOwnsStep ==
  TimedTypeOK /\ MatchedOwns /\ [TimedNext]_timedVars => MatchedOwns'
  <1> SUFFICES ASSUME TimedTypeOK, MatchedOwns, [TimedNext]_timedVars
               PROVE  MatchedOwns'
    OBVIOUS
  <1>1. CASE Faultless \/ Faulty
    BY <1>1, FaultlessOrFaulty, MatchedOwnsStep DEF TimedTypeOK
  <1>2. CASE Tick
    BY <1>2 DEF Tick, MatchedOwns, TimedTypeOK, LockTypeOK
  <1>3. CASE UNCHANGED timedVars
    BY <1>3 DEF timedVars, MatchedOwns
  <1> QED
    BY <1>1, <1>2, <1>3 DEF TimedNext

LEMMA TimedMatchedOwns == TimedSpec => []MatchedOwns
  <1>1. TimedInit => MatchedOwns
    BY DEF TimedInit, LockInit, MatchedOwns
  <1> QED
    BY <1>1, TimedMatchedOwnsStep, TimedType, PTL DEF TimedSpec

(***************************************************************************)
(* Whatever the TTL and the hold time are, __exit__ removes no token but   *)
(* its own: also when its entry lapsed during the model call and another   *)
(* request took the key, before or within the release.                     *)
(***************************************************************************)
THEOREM TimedReleaseIsTokenSafe == TimedSpec => TokenSafe
  <1> DEFINE Safe == \A r \in Request : Closing(r) /\ lease'[r] = "closed" =>
               \A k \in Key :
                 entry'[k] # entry[k] => k = Target[r] /\ entry[k] = r
  <1>1. TimedTypeOK /\ MatchedOwns /\ [TimedNext]_timedVars => [Safe]_lockVars
    <2> SUFFICES ASSUME TimedTypeOK, MatchedOwns, TimedNext
                 PROVE  Safe \/ UNCHANGED lockVars
      BY DEF timedVars, lockVars
    <2>1. CASE Tick
      BY <2>1 DEF Tick, Closing, LockTypeOK, TimedTypeOK
    <2>2. ASSUME NEW q \in Request,
                 AcquireFree(q) \/ AcquireTaken(q) \/ AcquireUnlocked(q)
          PROVE  Safe
      BY <2>2 DEF AcquireFree, AcquireTaken, AcquireUnlocked, Spoiled, Closing,
                  TimedTypeOK, LockTypeOK
    <2>3. ASSUME NEW q \in Request, Release(q)
          PROVE  Safe
      BY <2>3 DEF Release, Compare, Exec, ReleaseFails, ReleaseLocal, Leave,
                  Closing, MatchedOwns, TimedTypeOK, LockTypeOK
    <2>4. ASSUME NEW d \in Dataset, ScanLocks(d) \/ DropLocks(d) \/ AbandonSweep(d)
          PROVE  Safe
      BY <2>4 DEF ScanLocks, DropLocks, AbandonSweep, Spoiled, Closing,
                  TimedTypeOK, LockTypeOK
    <2> QED
      BY <2>1, <2>2, <2>3, <2>4 DEF TimedNext, Faultless, Faulty, Release
  <1> QED
    BY <1>1, TimedType, TimedMatchedOwns, PTL DEF TimedSpec, TokenSafe

-----------------------------------------------------------------------------

(***************************************************************************)
(* Before any Redis error or deletion, the token of a holder younger than  *)
(* the TTL stays under its key: the TTL has not come, and a release takes  *)
(* away no entry but the releasing request's own.                          *)
(***************************************************************************)
LEMMA HolderStep ==
  ASSUME Backend # "null", TimedTypeOK, MatchedOwns,
         HolderOwnsEntry, AgeOfIdle,
         \/ Faultless /\ Restamp /\ UNCHANGED <<age, struck>>
         \/ Tick
         \/ UNCHANGED timedVars
  PROVE  HolderOwnsEntry' /\ AgeOfIdle'
  <1> USE DEF TimedTypeOK, LockTypeOK
  <1> DEFINE Owned(r) == entry[Target[r]] = r /\ ttl[Target[r]] + age[r] = LockTTL
             Active(r) == lease[r] \in {"held", "matched"} /\ age[r] < LockTTL
  <1>a. \A r \in Request : Active(r) => Owned(r)
    BY DEF HolderOwnsEntry
  <1>b. \A r \in Request : Target[r] \in Key
    OBVIOUS
  <1>1. ASSUME NEW q \in Request, AcquireFree(q), Restamp, UNCHANGED age
        PROVE  HolderOwnsEntry' /\ AgeOfIdle'
    <2>1. /\ entry'[Target[q]] = q
          /\ ttl'[Target[q]] = LockTTL
      BY <1>1, <1>b DEF AcquireFree, Restamp
    <2>2. \A k \in Key \ {Target[q]} : entry'[k] = entry[k]
      BY <1>1 DEF AcquireFree
    <2>3. \A r \in Request \ {q} : Active(r)' => Active(r)
      BY <1>1 DEF AcquireFree, Spoiled
    <2>4. \A r \in Request \ {q} : Active(r) => Target[r] # Target[q]
      BY <1>1, <1>a DEF AcquireFree
    <2>5. \A r \in Request \ {q} : Active(r)' => Owned(r)'
      BY <2>2, <2>3, <2>4, <1>a, <1>b, <1>1 DEF Restamp
    <2>6. Owned(q)'
      BY <2>1, <1>1 DEF AcquireFree, AgeOfIdle
    <2>7. AgeOfIdle'
      BY <1>1 DEF AcquireFree, Spoiled, AgeOfIdle
    <2> QED
      BY <2>5, <2>6, <2>7 DEF HolderOwnsEntry
  <1>2. ASSUME NEW q \in Request,
               AcquireTaken(q) \/ Leave(q) \/ Compare(q),
               Restamp, UNCHANGED age
        PROVE  HolderOwnsEntry' /\ AgeOfIdle'
    <2>1. entry' = entry
      BY <1>2 DEF AcquireTaken, Leave, Compare
    <2>2. \A r \in Request : Active(r)' => Active(r)
      BY <1>2 DEF AcquireTaken, Leave, Compare
    <2>3. \A r \in Request : Active(r)' => Owned(r)'
      BY <2>1, <2>2, <1>a, <1>b, <1>2 DEF Restamp
    <2>4. AgeOfIdle'
      BY <1>2 DEF AcquireTaken, Leave, Compare, AgeOfIdle
    <2> QED
      BY <2>3, <2>4 DEF HolderOwnsEntry
  <1>3. ASSUME NEW q \in Request, Exec(q) \/ ReleaseLocal(q),
               Restamp, UNCHANGED age
        PROVE  HolderOwnsEntry' /\ AgeOfIdle'
    <2>1. \A k \in Key : entry[k] # q => entry'[k] = entry[k]
      BY <1>3 DEF Exec, ReleaseLocal, MatchedOwns
    <2>2. \A r \in Request : Active(r)' => Active(r) /\ r # q
      BY <1>3 DEF Exec, ReleaseLocal
    <2>3. \A r \in Request : Active(r)' => Owned(r)'
      BY <2>1, <2>2, <1>a, <1>b, <1>3 DEF Restamp
    <2>4. AgeOfIdle'
      BY <1>3 DEF Exec, ReleaseLocal, AgeOfIdle
    <2> QED
      BY <2>3, <2>4 DEF HolderOwnsEntry
  <1>4. CASE Tick
    <2>1. \A r \in Request : Active(r)' =>
             /\ Active(r)
             /\ age'[r] = age[r] + 1
             /\ age[r] + 1 < LockTTL
      BY <1>4 DEF Tick, Holding
    <2>2. \A r \in Request : Active(r)' =>
             ttl[Target[r]] \in Nat /\ age[r] \in Nat /\ ttl[Target[r]] > 1
      BY <2>1, <1>a, <1>b
    <2>3. \A r \in Request : Active(r)' =>
            /\ entry'[Target[r]] = entry[Target[r]]
            /\ ttl'[Target[r]] = ttl[Target[r]] - 1
      BY <2>2, <1>b, <1>4 DEF Tick
    <2>4. \A r \in Request : Active(r)' => Owned(r)'
      BY <2>1, <2>2, <2>3, <1>a
    <2>5. AgeOfIdle'
      BY <1>4 DEF Tick, Holding, AgeOfIdle
    <2> QED
      BY <2>4, <2>5 DEF HolderOwnsEntry
  <1>5. CASE UNCHANGED timedVars
    BY <1>5 DEF timedVars, HolderOwnsEntry, AgeOfIdle
  <1> QED
    BY <1>1, <1>2, <1>3, <1>4, <1>5 DEF Faultless

(***************************************************************************)
(* Before the first Redis error or deletion, a holder younger than the TTL *)
(* has its token under its key, with what is left of the TTL.              *)
(***************************************************************************)
LEMMA HolderKeepsEntry ==
  ASSUME Backend # "null"
  PROVE  TimedSpec => [](~struck => HolderOwnsEntry)
  <1> DEFINE Inv == ~struck => HolderOwnsEntry /\ AgeOfIdle
  <1>1. TimedInit => Inv
    BY DEF TimedInit, LockInit, HolderOwnsEntry, AgeOfIdle
  <1>2. TimedTypeOK /\ MatchedOwns /\ Inv /\ [TimedNext]_timedVars => Inv'
    <2> SUFFICES ASSUME TimedTypeOK, MatchedOwns, Inv, [TimedNext]_timedVars,
                        ~struck'
                 PROVE  HolderOwnsEntry' /\ AgeOfIdle'
      OBVIOUS
    <2>1. /\ ~struck
          /\ \/ Faultless /\ Restamp /\ UNCHANGED <<age, struck>>
             \/ Tick
             \/ UNCHANGED timedVars
      BY DEF TimedNext, Tick, timedVars
    <2> QED
      BY <2>1, HolderStep
  <1>3. Inv => (~struck => HolderOwnsEntry)
    OBVIOUS
  <1> QED
    BY <1>1, <1>2, <1>3, TimedType, TimedMatchedOwns, PTL DEF TimedSpec

(***************************************************************************)
(* Whatever the TTL and the longest model call are, of the holders of one  *)
(* scope at most one is younger than the TTL, before the first Redis error *)
(* or deletion.                                                            *)
(***************************************************************************)
THEOREM OneHolderPerTTLHolds ==
  ASSUME Backend # "null"
  PROVE  TimedSpec => []OneHolderPerTTL
  <1>1. (~struck => HolderOwnsEntry) => OneHolderPerTTL
    BY DEF HolderOwnsEntry, OneHolderPerTTL
  <1> QED
    BY <1>1, HolderKeepsEntry, PTL

(***************************************************************************)
(* So a TTL longer than the model call would give what AiInsightService    *)
(* relies on ("Never call the model from a second request").  The code's   *)
(* 30 seconds of InsightLock against 60 of call_deepseek are not longer.   *)
(***************************************************************************)
COROLLARY LongerTTLWouldDo ==
  ASSUME LockTTL > MaxHold, Backend # "null"
  PROVE  TimedSpec => []SingleFlight
  <1>1. TimedTypeOK /\ OneHolderPerTTL => SingleFlight
    BY DEF TimedTypeOK, OneHolderPerTTL, SingleFlight
  <1> QED
    BY <1>1, OneHolderPerTTLHolds, TimedType, PTL

=============================================================================
