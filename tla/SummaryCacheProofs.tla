------------------------- MODULE SummaryCacheProofs -------------------------
(* What readers are served, for every number of them and whatever they     *)
(* ask, with every storage and cache; and that in memory an insight of     *)
(* exactly the scope is used.                                              *)
EXTENDS SummaryCache, TLAPS

USE SummaryAssumption

(***************************************************************************)
(* Where a request is in its calls: only a summary uses the cache, and it  *)
(* has its answer before it stores it.                                     *)
(***************************************************************************)
Stages ==
  \A r \in Reader :
    /\ pc[r] \in {"cache", "fill"} => Ask[r].kind = "summary"
    /\ pc[r] = "scope" => Ask[r].kind # "summary"
    /\ pc[r] = "fill" => Served(r)
    /\ Served(r) => pc[r] \in {"fill", "done"}

\* A payload lends the reader its own insight or none.
Lends(r, p) == p.shown # None => p.shown = Ask[r].insight /\ OwnInsight(r)

\* The entry that a summary would find.
Entry(r) == cache[CacheKey(Ask[r])]
HasEntry(r) == Ask[r].kind = "summary" /\ Entry(r) # None

LentIsOwn ==
  \A r \in Reader :
    /\ Served(r) => Lends(r, Body(r))
    /\ HasEntry(r) => Lends(r, Entry(r))

\* A request that comes too late ends at once.
LateEnds == \A r \in late : pc[r] = "done" /\ answer[r] = NotFound

ReadInv == TypeOK /\ Stages /\ LentIsOwn /\ LateEnds

-----------------------------------------------------------------------------
(* Facts about requests *)

LEMMA AskFields ==
  ASSUME NEW r \in Reader
  PROVE  /\ Ask[r].kind \in Kind
         /\ Ask[r].dataset \in Dataset /\ Ask[r].filter \in Filter
         /\ Ask[r].insight \in Insight \cup {None}
         /\ CacheKey(Ask[r]) \in Key
  BY DEF Key

\* The key of a summary says everything that its answer depends on.
LEMMA KeyIsAsk ==
  ASSUME NEW r \in Reader, NEW q \in Reader,
         Ask[r].kind = "summary", Ask[q].kind = "summary",
         CacheKey(Ask[r]) = CacheKey(Ask[q])
  PROVE  /\ Ask[r].dataset = Ask[q].dataset
         /\ Ask[r].insight = Ask[q].insight
         /\ OwnInsight(r) <=> OwnInsight(q)
  BY AskFields DEF CacheKey, Signature, OwnInsight, Rows

LEMMA UsableIsOwn ==
  ASSUME NEW r \in Reader, Usable(Ask[r])
  PROVE  OwnInsight(r)
  BY AskFields DEF Usable, OwnInsight, SignatureOf, Signature

LEMMA ResolveLends ==
  ASSUME NEW r \in Reader
  PROVE  Resolve(Ask[r]) \in Shown /\ Lends(r, Resolve(Ask[r]))
  BY AskFields, UsableIsOwn DEF Resolve, Shown, Lends, Usable, Warning

LEMMA AnswerIsPayload ==
  /\ \A p \in Shown : /\ Answer(p) \in Outcome
                      /\ Answer(p).status = "ok" /\ Answer(p).body = p
  /\ Pending \in Outcome /\ Pending.status # "ok"
  /\ NotFound \in Outcome /\ NotFound.status # "ok"
  /\ \A a \in Outcome : a.status = "ok" => a.body \in Shown
  <1>1. ASSUME NEW p \in Shown
        PROVE  /\ Answer(p) \in Outcome
               /\ Answer(p).status = "ok" /\ Answer(p).body = p
    BY DEF Outcome, Answer
  <1>2. Pending \in Outcome /\ Pending.status # "ok"
    BY DEF Outcome, Pending
  <1>3. NotFound \in Outcome /\ NotFound.status # "ok"
    BY DEF Outcome, NotFound
  <1>4. ASSUME NEW a \in Outcome, a.status = "ok" PROVE a.body \in Shown
    <2>1. PICK p \in Shown : a = Answer(p)
      BY <1>2, <1>3, <1>4 DEF Outcome
    <2> QED
      BY <1>1, <2>1
  <1> QED
    BY <1>1, <1>2, <1>3, <1>4

-----------------------------------------------------------------------------
LEMMA ReadInit == Init => ReadInv
  <1> SUFFICES ASSUME Init PROVE ReadInv
    OBVIOUS
  <1>1. TypeOK
    BY AnswerIsPayload DEF Init, TypeOK
  <1>2. Stages
    BY AnswerIsPayload DEF Init, Stages, Served
  <1>3. LentIsOwn
    BY AnswerIsPayload, AskFields DEF Init, LentIsOwn, Served, HasEntry, Entry
  <1>4. LateEnds
    BY DEF Init, LateEnds
  <1> QED
    BY <1>1, <1>2, <1>3, <1>4 DEF ReadInv

\* A request ends with an answer that is not served, or takes a step without
\* one.
LEMMA MoveStep ==
  ASSUME ReadInv, NEW r \in Reader, pc[r] \in {"get", "scope", "cache"},
         UNCHANGED <<store, cache, delete>>,
         \/ Finish(r, NotFound)
         \/ /\ Goto(r, IF Ask[r].kind = "summary" THEN "cache" ELSE "scope")
            /\ r \notin late'
         \/ Goto(r, "resolve") /\ r \notin late',
         late' \in {late, late \cup {r}}
  PROVE  ReadInv'
  <1> USE DEF ReadInv
  <1>0. ~Served(r)
    BY DEF Stages
  <1>1. TypeOK'
    <2>1. pc' \in [Reader -> {"get", "scope", "cache", "resolve", "fill", "done"}]
      BY DEF TypeOK, Finish, Goto
    <2>2. answer' \in [Reader -> Outcome]
      BY AnswerIsPayload DEF TypeOK, Finish, Goto
    <2> QED
      BY <2>1, <2>2 DEF TypeOK, store, delete
  <1>2. \A q \in Reader : q # r => pc'[q] = pc[q] /\ answer'[q] = answer[q]
    BY DEF TypeOK, Finish, Goto
  <1>3. ~Served(r)' /\ pc'[r] \in {"scope", "cache", "resolve", "done"}
        /\ (pc'[r] = "cache" => Ask[r].kind = "summary")
        /\ (pc'[r] = "scope" => Ask[r].kind # "summary")
        /\ (r \in late' => pc'[r] = "done" /\ answer'[r] = NotFound)
    BY <1>0, AnswerIsPayload DEF TypeOK, Finish, Goto, Served
  <1>4. Stages'
    BY <1>2, <1>3 DEF Stages, Served
  <1>5. LateEnds'
    <2> SUFFICES ASSUME NEW q \in late'
                 PROVE  pc'[q] = "done" /\ answer'[q] = NotFound
      BY DEF LateEnds
    <2>1. CASE q = r
      BY <2>1, <1>3
    <2>2. CASE q # r
      BY <2>2, <1>2 DEF LateEnds, TypeOK
    <2> QED
      BY <2>1, <2>2
  <1>6. LentIsOwn'
    BY <1>2, <1>3 DEF LentIsOwn, Served, Body, HasEntry, Entry
  <1> QED
    BY <1>1, <1>4, <1>5, <1>6

\* A request is answered.
LEMMA AnswerStep ==
  ASSUME ReadInv, NEW r \in Reader, pc[r] \in {"cache", "resolve"},
         NEW p \in Shown, Lends(r, p),
         NEW next \in {"done", "fill"},
         next = "fill" => Ask[r].kind = "summary",
         pc' = [pc EXCEPT ![r] = next],
         answer' = [answer EXCEPT ![r] = Answer(p)],
         UNCHANGED <<store, cache, delete, late>>
  PROVE  ReadInv'
  <1> USE DEF ReadInv
  <1>1. TypeOK'
    BY AnswerIsPayload DEF TypeOK, store, delete
  <1>2. \A q \in Reader : q # r => pc'[q] = pc[q] /\ answer'[q] = answer[q]
    BY DEF TypeOK
  <1>3. answer'[r] = Answer(p) /\ pc'[r] \in {"done", "fill"}
        /\ (pc'[r] = "fill" => Ask[r].kind = "summary")
    BY DEF TypeOK
  <1>4. r \notin late
    BY DEF LateEnds
  <1>5. Stages' /\ LateEnds'
    BY <1>2, <1>3, <1>4, AnswerIsPayload DEF TypeOK, Stages, LateEnds, Served
  <1>6. LentIsOwn'
    BY <1>2, <1>3, AnswerIsPayload
    DEF LentIsOwn, Served, Body, HasEntry, Entry, Lends, OwnInsight
  <1> QED
    BY <1>1, <1>5, <1>6

LEMMA FillStep ==
  ASSUME ReadInv, NEW r \in Reader, Fill(r)
  PROVE  ReadInv'
  <1> USE DEF ReadInv
  <1>1. Ask[r].kind = "summary" /\ Served(r) /\ Body(r) \in Shown
        /\ Lends(r, Body(r))
    BY AnswerIsPayload DEF Fill, Stages, TypeOK, Served, Body, LentIsOwn
  <1>2. TypeOK'
    BY <1>1, AskFields DEF TypeOK, Fill, Goto, store, delete
  <1>3. UNCHANGED <<answer, late>> /\ r \notin late
        /\ \A q \in Reader : pc'[q] = IF q = r THEN "done" ELSE pc[q]
    BY DEF Fill, Goto, LateEnds, TypeOK
  <1>4. Stages' /\ LateEnds'
    BY <1>3 DEF TypeOK, Stages, LateEnds, Served
  <1>5. ASSUME NEW q \in Reader, HasEntry(q)' PROVE Lends(q, Entry(q)')
    <2>1. CASE Entry(q)' = Entry(q)
      BY <1>5, <2>1 DEF LentIsOwn, HasEntry
    <2>2. CASE Entry(q)' # Entry(q)
      <3>1. CacheKey(Ask[q]) = CacheKey(Ask[r]) /\ Entry(q)' = Body(r)
        BY <2>2, AskFields DEF Fill, Entry, TypeOK
      <3> QED
        BY <3>1, <1>1, <1>5, KeyIsAsk DEF HasEntry, Lends
    <2> QED
      BY <2>1, <2>2
  <1>6. LentIsOwn'
    BY <1>3, <1>5 DEF LentIsOwn, Served, Body, Lends, OwnInsight
  <1> QED
    BY <1>2, <1>4, <1>6

\* Uploads, insights, deletions and lapses make no entry and answer nobody.
LEMMA StoreStep ==
  ASSUME ReadInv, TypeOK', UNCHANGED reading,
         \A k \in Key : cache'[k] \in {cache[k], None}
  PROVE  ReadInv'
  <1> USE DEF ReadInv, reading
  <1>1. Stages' /\ LateEnds'
    BY DEF Stages, LateEnds, Served
  <1>2. LentIsOwn'
    BY AskFields
    DEF LentIsOwn, Served, Body, HasEntry, Entry, Lends, OwnInsight
  <1> QED
    BY <1>1, <1>2

LEMMA ReadersInductive ==
  ASSUME ReadInv, NEW r \in Reader, GetDataset(r) \/ Read(r)
  PROVE  ReadInv'
  <1>1. CASE GetDataset(r)
    <2>1. r \notin late
      BY <1>1 DEF GetDataset, ReadInv, LateEnds
    <2>2. \/ Finish(r, NotFound)
          \/ /\ Goto(r, IF Ask[r].kind = "summary" THEN "cache" ELSE "scope")
             /\ r \notin late'
      BY <1>1, <2>1 DEF GetDataset, Removed
    <2> QED
      BY <1>1, <2>2, MoveStep DEF GetDataset
  <1>2. CASE GetScope(r)
    <2>1. r \notin late'
      BY <1>2 DEF GetScope, ReadInv, LateEnds
    <2> QED
      BY <1>2, <2>1, MoveStep DEF GetScope
  <1>3. CASE CacheHit(r)
    <2>1. HasEntry(r) /\ Entry(r) \in Shown /\ Lends(r, Entry(r))
      BY <1>3, AskFields
      DEF CacheHit, ReadInv, Stages, LentIsOwn, TypeOK, HasEntry, Entry
    <2>2. /\ pc' = [pc EXCEPT ![r] = "done"]
          /\ answer' = [answer EXCEPT ![r] = Answer(Entry(r))]
          /\ pc[r] = "cache" /\ UNCHANGED <<store, cache, delete, late>>
      BY <1>3 DEF CacheHit, Finish, Entry
    <2>3. pc[r] \in {"cache", "resolve"}
      BY <2>2
    <2> QED
      BY <2>1, <2>2, <2>3, AnswerStep
  <1>4. CASE CacheMiss(r)
    <2>1. r \notin late'
      BY <1>4 DEF CacheMiss, ReadInv, LateEnds
    <2> QED
      BY <1>4, <2>1, MoveStep DEF CacheMiss
  <1>5. CASE ResolveForAgent(r)
    <2>1. /\ pc' = [pc EXCEPT ![r] = "done"]
          /\ answer' = [answer EXCEPT ![r] = Answer(Resolve(Ask[r]))]
          /\ pc[r] = "resolve" /\ UNCHANGED <<store, cache, delete, late>>
      BY <1>5 DEF ResolveForAgent, Finish
    <2>2. pc[r] \in {"cache", "resolve"}
      BY <2>1
    <2> QED
      BY <2>1, <2>2, ResolveLends, AnswerStep
  <1>6. CASE ResolveForSummary(r)
    BY <1>6, ResolveLends, AnswerStep, Zenon DEF ResolveForSummary
  <1>7. CASE Fill(r)
    BY <1>7, FillStep
  <1> QED
    BY <1>1, <1>2, <1>3, <1>4, <1>5, <1>6, <1>7 DEF Read

LEMMA StoresInductive ==
  ASSUME ReadInv,
         \/ \E i \in Insight : Generate(i) \/ Forget(i)
         \/ \E d \in Dataset : Upload(d) \/ Expire(d) \/ CleanUp(d)
              \/ DeleteDataset(d) \/ DeleteInsights(d) \/ Scan(d) \/ Drop(d)
         \/ \E k \in Key : Lapse(k)
  PROVE  ReadInv'
  <1>1. UNCHANGED reading
    BY DEF Generate, Forget, Upload, Expire, CleanUp, DeleteDataset,
           DeleteInsights, Scan, Drop, Lapse, reading
  <1>2. \A k \in Key : cache'[k] \in {cache[k], None}
    BY DEF ReadInv, TypeOK, Generate, Forget, Upload, Expire, CleanUp,
           DeleteDataset, DeleteInsights, Scan, Drop, Lapse
  <1>3. TypeOK'
    <2> USE DEF ReadInv, TypeOK, reading, store, delete
    <2>1. CASE \E i \in Insight : Generate(i) \/ Forget(i)
      BY <2>1 DEF Generate, Forget
    <2>2. CASE \E d \in Dataset : Upload(d) \/ Expire(d)
      BY <2>2 DEF Upload, Expire
    <2>3. CASE \E d \in Dataset : CleanUp(d) \/ DeleteDataset(d)
      BY <2>3 DEF CleanUp, DeleteDataset, Remove
    <2>4. CASE \E d \in Dataset : DeleteInsights(d)
      BY <2>4 DEF DeleteInsights
    <2>5. CASE \E d \in Dataset : Scan(d)
      BY <2>5 DEF Scan
    <2>6. CASE \E d \in Dataset : Drop(d)
      BY <2>6 DEF Drop
    <2>7. CASE \E k \in Key : Lapse(k)
      BY <2>7 DEF Lapse
    <2> QED
      BY <2>1, <2>2, <2>3, <2>4, <2>5, <2>6, <2>7
  <1> QED
    BY <1>1, <1>2, <1>3, StoreStep

LEMMA ReadInductive == ReadInv /\ [Next]_vars => ReadInv'
  <1> SUFFICES ASSUME ReadInv, [Next]_vars PROVE ReadInv'
    OBVIOUS
  <1>1. CASE UNCHANGED vars
    <2>1. TypeOK' /\ UNCHANGED <<reading, cache>>
      BY <1>1 DEF ReadInv, TypeOK, vars, reading
    <2> QED
      BY <2>1, StoreStep
  <1> QED
    BY <1>1, ReadersInductive, StoresInductive DEF Next

(***************************************************************************)
(* Types, and where each request is in its calls.                          *)
(***************************************************************************)
THEOREM ReadInvariant == Spec => []ReadInv
  BY ReadInit, ReadInductive, PTL DEF Spec

(***************************************************************************)
(* No reader is shown another scope's insight, directly or from an entry   *)
(* that another reader stored.                                             *)
(***************************************************************************)
THEOREM ShownStaysOwn == Spec => []ShownIsOwn
  <1>1. ReadInv => ShownIsOwn
    BY DEF ReadInv, LentIsOwn, Lends, ShownIsOwn
  <1> QED
    BY <1>1, ReadInvariant, PTL

(***************************************************************************)
(* Reads that validate the dataset first are what makes stale cache        *)
(* entries harmless, whatever the invalidation leaves behind.              *)
(***************************************************************************)
THEOREM LateIsNotServed == Spec => []NothingServedAfterRemoval
  <1>1. ReadInv => NothingServedAfterRemoval
    BY AnswerIsPayload
    DEF ReadInv, TypeOK, LateEnds, NothingServedAfterRemoval, Served
  <1> QED
    BY <1>1, ReadInvariant, PTL

-----------------------------------------------------------------------------
(***************************************************************************)
(* In memory every store keeps the hash of the rows, and an insight is on  *)
(* record as long as its dataset is live.                                  *)
(***************************************************************************)
Live(d) == life[d] = "live"
Uses(r, p) ==
  OwnInsight(r) /\ Live(Ask[r].dataset) => p.shown = Ask[r].insight

Recorded ==
  /\ \A i \in minted : /\ life[Subject[i][1]] # "new"
                       /\ Live(Subject[i][1]) => i \in known
  /\ \A d \in Dataset : deletion[d] # "idle" => life[d] = "gone"

\* A request that is under way, served or cached is about a dataset that was
\* uploaded and an insight that was handed out.
Begun(r) == pc[r] \in {"scope", "cache", "resolve"} \/ Served(r)

OwnIsUsed ==
  \A r \in Reader :
    /\ Begun(r) => /\ life[Ask[r].dataset] # "new"
                   /\ Ask[r].insight \in minted \cup {None}
    /\ Served(r) => Uses(r, Body(r))
    /\ HasEntry(r) => life[Ask[r].dataset] # "new" /\ Uses(r, Entry(r))

UseInv == ReadInv /\ Recorded /\ OwnIsUsed

LEMMA OwnResolves ==
  ASSUME Storage = "memory", Recorded, NEW r \in Reader,
         Ask[r].insight \in minted \cup {None}
  PROVE  Uses(r, Resolve(Ask[r]))
  <1> SUFFICES ASSUME OwnInsight(r), Live(Ask[r].dataset)
               PROVE  Usable(Ask[r])
    BY DEF Uses, Resolve
  <1>1. Found(Ask[r].insight)
    BY AskFields DEF Recorded, Found, OwnInsight
  <1> QED
    BY <1>1, AskFields
    DEF Usable, OwnInsight, SignatureOf, Signature, Digest

LEMMA UseInit == Init => UseInv
  <1> SUFFICES ASSUME Init PROVE UseInv
    OBVIOUS
  <1>1. ReadInv
    BY ReadInit
  <1>2. Recorded
    BY DEF Init, Recorded
  <1>3. OwnIsUsed
    BY AnswerIsPayload, AskFields
    DEF Init, OwnIsUsed, Begun, Served, HasEntry, Entry
  <1> QED
    BY <1>1, <1>2, <1>3 DEF UseInv

\* Readers change no store.
LEMMA RecordedByReaders ==
  Recorded /\ UNCHANGED <<store, delete>> => Recorded'
  BY DEF Recorded, Live, store, delete

LEMMA UseReaders ==
  ASSUME Storage = "memory", UseInv, NEW r \in Reader, GetDataset(r) \/ Read(r)
  PROVE  UseInv'
  <1>1. ReadInv'
    BY ReadersInductive DEF UseInv
  <1>2. UNCHANGED <<store, delete>>
    BY DEF GetDataset, Read, GetScope, CacheHit, CacheMiss, ResolveForAgent,
           ResolveForSummary, Fill, store, delete
  <1>3. Recorded'
    BY <1>2, RecordedByReaders DEF UseInv
  <1>4. \A q \in Reader : q # r => pc'[q] = pc[q] /\ answer'[q] = answer[q]
    BY DEF UseInv, ReadInv, TypeOK, GetDataset, Read, GetScope, CacheHit,
           CacheMiss, ResolveForAgent, ResolveForSummary, Fill, Finish, Goto
  <1>5. \A q \in Reader : \A p : Uses(q, p) => Uses(q, p)'
    BY <1>2 DEF Uses, OwnInsight, Live, store
  <1>6. ASSUME Begun(r)'
        PROVE  life'[Ask[r].dataset] # "new" /\ Ask[r].insight \in minted' \cup {None}
    <2>1. CASE GetDataset(r)
      BY <1>6, <2>1, AskFields, AnswerIsPayload
      DEF Begun, GetDataset, Finish, Goto, Served, UseInv, ReadInv, Stages, TypeOK, store
    <2>2. CASE ~GetDataset(r)
      <3>1. Begun(r)
        BY <2>2 DEF Begun, Read, GetScope, CacheHit, CacheMiss,
                    ResolveForAgent, ResolveForSummary, Fill, UseInv, ReadInv, Stages
      <3> QED
        BY <3>1, <1>2 DEF UseInv, OwnIsUsed, store
    <2> QED
      BY <2>1, <2>2
  <1>7. ASSUME Served(r)' PROVE Uses(r, Body(r)')
    <2>1. CASE GetDataset(r) \/ GetScope(r) \/ CacheMiss(r)
      BY <1>7, <2>1, AnswerIsPayload
      DEF GetDataset, GetScope, CacheMiss, Finish, Goto, Served, UseInv, ReadInv, Stages, TypeOK
    <2>2. CASE CacheHit(r)
      <3>1. HasEntry(r) /\ Entry(r) \in Shown
        BY <2>2, AskFields
        DEF CacheHit, UseInv, ReadInv, Stages, TypeOK, HasEntry, Entry
      <3>2. Body(r)' = Entry(r)
        BY <2>2, <3>1, AnswerIsPayload
        DEF CacheHit, Finish, Body, Entry, UseInv, ReadInv, TypeOK
      <3> QED
        BY <3>1, <3>2 DEF UseInv, OwnIsUsed
    <2>3. CASE ResolveForAgent(r) \/ ResolveForSummary(r)
      <3>1. Begun(r)
        BY <2>3 DEF ResolveForAgent, ResolveForSummary, Begun
      <3>2. Uses(r, Resolve(Ask[r]))
        BY <3>1, OwnResolves DEF UseInv, OwnIsUsed
      <3>3. Body(r)' = Resolve(Ask[r])
        BY <2>3, ResolveLends, AnswerIsPayload
        DEF ResolveForAgent, ResolveForSummary, Finish, Body, UseInv, ReadInv, TypeOK
      <3> QED
        BY <3>2, <3>3
    <2>4. CASE Fill(r)
      BY <2>4, <1>7 DEF Fill, Goto, UseInv, OwnIsUsed, Served, Body
    <2> QED
      BY <2>1, <2>2, <2>3, <2>4 DEF Read
  <1>8. ASSUME NEW q \in Reader, HasEntry(q)'
        PROVE  life'[Ask[q].dataset] # "new" /\ Uses(q, Entry(q)')
    <2>1. CASE Entry(q)' = Entry(q)
      BY <1>2, <1>8, <2>1 DEF UseInv, OwnIsUsed, HasEntry, store
    <2>2. CASE Entry(q)' # Entry(q)
      <3>1. Fill(r)
        BY <2>2 DEF Read, GetDataset, GetScope, CacheHit, CacheMiss,
                    ResolveForAgent, ResolveForSummary, Entry
      <3>2. CacheKey(Ask[q]) = CacheKey(Ask[r]) /\ Entry(q)' = Body(r)
        BY <2>2, <3>1, AskFields DEF Fill, Entry, UseInv, ReadInv, TypeOK
      <3>3. Ask[r].kind = "summary" /\ Served(r)
        BY <3>1 DEF Fill, UseInv, ReadInv, Stages
      <3>4. /\ Ask[q].dataset = Ask[r].dataset /\ Ask[q].insight = Ask[r].insight
            /\ OwnInsight(q) <=> OwnInsight(r)
        BY <3>2, <3>3, <1>8, KeyIsAsk DEF HasEntry
      <3> QED
        BY <1>2, <3>2, <3>3, <3>4 DEF UseInv, OwnIsUsed, Uses, Begun, store
    <2> QED
      BY <2>1, <2>2
  <1>9. OwnIsUsed'
    <2> SUFFICES ASSUME NEW q \in Reader
                 PROVE  /\ Begun(q)' => /\ life'[Ask[q].dataset] # "new"
                                        /\ Ask[q].insight \in minted' \cup {None}
                        /\ Served(q)' => Uses(q, Body(q))'
                        /\ HasEntry(q)' =>
                             life'[Ask[q].dataset] # "new" /\ Uses(q, Entry(q))'
      BY DEF OwnIsUsed
    <2>1. HasEntry(q)' => life'[Ask[q].dataset] # "new" /\ Uses(q, Entry(q))'
      BY <1>2, <1>8 DEF Uses, Live, store, OwnInsight
    <2>2. CASE q = r
      BY <2>1, <2>2, <1>2, <1>6, <1>7 DEF Uses, Live, store, OwnInsight
    <2>3. CASE q # r
      <3>1. UNCHANGED <<life, minted>> /\ pc'[q] = pc[q] /\ answer'[q] = answer[q]
        BY <1>2, <1>4, <2>3 DEF store
      <3> QED
        BY <2>1, <3>1
        DEF UseInv, OwnIsUsed, Begun, Served, Body, Uses, Live, OwnInsight
    <2> QED
      BY <2>2, <2>3
  <1> QED
    BY <1>1, <1>3, <1>9 DEF UseInv

\* Only an upload makes a dataset live, and only one that nothing is about.
LEMMA UseStep ==
  ASSUME UseInv, ReadInv', Recorded', UNCHANGED reading,
         minted \subseteq minted',
         \A k \in Key : cache'[k] \in {cache[k], None},
         \A d \in Dataset :
           life[d] # "new" => life'[d] # "new" /\ (Live(d)' => Live(d))
  PROVE  UseInv'
  <1>1. ASSUME NEW q \in Reader
        PROVE  /\ Begun(q)' => /\ life'[Ask[q].dataset] # "new"
                               /\ Ask[q].insight \in minted' \cup {None}
               /\ Served(q)' => Uses(q, Body(q))'
               /\ HasEntry(q)' =>
                    life'[Ask[q].dataset] # "new" /\ Uses(q, Entry(q))'
    <2>1. /\ Begun(q)' <=> Begun(q)
          /\ Served(q)' <=> Served(q)
          /\ Body(q)' = Body(q)
      BY DEF Begun, Served, Body, reading
    <2>2. HasEntry(q)' => HasEntry(q) /\ Entry(q)' = Entry(q)
      BY AskFields DEF HasEntry, Entry
    <2>3. Served(q) => Begun(q)
      BY DEF Begun
    <2> QED
      BY <2>1, <2>2, <2>3, AskFields DEF UseInv, OwnIsUsed, Uses, OwnInsight
  <1>2. OwnIsUsed'
    BY <1>1 DEF OwnIsUsed
  <1> QED
    BY <1>2 DEF UseInv

LEMMA UseStores ==
  ASSUME Storage = "memory", UseInv,
         \/ \E i \in Insight : Generate(i) \/ Forget(i)
         \/ \E d \in Dataset : Upload(d) \/ Expire(d) \/ CleanUp(d)
              \/ DeleteDataset(d) \/ DeleteInsights(d) \/ Scan(d) \/ Drop(d)
         \/ \E k \in Key : Lapse(k)
  PROVE  UseInv'
  <1>1. ReadInv'
    BY StoresInductive DEF UseInv
  <1>2. UNCHANGED reading
    BY DEF Generate, Forget, Upload, Expire, CleanUp, DeleteDataset,
           DeleteInsights, Scan, Drop, Lapse, reading
  <1>3. \A k \in Key : cache'[k] \in {cache[k], None}
    BY DEF UseInv, ReadInv, TypeOK, Generate, Forget, Upload, Expire, CleanUp,
           DeleteDataset, DeleteInsights, Scan, Drop, Lapse
  <1>4. minted \subseteq minted' /\ Recorded'
        /\ \A d \in Dataset :
             life[d] # "new" => life'[d] # "new" /\ (Live(d)' => Live(d))
    <2> USE DEF UseInv, ReadInv, TypeOK, Recorded, Live, reading, store, delete
    <2>1. CASE \E i \in Insight : Generate(i)
      BY <2>1 DEF Generate
    <2>2. CASE \E i \in Insight : Forget(i)
      BY <2>2 DEF Forget
    <2>3. CASE \E d \in Dataset : Upload(d) \/ Expire(d)
      BY <2>3 DEF Upload, Expire
    <2>4. CASE \E d \in Dataset : CleanUp(d)
      BY <2>4 DEF CleanUp, Remove
    <2>5. CASE \E d \in Dataset : DeleteDataset(d)
      BY <2>5 DEF DeleteDataset, Remove
    <2>6. CASE \E d \in Dataset : DeleteInsights(d)
      BY <2>6 DEF DeleteInsights, InsightsOf
    <2>7. CASE \E d \in Dataset : Scan(d) \/ Drop(d)
      BY <2>7 DEF Scan, Drop
    <2>8. CASE \E k \in Key : Lapse(k)
      BY <2>8 DEF Lapse
    <2> QED
      BY <2>1, <2>2, <2>3, <2>4, <2>5, <2>6, <2>7, <2>8
  <1> QED
    BY <1>1, <1>2, <1>3, <1>4, UseStep

LEMMA UseInductive == Storage = "memory" /\ UseInv /\ [Next]_vars => UseInv'
  <1> SUFFICES ASSUME Storage = "memory", UseInv, [Next]_vars PROVE UseInv'
    OBVIOUS
  <1>1. CASE UNCHANGED vars
    <2>1. ReadInv'
      BY <1>1, ReadInductive DEF UseInv
    <2>2. Recorded' /\ UNCHANGED <<reading, minted, cache, life>>
      BY <1>1 DEF UseInv, Recorded, Live, vars, reading
    <2> QED
      BY <2>1, <2>2, UseStep DEF Live
  <1> QED
    BY <1>1, UseReaders, UseStores DEF Next

(***************************************************************************)
(* With the in-memory stores the services agree on the signature of a      *)
(* scope, and every reader of the scope an insight was generated for uses  *)
(* it.  With the database they do not: the run SummaryCache_database shows *)
(* it.                                                                     *)
(***************************************************************************)
THEOREM OwnInsightIsUsed ==
  ASSUME Storage = "memory"
  PROVE  Spec => []InsightIsUsed
  <1>1. UseInv => InsightIsUsed
    BY DEF UseInv, OwnIsUsed, Uses, Live, InsightIsUsed
  <1>2. Init => UseInv
    BY UseInit
  <1>3. UseInv /\ [Next]_vars => UseInv'
    BY UseInductive
  <1> QED
    BY <1>1, <1>2, <1>3, PTL DEF Spec
=============================================================================
