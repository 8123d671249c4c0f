------------------------- MODULE ReviewPagesProofs -------------------------
(* That the review pool never rests on a page of another view, for every   *)
(* file, all filters, and whatever becomes of the requests.                *)
EXTENDS ReviewPages, TLAPS, FiniteSetTheorems

(***************************************************************************)
(* Nothing is fetched without a dataset, and a fetch waits only without    *)
(* network, once for each key.                                             *)
(***************************************************************************)
Waiting ==
  /\ error \in BOOLEAN
  /\ frame = None => cached = {} /\ fetching = {} /\ paused = {}
  /\ fetching \cap paused = {}
  /\ online => paused = {}

\* The page shown is that of the current key as soon as there is one, and
\* otherwise the key is on its way.
OnItsWay ==
  Mounted /\ ~error =>
    \/ data = PageOf(Current)
    \/ Current \notin cached /\ Current \in fetching \cup paused

PoolInv == Waiting /\ OnItsWay

LEMMA PoolInit == Init => PoolInv
  BY DEF Init, PoolInv, Waiting, OnItsWay, Mounted

LEMMA PageOfIs ==
  ASSUME NEW k PROVE PageOf(k) = Search(Scope(k[1]), k[2], k[3])
  <1> DEFINE page(scope) == Search(scope, k[2], k[3])
  <1>1. PageOf(k) = CHOOSE y \in {page(s) : s \in {Scope(k[1])}} : TRUE
    BY DEF PageOf, Once
  <1> HIDE DEF page
  <1>2. PageOf(k) = page(Scope(k[1]))
    BY <1>1
  <1> QED
    BY <1>2 DEF page

\* PageOf reads nothing but the frame.
LEMMA SamePage == UNCHANGED frame => \A k : PageOf(k)' = PageOf(k)
  <1> SUFFICES ASSUME UNCHANGED frame, NEW k PROVE PageOf(k)' = PageOf(k)
    OBVIOUS
  <1>1. (PageOf(k) = Search(Scope(k[1]), k[2], k[3]))'
    BY PageOfIs, PTL
  <1> QED
    BY <1>1, PageOfIs DEF Scope

LEMMA CurrentIs ==
  PageOf(Current) = Search(Scope(Current[1]), Current[2], Current[3])
  BY PageOfIs

LEMMA CurrentPage ==
  ASSUME UNCHANGED frame PROVE PageOf(Current)' = PageOf(Current')
  <1>2. (PageOf(Current) = Search(Scope(Current[1]), Current[2], Current[3]))'
    BY CurrentIs, PTL
  <1>3. PageOf(Current') = Search(Scope(Current'[1]), Current'[2], Current'[3])
    BY PageOfIs
  <1> QED
    BY <1>2, <1>3 DEF Scope

LEMMA FetchStep ==
  ASSUME Waiting, NEW k, Fetch(k), UNCHANGED <<online, cached>>,
         frame' = frame \/ frame = None, frame' # None, error' \in BOOLEAN
  PROVE  Waiting' /\ k \in fetching' \cup paused'
  BY DEF Waiting, Fetch

\* Whatever key is rendered next.
LEMMA RenderStep ==
  ASSUME Waiting, UNCHANGED <<cached, online>>, NEW k, NEW previous,
         frame' = frame \/ frame = None, frame' # None,
         k = Current', Render(k, previous)
  PROVE  PoolInv'
  <1>1. Waiting'
    BY FetchStep DEF Waiting, Render
  <1>2. CASE k \in cached
    <2>1. frame' = frame
      BY <1>2 DEF Waiting
    <2>2. data' = PageOf(k) /\ PageOf(Current)' = PageOf(k)
      BY <1>2, <2>1, CurrentPage DEF Render
    <2> QED
      BY <1>1, <2>2 DEF PoolInv, OnItsWay
  <1>3. CASE k \notin cached
    <2>1. k \in fetching' \cup paused'
      BY <1>3, FetchStep DEF Render
    <2> QED
      BY <1>1, <1>3, <2>1 DEF PoolInv, OnItsWay
  <1> QED
    BY <1>2, <1>3

\* New filters start a new pool, or none without a summary.
LEMMA MountStep ==
  ASSUME Waiting, UNCHANGED <<cached, online>>, NEW f,
         frame' = frame \/ frame = None, frame' # None, Mount(f)
  PROVE  PoolInv'
  <1>1. CASE summary' # None
    <2>1. <<f, "all", 0>> = Current'
      BY DEF Mount, Current
    <2> QED
      BY <1>1, <2>1, RenderStep DEF Mount
  <1>2. CASE summary' = None
    <2>1. UNCHANGED <<fetching, paused>>
      BY <1>2 DEF Mount
    <2>2. Waiting'
      BY <1>2, <2>1 DEF Waiting, Mount
    <2>3. OnItsWay'
      BY <1>2 DEF OnItsWay, Mounted
    <2> QED
      BY <2>2, <2>3 DEF PoolInv
  <1> QED
    BY <1>1, <1>2

LEMMA TurnStep ==
  ASSUME PoolInv, Mounted, NEW o, Turn(o)
  PROVE  PoolInv'
  <1>1. /\ UNCHANGED <<cached, online, frame>> /\ frame # None
        /\ <<filters, view, o>> = Current'
    BY DEF Turn, Current, Mounted, dataset, network
  <1> QED
    BY <1>1, RenderStep DEF Turn, PoolInv

\* The answers: one of another key than the current changes nothing shown.
LEMMA AnswerStep ==
  ASSUME PoolInv, Answers \/ GoOffline
  PROVE  PoolInv'
  <1> USE DEF PoolInv
  <1>1. /\ UNCHANGED <<frame, summary, filters, view, offset>>
        /\ Current' = Current /\ (Mounted' <=> Mounted)
        /\ \A k : PageOf(k)' = PageOf(k)
    BY SamePage
    DEF Answers, GoOffline, GoOnline, Arrives, Fails, Current, Mounted, dataset
  <1>2. CASE GoOffline
    BY <1>1, <1>2 DEF GoOffline, Waiting, OnItsWay
  <1>3. CASE GoOnline
    BY <1>1, <1>3 DEF GoOnline, Waiting, OnItsWay
  <1>4. ASSUME NEW k \in fetching, Arrives(k) PROVE PoolInv'
    <2>1. Waiting'
      BY <1>1, <1>4 DEF Arrives, Waiting, network
    <2>2. OnItsWay'
      BY <1>1, <1>4 DEF Arrives, OnItsWay
    <2> QED
      BY <2>1, <2>2
  <1>5. ASSUME NEW k \in fetching, Fails(k) PROVE PoolInv'
    <2>1. Waiting'
      BY <1>1, <1>5 DEF Fails, Waiting, network
    <2>2. OnItsWay'
      <3>1. UNCHANGED <<data, cached>> /\ PageOf(Current)' = PageOf(Current)
        BY <1>1, <1>5, CurrentPage DEF Fails
      <3> DEFINE lost == Mounted /\ k = Current /\ k \notin cached
      <3>2. /\ fetching' = fetching \ {k}
            /\ \/ error' = (error \/ lost) /\ paused' = paused
               \/ paused' = paused \cup {k} /\ error' = error
        BY <1>5 DEF Fails
      <3>3. CASE error' = (error \/ lost) /\ paused' = paused
        <4>1. ~error' => ~error /\ ~lost
          BY <3>3, Zenon
        <4> QED
          BY <1>1, <3>1, <3>2, <3>3, <4>1 DEF OnItsWay
      <3>4. CASE paused' = paused \cup {k} /\ error' = error
        BY <1>1, <3>1, <3>2, <3>4 DEF OnItsWay
      <3> QED
        BY <3>2, <3>3, <3>4
    <2> QED
      BY <2>1, <2>2
  <1> QED
    BY <1>2, <1>3, <1>4, <1>5 DEF Answers

LEMMA PoolInductive == PoolInv /\ [Next]_vars => PoolInv'
  <1> SUFFICES ASSUME PoolInv, [Next]_vars PROVE PoolInv'
    OBVIOUS
  <1>1. CASE UNCHANGED vars
    <2>1. Current' = Current /\ (Mounted' <=> Mounted)
          /\ PageOf(Current)' = PageOf(Current)
      BY <1>1, CurrentPage DEF vars, Current, Mounted
    <2> QED
      BY <1>1, <2>1 DEF vars, PoolInv, Waiting, OnItsWay
  <1>2. ASSUME NEW new \in File, Upload(new) PROVE PoolInv'
    <2>1. frame' # None
      BY <1>2, ReviewPagesAssumption DEF Upload
    <2> QED
      BY <1>2, <2>1, MountStep DEF Upload, PoolInv, network
  <1>3. ASSUME NEW f \in Filter, ApplyFilters(f) PROVE PoolInv'
    BY <1>3, MountStep DEF ApplyFilters, PoolInv, dataset, network
  <1>4. ASSUME NEW v \in View, ChooseView(v) PROVE PoolInv'
    <2>1. /\ UNCHANGED <<cached, online, frame>> /\ frame # None
          /\ <<filters, v, 0>> = Current'
      BY <1>4 DEF ChooseView, Current, Mounted, dataset, network
    <2> QED
      BY <1>4, <2>1, RenderStep DEF ChooseView, PoolInv
  <1>5. CASE PreviousPage
    BY <1>5, TurnStep DEF PreviousPage, Clickable, Shown
  <1>6. CASE NextPage
    BY <1>6, TurnStep DEF NextPage, Clickable, Shown
  <1>7. CASE Answers \/ GoOffline
    BY <1>7, AnswerStep
  <1>8. CASE ReloadSummary
    BY <1>8, MountStep DEF ReloadSummary, PoolInv, Mounted, dataset, network
  <1> QED
    BY <1>1, <1>2, <1>3, <1>4, <1>5, <1>6, <1>7, <1>8 DEF Next

(***************************************************************************)
(* A pool without a page of its own is fetching one or shows its error.    *)
(***************************************************************************)
THEOREM PoolInvariant == Spec => []PoolInv
  BY PoolInit, PoolInductive, PTL DEF Spec

(***************************************************************************)
(* At rest the pool shows the page of its filters, view and offset,        *)
(* although the last page stands in for the next and answers come late or  *)
(* never.                                                                  *)
(***************************************************************************)
THEOREM PoolShowsOwn == Spec => []ShownIsOwn
  <1>1. PoolInv => ShownIsOwn
    BY DEF PoolInv, OnItsWay, ShownIsOwn, Shown
  <1> QED
    BY <1>1, PoolInvariant, PTL

-----------------------------------------------------------------------------
(* What is selected and sorted is a sequence, of a known length. *)

IsSequence(s) == Len(s) \in Nat /\ s \in Seq({s[i] : i \in 1..Len(s)})

LEMMA ListIs ==
  ASSUME NEW n \in Nat, NEW g, g = [k \in 1..n |-> g[k]]
  PROVE  IsSequence(g) /\ Len(g) = n /\ SubSeq(g, 1, n) = g
  <1>1. g \in Seq({g[k] : k \in 1..n}) /\ Len(g) = n
    OBVIOUS
  <1>2. SubSeq(g, 1, n) = g
    BY <1>1
  <1> QED
    BY <1>1, <1>2 DEF IsSequence

LEMMA TakenIs ==
  ASSUME NEW s, Len(s) \in Nat, NEW at \in SUBSET (1..Len(s))
  PROVE  IsSequence(Taken(s, at)) /\ Len(Taken(s, at)) = Cardinality(at)
  <1> DEFINE g == [k \in 1..Cardinality(at) |->
                     s[CHOOSE i \in at : Cardinality({j \in at : j <= i}) = k]]
  <1>1. Taken(s, at) = SubSeq(g, 1, Cardinality(at))
    BY DEF Taken
  <1>2. Cardinality(at) \in Nat
    <2>1. IsFiniteSet(1..Len(s))
      BY FS_Interval
    <2> QED
      BY <2>1, FS_Subset, FS_CardinalityType
  <1>3. g = [k \in 1..Cardinality(at) |-> g[k]]
    OBVIOUS
  <1> HIDE DEF g
  <1> QED
    BY <1>1, <1>2, <1>3, ListIs

LEMMA HighRiskIs ==
  ASSUME NEW s, Len(s) \in Nat
  PROVE  /\ IsSequence(Selected(s, IsHighRisk))
         /\ Len(Selected(s, IsHighRisk)) \in Nat
  <1> DEFINE at(t) == {i \in 1..Len(t) : IsHighRisk(t[i])}
             of(t) == Taken(t, at(t))
  <1>1. Selected(s, IsHighRisk) = CHOOSE y \in {of(t) : t \in {s}} : TRUE
    BY DEF Selected, Once
  <1>2. at(s) \in SUBSET (1..Len(s))
    OBVIOUS
  <1> HIDE DEF at
  <1>3. IsSequence(of(s))
    BY <1>2, TakenIs
  <1> HIDE DEF of
  <1>4. Selected(s, IsHighRisk) = of(s)
    BY <1>1
  <1> QED
    BY <1>3, <1>4 DEF IsSequence

LEMMA MismatchIs ==
  ASSUME NEW s, Len(s) \in Nat
  PROVE  /\ IsSequence(Selected(s, IsMismatch))
         /\ Len(Selected(s, IsMismatch)) \in Nat
  <1> DEFINE at(t) == {i \in 1..Len(t) : IsMismatch(t[i])}
             of(t) == Taken(t, at(t))
  <1>1. Selected(s, IsMismatch) = CHOOSE y \in {of(t) : t \in {s}} : TRUE
    BY DEF Selected, Once
  <1>2. at(s) \in SUBSET (1..Len(s))
    OBVIOUS
  <1> HIDE DEF at
  <1>3. IsSequence(of(s))
    BY <1>2, TakenIs
  <1> HIDE DEF of
  <1>4. Selected(s, IsMismatch) = of(s)
    BY <1>1
  <1> QED
    BY <1>3, <1>4 DEF IsSequence

LEMMA KeptIs ==
  ASSUME NEW s
  PROVE  Selected(s, Kept) = Taken(s, {i \in 1..Len(s) : Kept(s[i])})
  <1> DEFINE of(t) == Taken(t, {i \in 1..Len(t) : Kept(t[i])})
  <1>1. Selected(s, Kept) = CHOOSE y \in {of(t) : t \in {s}} : TRUE
    BY DEF Selected, Once
  <1> HIDE DEF of
  <1>2. Selected(s, Kept) = of(s)
    BY <1>1
  <1> QED
    BY <1>2 DEF of

LEMMA RiskSorted ==
  ASSUME NEW s, Len(s) \in Nat
  PROVE  IsSequence(Sorted(s, RiskOrder)) /\ Len(Sorted(s, RiskOrder)) = Len(s)
  <1> DEFINE g(t) ==
               [k \in 1..Len(t) |->
                  t[CHOOSE i \in 1..Len(t) :
                      Cardinality({j \in 1..Len(t) : RiskOrder(t[j], t[i])}) = k - 1]]
             of(t) == SubSeq(g(t), 1, Len(t))
             h == g(s)
             n == Len(s)
  <1>1. Sorted(s, RiskOrder) = CHOOSE y \in {of(t) : t \in {s}} : TRUE
    BY DEF Sorted, Once
  <1>2. n \in Nat /\ h = [k \in 1..n |-> h[k]] /\ of(s) = SubSeq(h, 1, n)
    OBVIOUS
  <1> HIDE DEF g, of, h, n
  <1>3. IsSequence(of(s)) /\ Len(of(s)) = n
    BY <1>2, ListIs
  <1>4. Sorted(s, RiskOrder) = of(s)
    BY <1>1
  <1> QED
    BY <1>3, <1>4 DEF n

LEMMA MismatchSorted ==
  ASSUME NEW s, Len(s) \in Nat
  PROVE  IsSequence(Sorted(s, MismatchOrder)) /\ Len(Sorted(s, MismatchOrder)) = Len(s)
  <1> DEFINE g(t) ==
               [k \in 1..Len(t) |->
                  t[CHOOSE i \in 1..Len(t) :
                      Cardinality({j \in 1..Len(t) : MismatchOrder(t[j], t[i])}) = k - 1]]
             of(t) == SubSeq(g(t), 1, Len(t))
             h == g(s)
             n == Len(s)
  <1>1. Sorted(s, MismatchOrder) = CHOOSE y \in {of(t) : t \in {s}} : TRUE
    BY DEF Sorted, Once
  <1>2. n \in Nat /\ h = [k \in 1..n |-> h[k]] /\ of(s) = SubSeq(h, 1, n)
    OBVIOUS
  <1> HIDE DEF g, of, h, n
  <1>3. IsSequence(of(s)) /\ Len(of(s)) = n
    BY <1>2, ListIs
  <1>4. Sorted(s, MismatchOrder) = of(s)
    BY <1>1
  <1> QED
    BY <1>3, <1>4 DEF n

-----------------------------------------------------------------------------
(* What an upload stores and reports *)

LEMMA PreparedIs ==
  ASSUME NEW file, Len(file) \in Nat
  PROVE  /\ IsSequence(Prepared(file))
         /\ Len(Prepared(file)) = Cardinality({i \in 1..Len(file) : Kept(file[i])})
  <1> DEFINE rows == Processed(file)
             at == {i \in 1..Len(rows) : Kept(rows[i])}
             kept == Taken(rows, at)
  <1>1. Len(rows) = Len(file) /\ \A i \in 1..Len(file) : Kept(rows[i]) <=> Kept(file[i])
    BY DEF Processed, Kept, BlankContent
  <1>2. Len(kept) = Cardinality(at) /\ Len(kept) \in Nat
    <2> HIDE DEF rows
    <2> QED
      BY <1>1, TakenIs DEF IsSequence
  <1>3. Selected(rows, Kept) = kept
    BY KeptIs
  <1>4. Prepared(file) = [k \in 1..Len(kept) |-> Labelled(kept[k])]
    BY <1>3 DEF Prepared, Prepare
  <1> HIDE DEF kept
  <1>5. IsSequence(Prepared(file)) /\ Len(Prepared(file)) = Len(kept)
    BY <1>2, <1>4, ListIs
  <1>6. at = {i \in 1..Len(file) : Kept(file[i])}
    <2> HIDE DEF rows
    <2> QED
      BY <1>1
  <1> QED
    BY <1>2, <1>5, <1>6

\* A dropped row is blank or has no rating that is valid.
LEMMA StatsAddUp ==
  ASSUME NEW file, Len(file) \in Nat
  PROVE  LET s == Stats(file)
         IN  /\ s.removed <= s.invalidRating + s.emptyContent
             /\ s.invalidRating <= s.removed /\ s.emptyContent <= s.removed
  <1> DEFINE N == 1..Len(file)
             kept == {i \in N : Kept(file[i])}
             invalid == {i \in N : InvalidRating(file[i])}
             empty == {i \in N : BlankContent(file[i])}
  <1>1. IsFiniteSet(N) /\ Cardinality(N) = Len(file)
    <2> DEFINE n == Len(file)
    <2>1. n \in Nat /\ N = 1..n
      OBVIOUS
    <2> HIDE DEF n, N
    <2>2. IsFiniteSet(N) /\ Cardinality(N) = n
      BY <2>1, FS_Interval
    <2> QED
      BY <2>2 DEF n
  <1>2. kept = N \ (invalid \cup empty)
    BY DEF Kept, InvalidRating
  <1>3. /\ Stats(file).removed = Len(file) - Len(Prepared(file))
        /\ Stats(file).invalidRating = Cardinality(invalid)
        /\ Stats(file).emptyContent = Cardinality(empty)
    BY DEF Stats, CountRows
  <1>4. Len(Prepared(file)) = Cardinality(kept)
    BY PreparedIs
  <1>5. invalid \in SUBSET N /\ empty \in SUBSET N
    OBVIOUS
  <1> HIDE DEF N, kept, invalid, empty
  <1>6. /\ IsFiniteSet(invalid) /\ IsFiniteSet(empty)
        /\ IsFiniteSet(invalid \cup empty)
        /\ (invalid \cup empty) \in SUBSET N
    <2>1. (invalid \cup empty) \in SUBSET N
      BY <1>5
    <2> QED
      BY <1>1, <1>5, <2>1, FS_Subset
  <1>7. /\ Cardinality(invalid) \in Nat /\ Cardinality(empty) \in Nat
        /\ Cardinality(invalid \cup empty) \in Nat
        /\ Cardinality(invalid \cap empty) \in Nat
    <2>1. IsFiniteSet(invalid \cap empty)
      BY <1>6, FS_Intersection
    <2> QED
      BY <1>6, <2>1, FS_CardinalityType
  <1>8. Cardinality(invalid \cup empty) =
          Cardinality(invalid) + Cardinality(empty) - Cardinality(invalid \cap empty)
    BY <1>6, FS_Union
  <1>9. /\ Cardinality(invalid) <= Cardinality(invalid \cup empty)
        /\ Cardinality(empty) <= Cardinality(invalid \cup empty)
    BY <1>6, FS_Subset
  <1>10. Cardinality(kept) = Len(file) - Cardinality(invalid \cup empty)
    <2>1. /\ N \cap (invalid \cup empty) = invalid \cup empty
          /\ Cardinality(N \ (invalid \cup empty)) =
               Cardinality(N) - Cardinality(N \cap (invalid \cup empty))
      BY <1>1, <1>6, FS_Difference
    <2> QED
      BY <1>1, <1>2, <2>1
  <1> QED
    BY <1>3, <1>4, <1>7, <1>8, <1>9, <1>10


-----------------------------------------------------------------------------
(* Pages: what filters, a view and an offset show of a frame *)

IsFrame(fr) ==
  fr = [columns |-> fr.columns, rows |-> fr.rows] /\ IsSequence(fr.rows)

LEMMA StoredIs ==
  ASSUME NEW file, Len(file) \in Nat PROVE IsFrame(Stored(file))
  BY PreparedIs DEF Stored, IsFrame

LEMMA FilteredIs ==
  ASSUME NEW fr, IsFrame(fr), NEW f
  PROVE  IsSequence(FilterReviews(fr, f).rows)
  <1> DEFINE keyword == Stripped(f.keyword)
             kept(r) == /\ r.rating \in f.ratings[1]..f.ratings[2]
                        /\ r.sentiment \in f.sentiments[1]..f.sentiments[2]
                        /\ Categories(f) = {} \/ r.category \in Categories(f)
                        /\ keyword = "" \/ keyword \in r.content
             of(t) == Taken(t, {i \in 1..Len(t) : kept(t[i])})
             rows == CHOOSE y \in {of(t) : t \in {fr.rows}} : TRUE
             within == [fr EXCEPT !.rows = rows]
  <1>1. FilterReviews(fr, f) = within
          \/ FilterReviews(fr, f) = HighRiskOf(within)
    BY DEF FilterReviews, Selected, Once
  <1>2. Len(fr.rows) \in Nat
    BY DEF IsFrame, IsSequence
  <1>3. IsSequence(of(fr.rows))
    <2> HIDE DEF kept
    <2> QED
      BY <1>2, TakenIs
  <1> HIDE DEF of
  <1>4. rows = of(fr.rows)
    OBVIOUS
  <1>5. within.rows = rows
    BY DEF IsFrame
  <1> HIDE DEF within, rows
  <1>6. IsSequence(within.rows) /\ Len(within.rows) \in Nat
    BY <1>3, <1>4, <1>5 DEF IsSequence
  <1>7. HighRiskOf(within).rows = Selected(within.rows, IsHighRisk)
    BY DEF HighRiskOf
  <1>8. IsSequence(HighRiskOf(within).rows)
    BY <1>6, <1>7, HighRiskIs
  <1> QED
    BY <1>1, <1>6, <1>8

\* How many reviews a summary counts in a view.
LEMMA ViewIs ==
  ASSUME NEW fr, IsSequence(fr.rows), NEW v \in View
  PROVE  /\ IsSequence(ViewOf(fr, v))
         /\ Len(ViewOf(fr, v)) =
              CASE v = "all" -> Len(fr.rows)
                [] v = "high_risk" -> Len(HighRiskOf(fr).rows)
                [] v = "rating_sentiment_mismatch" ->
                     Len(Selected(fr.rows, IsMismatch))
  <1>1. Len(fr.rows) \in Nat
    BY DEF IsSequence
  <1>2. CASE v = "all"
    BY <1>2 DEF ViewOf
  <1>3. CASE v = "high_risk"
    <2> DEFINE rows == HighRiskOf(fr).rows
    <2>1. rows = Selected(fr.rows, IsHighRisk)
      BY DEF HighRiskOf
    <2>2. IsSequence(rows) /\ Len(rows) \in Nat
      BY <1>1, <2>1, HighRiskIs
    <2>3. ViewOf(fr, v) = Sorted(rows, RiskOrder)
      BY <1>3 DEF ViewOf
    <2> HIDE DEF rows
    <2>4. IsSequence(ViewOf(fr, v)) /\ Len(ViewOf(fr, v)) = Len(rows)
      BY <2>2, <2>3, RiskSorted
    <2> QED
      BY <1>3, <2>4 DEF rows
  <1>4. CASE v = "rating_sentiment_mismatch"
    <2> DEFINE rows == Selected(fr.rows, IsMismatch)
    <2>1. IsSequence(rows) /\ Len(rows) \in Nat
      BY <1>1, MismatchIs
    <2>2. ViewOf(fr, v) = Sorted(rows, MismatchOrder)
      BY <1>4 DEF ViewOf
    <2> HIDE DEF rows
    <2>3. IsSequence(ViewOf(fr, v)) /\ Len(ViewOf(fr, v)) = Len(rows)
      BY <2>1, <2>2, MismatchSorted
    <2> QED
      BY <1>4, <2>3 DEF rows
  <1> QED
    BY <1>2, <1>3, <1>4 DEF View

\* What is on a page at offset o of a list of n reviews.
Page(p, v, o, n) ==
  /\ p.total = n /\ p.view = v /\ p.offset = o
  /\ Len(p.items) = IF o >= n THEN 0
                    ELSE IF o + PageSize <= n THEN PageSize ELSE n - o
  /\ p.items = <<>> => o >= n
  /\ p.next # None => p.next = o + Len(p.items) /\ p.next < n

LEMMA SearchIs ==
  ASSUME NEW fr, IsSequence(fr.rows), NEW v \in View, NEW o \in Nat,
         Search(fr, v, o) # None
  PROVE  Len(ViewOf(fr, v)) \in Nat
         /\ Page(Search(fr, v, o), v, o, Len(ViewOf(fr, v)))
  <1> DEFINE reviews == ViewOf(fr, v)
             n == Len(reviews)
             items(r) == Prefix(SubSeq(r, o + 1, Len(r)), PageSize)
             answer(r) ==
               IF \/ ~fr.columns
                  \/ v = "high_risk" /\ ~HighRiskOf(fr).columns
                  \/ ~Shows(items(r))
               THEN None
               ELSE [items |-> items(r), total |-> Len(r), view |-> v,
                     offset |-> o, next |-> NextOffset(o, items(r), Len(r))]
  <1>1. Search(fr, v, o) = CHOOSE y \in {answer(r) : r \in {reviews}} : TRUE
    BY DEF Search, Once
  <1>2. Search(fr, v, o) = answer(reviews)
    <2> HIDE DEF answer
    <2> QED
      BY <1>1
  <1>3. Search(fr, v, o) =
          [items |-> items(reviews), total |-> n, view |-> v,
           offset |-> o, next |-> NextOffset(o, items(reviews), n)]
    BY <1>2
  <1>4. IsSequence(reviews) /\ n \in Nat
    BY ViewIs DEF IsSequence
  <1> DEFINE rest == SubSeq(reviews, o + 1, n)
  <1> HIDE DEF reviews
  <1>5. PageSize \in Nat \ {0}
    BY ReviewDataAssumption
  <1>6. PICK S : reviews \in Seq(S)
    BY <1>4 DEF IsSequence
  <1>7. rest \in Seq(S) /\ Len(rest) = IF o >= n THEN 0 ELSE n - o
    BY <1>4, <1>6
  <1> DEFINE it == items(reviews)
  <1>8. it \in Seq(S) /\ Len(it) = IF PageSize < Len(rest) THEN PageSize ELSE Len(rest)
    <2>1. it = SubSeq(rest, 1, IF PageSize < Len(rest) THEN PageSize ELSE Len(rest))
      BY DEF Prefix
    <2> HIDE DEF rest
    <2> QED
      BY <1>5, <1>7, <2>1
  <1>9. Len(it) = IF o >= n THEN 0
                  ELSE IF o + PageSize <= n THEN PageSize ELSE n - o
    <2> HIDE DEF it, rest
    <2> QED
      BY <1>4, <1>5, <1>7, <1>8
  <1> HIDE DEF it, rest, items
  <1>10. it = <<>> => o >= n
    BY <1>4, <1>5, <1>9
  <1>11. NextOffset(o, it, n) # None =>
           NextOffset(o, it, n) = o + Len(it) /\ NextOffset(o, it, n) < n
    BY DEF NextOffset
  <1>12. Search(fr, v, o) = [items |-> it, total |-> n, view |-> v,
                             offset |-> o, next |-> NextOffset(o, it, n)]
    BY <1>3 DEF it
  <1> QED
    BY <1>4, <1>9, <1>10, <1>11, <1>12 DEF Page, reviews


-----------------------------------------------------------------------------
(* Where the pool is in its pages *)

PageIn(fr, f, v, o) == Search(FilterReviews(fr, Criteria[f]), v, o)
Total(fr, f, v) == Len(ViewOf(FilterReviews(fr, Criteria[f]), v))

\* A page that is reached by turning pages, each of which could be shown.
OnPage(fr, f, v, o) ==
  /\ \E n \in Nat : o = n * PageSize
  /\ o = 0 \/ o < Total(fr, f, v)
  /\ \A m \in Nat : m * PageSize < o => PageIn(fr, f, v, m * PageSize) # None

Uploaded ==
  /\ frame # None => \E file \in File : frame = Stored(file)
  /\ stats # None => \E file \in File : stats = Stats(file)
  /\ frame = None => summary = None /\ offset = 0
  /\ filters \in Filter /\ view \in View /\ offset \in Nat
  /\ summary # None => summary = Summary(Scope(filters))

\* What is shown may be another page's, or another view's, but is of the
\* filters that the summary is of.
OwnFilters ==
  Mounted /\ data # None =>
    \E v \in View, o \in Nat : data = PageIn(frame, filters, v, o)

Walked == ~cut => online /\ (Mounted => OnPage(frame, filters, view, offset))

PagesInv == PoolInv /\ Uploaded /\ OwnFilters /\ Walked

LEMMA PageOfKey ==
  ASSUME NEW f, NEW v, NEW o PROVE PageOf(<<f, v, o>>) = PageIn(frame, f, v, o)
  BY PageOfIs DEF PageIn, Scope

LEMMA PageFacts ==
  ASSUME Uploaded, frame # None, NEW f, NEW v \in View, NEW o \in Nat,
         PageIn(frame, f, v, o) # None
  PROVE  Total(frame, f, v) \in Nat /\ Page(PageIn(frame, f, v, o), v, o, Total(frame, f, v))
  <1>1. IsFrame(frame)
    BY StoredIs, ReviewPagesAssumption DEF Uploaded
  <1>2. IsSequence(FilterReviews(frame, Criteria[f]).rows)
    BY <1>1, FilteredIs
  <1> QED
    BY <1>2, SearchIs DEF Total, PageIn

LEMMA Multiples ==
  ASSUME NEW P \in Nat \ {0}
  PROVE  /\ 0 * P = 0
         /\ \A m, n \in Nat : (n + 1) * P = n * P + P /\ n * P \in Nat
         /\ \A m, n \in Nat : m * P < (n + 1) * P => m * P < n * P \/ m = n
         /\ \A n \in Nat : n * P # 0 => \E k \in Nat : n = k + 1
         /\ \A k \in Nat : k * P + P <= P => k * P = 0
  <1>1. 0 * P = 0 /\ \A n \in Nat : (n + 1) * P = n * P + P /\ n * P \in Nat
    OBVIOUS
  <1>2. \A m, d \in Nat : (m + 1 + d) * P = m * P + P + d * P /\ d * P >= 0
    OBVIOUS
  <1>3. ASSUME NEW m \in Nat, NEW n \in Nat, m * P < (n + 1) * P, m # n
        PROVE  m * P < n * P
    <2>1. CASE m < n
      <3>1. PICK d \in Nat : n = m + 1 + d
        <4>1. n - m - 1 \in Nat /\ n = m + 1 + (n - m - 1)
          BY <2>1
        <4> QED
          BY <4>1
      <3>2. n * P = m * P + P + d * P /\ d * P >= 0 /\ m * P \in Nat
        BY <1>1, <1>2, <3>1
      <3> QED
        BY <3>2
    <2>2. CASE m > n
      <3>1. PICK d \in Nat : m = n + 1 + d
        <4>1. m - n - 1 \in Nat /\ m = n + 1 + (m - n - 1)
          BY <2>2
        <4> QED
          BY <4>1
      <3>2. m * P = n * P + P + d * P /\ d * P >= 0 /\ (n + 1) * P = n * P + P
            /\ n * P \in Nat
        BY <1>1, <1>2, <3>1
      <3> QED
        BY <1>3, <3>2
    <2> QED
      BY <1>3, <2>1, <2>2
  <1>4. \A n \in Nat : n * P # 0 => \E k \in Nat : n = k + 1
    <2>1. \A n \in Nat : n = 0 \/ (n - 1 \in Nat /\ n = (n - 1) + 1)
      OBVIOUS
    <2> QED
      BY <1>1, <2>1
  <1>5. \A k \in Nat : k * P + P <= P => k * P = 0
    BY <1>1
  <1> QED
    BY <1>1, <1>3, <1>4, <1>5

LEMMA FirstPage ==
  ASSUME NEW fr, NEW f, NEW v PROVE OnPage(fr, f, v, 0)
  <1>1. 0 * PageSize = 0 /\ \A m \in Nat : m * PageSize \in Nat
    BY Multiples, ReviewDataAssumption
  <1> QED
    BY <1>1 DEF OnPage

\* Nobody turns a page that is not the one of the current key.
LEMMA ClickedIsCurrent ==
  ASSUME PagesInv, ~cut, Clickable
  PROVE  /\ Mounted /\ frame # None /\ Shown = PageOf(Current) /\ Shown # None
         /\ PageOf(Current) = PageIn(frame, filters, view, offset)
         /\ Total(frame, filters, view) \in Nat
         /\ Page(PageOf(Current), view, offset, Total(frame, filters, view))
  <1>1. Shown = data /\ Mounted /\ ~error /\ Shown # None /\ frame # None
    BY DEF Clickable, Shown, Mounted
  <1>2. Current \notin fetching \cup paused
    BY DEF Clickable, Busy, PagesInv, PoolInv, Waiting, Walked
  <1>3. data = PageOf(Current)
    BY <1>1, <1>2 DEF PagesInv, PoolInv, OnItsWay
  <1>4. PageOf(Current) = PageIn(frame, filters, view, offset)
    BY PageOfKey DEF Current
  <1> QED
    BY <1>1, <1>3, <1>4, PageFacts DEF PagesInv, Uploaded

LEMMA NextOnPage ==
  ASSUME PagesInv, ~cut, Clickable, Shown.next # None
  PROVE  /\ Shown.next = offset + Len(PageOf(Current).items)
         /\ Shown.next \in Nat
         /\ OnPage(frame, filters, view, Shown.next)
  <1> DEFINE n == Total(frame, filters, view)
             o == Shown.next
  <1>1. /\ n \in Nat /\ Page(Shown, view, offset, n) /\ Shown = PageOf(Current)
        /\ Shown # None /\ offset \in Nat
        /\ Shown = PageIn(frame, filters, view, offset)
        /\ PageSize \in Nat \ {0}
    BY ClickedIsCurrent, ReviewDataAssumption DEF PagesInv, Uploaded
  <1>2. OnPage(frame, filters, view, offset)
    BY ClickedIsCurrent DEF PagesInv, Walked
  <1>3. PICK k \in Nat : offset = k * PageSize
    BY <1>2 DEF OnPage
  <1>4. o = offset + Len(Shown.items) /\ o < n /\ Len(Shown.items) = PageSize
    <2> HIDE DEF n
    <2> QED
      BY <1>1 DEF Page
  <1>5. o = (k + 1) * PageSize /\ k + 1 \in Nat
    BY <1>1, <1>3, <1>4, Multiples
  <1>6. ASSUME NEW m \in Nat, m * PageSize < o
        PROVE  PageIn(frame, filters, view, m * PageSize) # None
    <2>1. CASE m = k
      BY <1>1, <1>3, <2>1
    <2>2. CASE m # k
      <3>1. m * PageSize < offset
        BY <1>1, <1>3, <1>5, <1>6, <2>2, Multiples
      <3> QED
        BY <1>2, <3>1 DEF OnPage
    <2> QED
      BY <2>1, <2>2
  <1>7. o \in Nat
    BY <1>1, <1>4
  <1> HIDE DEF o
  <1>8. OnPage(frame, filters, view, o)
    BY <1>4, <1>5, <1>6 DEF OnPage
  <1> QED
    BY <1>1, <1>4, <1>7, <1>8 DEF o

LEMMA PreviousOnPage ==
  ASSUME PagesInv, ~cut, Clickable, offset # 0, NEW o,
         o = IF offset > PageSize THEN offset - PageSize ELSE 0
  PROVE  /\ o \in Nat /\ offset = o + Len(PageIn(frame, filters, view, o).items)
         /\ OnPage(frame, filters, view, o)
  <1> DEFINE n == Total(frame, filters, view)
  <1>1. n \in Nat /\ offset \in Nat /\ PageSize \in Nat \ {0} /\ frame # None
        /\ view \in View /\ Uploaded
    BY ClickedIsCurrent, ReviewDataAssumption DEF PagesInv, Uploaded
  <1>2. OnPage(frame, filters, view, offset)
    BY ClickedIsCurrent DEF PagesInv, Walked
  <1>3. PICK k \in Nat : offset = (k + 1) * PageSize
    BY <1>1, <1>2, Multiples DEF OnPage
  <1>4. offset = k * PageSize + PageSize /\ k * PageSize \in Nat
        /\ (k * PageSize + PageSize <= PageSize => k * PageSize = 0)
    BY <1>1, <1>3, Multiples
  <1>5. o = k * PageSize /\ o \in Nat /\ offset = o + PageSize
    BY <1>1, <1>4
  <1>6. PageIn(frame, filters, view, o) # None /\ offset < n
    <2>1. o < offset
      BY <1>1, <1>5
    <2> QED
      BY <1>2, <1>5, <2>1 DEF OnPage
  <1>7. Len(PageIn(frame, filters, view, o).items) = PageSize
    <2>1. Page(PageIn(frame, filters, view, o), view, o, n)
      BY <1>1, <1>5, <1>6, PageFacts
    <2> HIDE DEF n
    <2> QED
      BY <1>1, <1>5, <1>6, <2>1 DEF Page
  <1>8. OnPage(frame, filters, view, o)
    <2>1. o < n
      BY <1>1, <1>5, <1>6
    <2>2. \A m \in Nat : m * PageSize < o => m * PageSize < offset
      BY <1>1, <1>5, Multiples
    <2> QED
      BY <1>2, <1>5, <2>1, <2>2 DEF OnPage
  <1> QED
    BY <1>5, <1>7, <1>8

-----------------------------------------------------------------------------
(* The invariant *)

LEMMA PagesInit == Init => PagesInv
  <1>1. "all" \in View /\ DefaultFilter \in Filter
    BY ReviewPagesAssumption DEF View
  <1> QED
    BY <1>1, PoolInit DEF Init, PagesInv, Uploaded, OwnFilters, Walked, Mounted

LEMMA UploadedStep ==
  ASSUME Uploaded, UNCHANGED <<dataset, filters, summary>>,
         view' \in View, offset' \in Nat, frame # None \/ offset' = 0
  PROVE  Uploaded'
  BY DEF Uploaded, dataset, Scope

\* What is rendered next is of the filters, if what is kept meanwhile is.
LEMMA RenderOwn ==
  ASSUME NEW v \in View, NEW o \in Nat, NEW previous,
         UNCHANGED frame, Render(<<filters', v, o>>, previous),
         previous # None =>
           \E w \in View, p \in Nat : previous = PageIn(frame, filters', w, p)
  PROVE  OwnFilters'
  <1>1. \/ data' = PageIn(frame, filters', v, o)
        \/ data' = previous
    BY PageOfKey DEF Render
  <1> QED
    BY <1>1 DEF OwnFilters

LEMMA MountPages ==
  ASSUME PoolInv, Uploaded, Walked, NEW f \in Filter, Mount(f),
         frame' = frame \/ frame = None, frame' # None,
         \E file \in File : frame' = Stored(file),
         stats' # None => \E file \in File : stats' = Stats(file),
         UNCHANGED <<cached, network>>
  PROVE  PagesInv'
  <1>1. PoolInv'
    BY MountStep DEF PoolInv, network
  <1>2. "all" \in View /\ 0 \in Nat
    BY DEF View
  <1>3. Uploaded'
    BY <1>2 DEF Uploaded, Mount, Scope
  <1>4. OwnFilters'
    <2>1. CASE summary' = None
      BY <2>1 DEF OwnFilters, Mounted
    <2>2. CASE summary' # None
      <3>1. Render(<<filters', "all", 0>>, None)
        BY <2>2 DEF Mount
      <3>2. CASE frame' = frame
        BY <1>2, <3>1, <3>2, RenderOwn
      <3>3. CASE frame = None
        <4>1. data' = None
          BY <3>1, <3>3 DEF Render, PoolInv, Waiting
        <4> QED
          BY <4>1 DEF OwnFilters
      <3> QED
        BY <3>2, <3>3
    <2> QED
      BY <2>1, <2>2
  <1>5. Walked'
    <2>1. view' = "all" /\ offset' = 0
      BY DEF Mount
    <2> QED
      BY <2>1, FirstPage DEF Walked, network
  <1> QED
    BY <1>1, <1>3, <1>4, <1>5 DEF PagesInv

\* A pool that turns to another page, or to the first one of another view.
LEMMA RenderPages ==
  ASSUME PagesInv, PoolInv', Mounted,
         UNCHANGED <<dataset, filters, summary, cached, network>>,
         view' \in View, offset' \in Nat, Render(<<filters, view', offset'>>, data),
         ~cut => OnPage(frame, filters, view', offset')
  PROVE  PagesInv'
  <1>1. frame # None /\ frame' = frame /\ filters' = filters /\ cut' = cut
        /\ online' = online
    BY DEF Mounted, dataset, network
  <1>2. Uploaded'
    BY <1>1, UploadedStep DEF PagesInv
  <1>3. OwnFilters'
    BY <1>1, RenderOwn DEF PagesInv, OwnFilters
  <1>4. Walked'
    BY <1>1 DEF PagesInv, Walked
  <1> QED
    BY <1>2, <1>3, <1>4 DEF PagesInv

\* The next page of a page of this pool is at a natural number.
LEMMA NextIsNat ==
  ASSUME PagesInv, Shown # None, Shown.next # None PROVE Shown.next \in Nat
  <1>1. Mounted /\ Shown = data /\ frame # None /\ Uploaded
    BY DEF Shown, Mounted, PagesInv
  <1>2. PICK v \in View, o \in Nat : data = PageIn(frame, filters, v, o)
    BY <1>1 DEF PagesInv, OwnFilters
  <1> DEFINE n == Total(frame, filters, v)
  <1>3. n \in Nat /\ Page(data, v, o, n)
    BY <1>1, <1>2, PageFacts
  <1>4. PageSize \in Nat
    BY ReviewDataAssumption
  <1> HIDE DEF n
  <1> QED
    BY <1>1, <1>3, <1>4 DEF Page

LEMMA NextPagePages == PagesInv /\ NextPage => PagesInv'
  <1> SUFFICES ASSUME PagesInv, NextPage PROVE PagesInv'
    OBVIOUS
  <1>1. /\ Clickable /\ Shown # None /\ Shown.next # None /\ Mounted
        /\ Turn(Shown.next)
    BY DEF NextPage, Clickable, Shown
  <1>2. PoolInv'
    BY <1>1, TurnStep DEF PagesInv
  <1>3. /\ offset' = Shown.next /\ view' = view
        /\ Render(<<filters, view, offset'>>, data)
        /\ UNCHANGED <<dataset, filters, summary, cached, network>>
    BY <1>1 DEF Turn
  <1>4. offset' \in Nat /\ view' \in View
    BY <1>1, <1>3, NextIsNat DEF PagesInv, Uploaded
  <1>5. ~cut => OnPage(frame, filters, view', offset')
    BY <1>1, <1>3, NextOnPage
  <1> QED
    BY <1>1, <1>2, <1>3, <1>4, <1>5, RenderPages

LEMMA PreviousPagePages == PagesInv /\ PreviousPage => PagesInv'
  <1> SUFFICES ASSUME PagesInv, PreviousPage PROVE PagesInv'
    OBVIOUS
  <1> DEFINE o == IF offset > PageSize THEN offset - PageSize ELSE 0
  <1>1. Clickable /\ offset # 0 /\ Mounted /\ Turn(o)
    BY DEF PreviousPage, Clickable, Shown
  <1>2. PoolInv'
    BY <1>1, TurnStep DEF PagesInv
  <1>3. /\ offset' = o /\ view' = view
        /\ Render(<<filters, view, offset'>>, data)
        /\ UNCHANGED <<dataset, filters, summary, cached, network>>
    BY <1>1 DEF Turn
  <1>4. offset' \in Nat /\ view' \in View
    BY <1>3, ReviewDataAssumption DEF PagesInv, Uploaded
  <1>5. ~cut => OnPage(frame, filters, view', offset')
    BY <1>1, <1>3, PreviousOnPage
  <1> QED
    BY <1>1, <1>2, <1>3, <1>4, <1>5, RenderPages

LEMMA ChooseViewPages ==
  ASSUME PagesInv, PoolInv', NEW v \in View, ChooseView(v) PROVE PagesInv'
  <1>1. /\ Mounted /\ view' = v /\ offset' = 0
        /\ Render(<<filters, view', offset'>>, data)
        /\ UNCHANGED <<dataset, filters, summary, cached, network>>
    BY DEF ChooseView
  <1>2. OnPage(frame, filters, view', offset')
    BY <1>1, FirstPage
  <1> QED
    BY <1>1, <1>2, RenderPages

\* Nothing else moves the pool, and only an answer changes what it shows.
LEMMA AnswerPages ==
  ASSUME PagesInv, PoolInv', Answers \/ GoOffline PROVE PagesInv'
  <1>1. /\ UNCHANGED <<dataset, summary, filters, view, offset>>
        /\ data' = data \/ (frame # None /\ data' = PageOf(Current))
    BY DEF Answers, GoOffline, GoOnline, Arrives, Fails, Mounted
  <1>2. (cut' = cut /\ (cut \/ online' = online)) \/ cut' = TRUE
    BY DEF Answers, GoOffline, GoOnline, Arrives, Fails, network, PagesInv, Walked
  <1>3. Uploaded'
    BY <1>1, UploadedStep DEF PagesInv, Uploaded
  <1>4. OwnFilters'
    <2>1. PageOf(Current) = PageIn(frame, filters, view, offset)
      BY PageOfKey DEF Current
    <2> QED
      BY <1>1, <2>1 DEF PagesInv, OwnFilters, Uploaded, Mounted, dataset
  <1>5. Walked'
    BY <1>1, <1>2 DEF PagesInv, Walked, Mounted, dataset
  <1> QED
    BY <1>3, <1>4, <1>5 DEF PagesInv

LEMMA PagesInductive == PagesInv /\ [Next]_vars => PagesInv'
  <1> SUFFICES ASSUME PagesInv, [Next]_vars PROVE PagesInv'
    OBVIOUS
  <1>1. PoolInv'
    BY PoolInductive DEF PagesInv
  <1>2. CASE UNCHANGED vars
    <2>1. Uploaded'
      BY <1>2, UploadedStep DEF vars, dataset, PagesInv, Uploaded
    <2>2. OwnFilters' /\ Walked'
      BY <1>2 DEF vars, PagesInv, OwnFilters, Walked, Mounted
    <2> QED
      BY <1>1, <2>1, <2>2 DEF PagesInv
  <1>3. ASSUME NEW new \in File, Upload(new) PROVE PagesInv'
    <2>1. /\ frame = None /\ frame' = Stored(new) /\ stats' = Stats(new)
          /\ Mount(DefaultFilter) /\ UNCHANGED <<cached, network>>
      BY <1>3 DEF Upload
    <2>2. Stored(new) # None /\ DefaultFilter \in Filter
      BY ReviewPagesAssumption
    <2> QED
      BY <2>1, <2>2, MountPages DEF PagesInv
  <1>4. ASSUME NEW f \in Filter, ApplyFilters(f) PROVE PagesInv'
    <2>1. /\ frame # None /\ frame' = frame /\ stats' = stats /\ Mount(f)
          /\ UNCHANGED <<cached, network>>
      BY <1>4 DEF ApplyFilters, dataset
    <2> QED
      BY <2>1, MountPages DEF PagesInv, Uploaded
  <1>5. ASSUME NEW v \in View, ChooseView(v) PROVE PagesInv'
    BY <1>1, <1>5, ChooseViewPages
  <1>6. CASE PreviousPage
    BY <1>6, PreviousPagePages
  <1>7. CASE NextPage
    BY <1>7, NextPagePages
  <1>8. CASE Answers \/ GoOffline
    BY <1>1, <1>8, AnswerPages
  <1>9. CASE ReloadSummary
    <2>1. /\ frame # None /\ frame' = frame /\ stats' = stats /\ Mount(filters)
          /\ UNCHANGED <<cached, network>>
      BY <1>9 DEF ReloadSummary, Mounted, dataset
    <2>2. filters \in Filter
      BY DEF PagesInv, Uploaded
    <2> QED
      BY <2>1, <2>2, MountPages DEF PagesInv, Uploaded
  <1> QED
    BY <1>2, <1>3, <1>4, <1>5, <1>6, <1>7, <1>8, <1>9 DEF Next

(***************************************************************************)
(* The pool shows only pages of the filters that its summary is of, and    *)
(* until the browser is offline it is at the first page of its view or at  *)
(* one that begins before the last review, with a page at every multiple   *)
(* of the page size before it.                                             *)
(***************************************************************************)
THEOREM PagesInvariant == Spec => []PagesInv
  BY PagesInit, PagesInductive, PTL DEF Spec

(***************************************************************************)
(* Every row that an upload drops is explained by a reason it reports, and *)
(* it reports no reason for more rows than it drops, whatever the file.    *)
(***************************************************************************)
THEOREM RowsHaveReasons == Spec => []RemovedRowsHaveReasons
  <1>1. PagesInv => RemovedRowsHaveReasons
    <2> SUFFICES ASSUME Uploaded, stats # None PROVE RemovedRowsHaveReasons
      BY DEF PagesInv, RemovedRowsHaveReasons
    <2>1. PICK file \in File : stats = Stats(file)
      BY DEF Uploaded
    <2>2. Len(file) \in Nat
      BY ReviewPagesAssumption
    <2> QED
      BY <2>1, <2>2, StatsAddUp DEF RemovedRowsHaveReasons
  <1> QED
    BY <1>1, PagesInvariant, PTL

\* A summary counts the reviews of a view that a search finds.
LEMMA SummaryCounts ==
  ASSUME NEW fr, IsSequence(fr.rows), Summary(fr) # None, NEW v \in View
  PROVE  Summary(fr)[v] = Len(ViewOf(fr, v))
  <1>1. Summary(fr) =
          [all |-> Len(fr.rows), high_risk |-> Len(HighRiskOf(fr).rows),
           rating_sentiment_mismatch |-> Len(Selected(fr.rows, IsMismatch))]
    BY DEF Summary
  <1> QED
    BY <1>1, ViewIs DEF View

(***************************************************************************)
(* Although a page of another view may stand in, and the search and the    *)
(* summary filter, sort and count by code of their own, the pool counts as *)
(* many reviews in the view of its page as the summary beside it.          *)
(***************************************************************************)
THEOREM PoolAndSummaryAgree == Spec => []PoolAgreesWithSummary
  <1>1. PagesInv => PoolAgreesWithSummary
    <2> SUFFICES ASSUME PagesInv, Shown # None
                 PROVE  Shown.total = summary[Shown.view]
      BY DEF PoolAgreesWithSummary
    <2>1. /\ Mounted /\ Shown = data /\ frame # None /\ Uploaded
          /\ summary # None
      BY DEF Shown, Mounted, PagesInv
    <2>2. PICK v \in View, o \in Nat : data = PageIn(frame, filters, v, o)
      BY <2>1 DEF PagesInv, OwnFilters
    <2>3. Page(data, v, o, Total(frame, filters, v))
      BY <2>1, <2>2, PageFacts
    <2>4. data.total = Total(frame, filters, v) /\ data.view = v
      BY <2>3 DEF Page
    <2>5. summary = Summary(Scope(filters))
      BY <2>1 DEF Uploaded
    <2>6. IsSequence(Scope(filters).rows)
      BY <2>1, StoredIs, FilteredIs, ReviewPagesAssumption DEF Uploaded, Scope
    <2>7. summary[v] = Len(ViewOf(Scope(filters), v))
      BY <2>1, <2>5, <2>6, SummaryCounts
    <2> QED
      BY <2>1, <2>4, <2>7 DEF Total, Scope
  <1> QED
    BY <1>1, PagesInvariant, PTL

(***************************************************************************)
(* Until the browser is offline for the first time, the pool never shows   *)
(* "no matching reviews" for a view that has some.                         *)
(***************************************************************************)
THEOREM NoFalseEmpty == Spec => []NoFalseEmptyOnline
  <1>1. PagesInv => NoFalseEmptyOnline
    <2> SUFFICES ASSUME PagesInv, ~cut, Shown # None,
                        Current \notin fetching \cup paused, Shown.items = <<>>
                 PROVE  Shown.total = 0
      BY DEF NoFalseEmptyOnline
    <2>1. Mounted /\ ~error /\ Shown = data /\ frame # None /\ Uploaded
      BY DEF Shown, Mounted, PagesInv
    <2>2. data = PageIn(frame, filters, view, offset)
      BY <2>1, PageOfKey DEF PagesInv, PoolInv, OnItsWay, Current
    <2> DEFINE n == Total(frame, filters, view)
    <2>3. n \in Nat /\ Page(data, view, offset, n) /\ offset \in Nat
      BY <2>1, <2>2, PageFacts DEF Uploaded
    <2>4. offset = 0 \/ offset < n
      BY <2>1 DEF PagesInv, Walked, OnPage
    <2> HIDE DEF n
    <2> QED
      BY <2>1, <2>3, <2>4 DEF Page
  <1> QED
    BY <1>1, PagesInvariant, PTL

(***************************************************************************)
(* Until the browser is offline, the next page begins with the review      *)
(* after the last of this one, and turning back returns to the page that   *)
(* ends before this one, or to the first of all, where the pool starts     *)
(* over: nothing is skipped.                                               *)
(***************************************************************************)
THEOREM NothingIsSkipped == Spec => NothingSkipped
  <1> DEFINE Move ==
        /\ ~cut /\ offset' > offset
             => offset' = offset + Len(PageOf(Current).items)
        /\ ~cut /\ offset' < offset /\ view' = view /\ filters' = filters
             => \/ view' = "all" /\ offset' = 0
                \/ offset = offset' + Len(PageOf(<<filters, view, offset'>>).items)
  <1>1. PagesInv /\ [Next]_vars => [Move]_vars
    <2> SUFFICES ASSUME PagesInv, Next, ~cut PROVE Move
      OBVIOUS
    <2>1. offset \in Nat
      BY DEF PagesInv, Uploaded
    <2>2. CASE NextPage
      <3>1. /\ offset' = offset + Len(PageOf(Current).items)
            /\ offset' \in Nat
        BY <2>2, NextOnPage DEF NextPage, Turn
      <3>2. Len(PageOf(Current).items) \in Nat
        BY <2>1, <2>2, <3>1, ClickedIsCurrent, ReviewDataAssumption
        DEF NextPage, Page
      <3>3. ~(offset' < offset)
        BY <2>1, <3>1, <3>2
      <3> QED
        BY <3>1, <3>3
    <2>3. CASE PreviousPage
      <3> DEFINE o == IF offset > PageSize THEN offset - PageSize ELSE 0
      <3>1. offset' = o /\ Clickable /\ offset # 0
        BY <2>3 DEF PreviousPage, Turn
      <3>2. o \in Nat /\ offset = o + Len(PageIn(frame, filters, view, o).items)
        BY <3>1, PreviousOnPage
      <3>3. o < offset
        BY <2>1, <3>1, ReviewDataAssumption
      <3>4. PageOf(<<filters, view, offset'>>) = PageIn(frame, filters, view, offset')
        BY PageOfKey
      <3> HIDE DEF o
      <3>5. ~(offset' > offset)
        BY <2>1, <3>1, <3>2, <3>3
      <3>6. offset = offset' + Len(PageOf(<<filters, view, offset'>>).items)
        BY <3>1, <3>2, <3>4
      <3> QED
        BY <3>5, <3>6
    <2>4. ASSUME NEW new \in File, Upload(new) PROVE Move
      BY <2>4 DEF Upload, Mount, PagesInv, Uploaded
    <2>5. ASSUME NEW f \in Filter, ApplyFilters(f) PROVE Move
      BY <2>1, <2>5 DEF ApplyFilters, Mount
    <2>6. ASSUME NEW v \in View, ChooseView(v) PROVE Move
      BY <2>1, <2>6 DEF ChooseView
    <2>7. CASE Answers \/ GoOffline
      <3>1. offset' = offset
        BY <2>7 DEF Answers, GoOffline, GoOnline, Arrives, Fails
      <3> QED
        BY <2>1, <3>1
    <2>8. CASE ReloadSummary
      BY <2>1, <2>8 DEF ReloadSummary, Mount
    <2> QED
      BY <2>2, <2>3, <2>4, <2>5, <2>6, <2>7, <2>8 DEF Next
  <1> QED
    BY <1>1, PagesInvariant, PTL DEF Spec, NothingSkipped
=============================================================================
