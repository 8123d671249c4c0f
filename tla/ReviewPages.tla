---------------------------- MODULE ReviewPages ----------------------------
(***************************************************************************)
(* The review pool of the web page: it walks through the pages of a view   *)
(* of the filtered reviews, with keepPreviousData, while answers come late *)
(* or not at all and the browser may be offline.  New filters, and another *)
(* insight, remount the pool, once the page has the summary (Dashboard     *)
(* models how it comes).                                                   *)
(***************************************************************************)
EXTENDS ReviewData

CONSTANTS
  File,          \* the files a user may upload: sequences of rows
  Filter, DefaultFilter,
  Criteria,      \* Criteria[f]: what the filters f ask for
  MaxClicks      \* bound on what the user and the network do

ASSUME ReviewPagesAssumption ==
  /\ DefaultFilter \in Filter /\ MaxClicks \in Nat
  /\ \A file \in File : Len(file) \in Nat /\ Stored(file) # None

VARIABLES
  frame,     \* the reviews of the dataset
  stats,     \* what the upload answered
  filters, summary,
  view, offset,
  data,      \* the last page that arrived for a key of this pool
  error,     \* the query of the current key failed and has no data
  cached,    \* keys with data
  fetching,  \* keys being fetched
  paused,    \* keys whose fetch waits for the network
  online,
  cut,       \* history: the browser has been offline
  clicks

vars == <<frame, stats, filters, summary, view, offset, data, error, cached,
          fetching, paused, online, cut, clicks>>
network == <<online, cut>>
dataset == <<frame, stats>>

Key == Filter \X View \X Nat
Current == <<filters, view, offset>>

Scope(f) == FilterReviews(frame, Criteria[f])
PageOf(k) ==
  LET page(scope) == Search(scope, k[2], k[3])
  IN  Once(Scope(k[1]), page)

\* The pool is on the page only beside a summary.
Mounted == frame # None /\ summary # None

\* query.data: the last page stands in while the first fetch is pending.
Shown == IF Mounted /\ ~error THEN data ELSE None

Busy == Current \in fetching

\* Both buttons are those of a page with reviews, and disabled while fetching.
Clickable == Shown # None /\ ~Busy /\ Shown.items # <<>>

Init ==
  /\ frame = None /\ stats = None
  /\ filters = DefaultFilter /\ summary = None
  /\ view = "all" /\ offset = 0 /\ data = None /\ error = FALSE
  /\ cached = {} /\ fetching = {} /\ paused = {}
  /\ online = TRUE /\ cut = FALSE /\ clicks = 0

-----------------------------------------------------------------------------
(* Rendering *)

Click == clicks < MaxClicks /\ clicks' = clicks + 1

\* A key is fetched once at a time; without network its fetch waits.
Fetch(k) ==
  IF k \in fetching \cup paused THEN UNCHANGED <<fetching, paused>>
  ELSE IF online THEN fetching' = fetching \cup {k} /\ UNCHANGED paused
  ELSE paused' = paused \cup {k} /\ UNCHANGED fetching

\* Mutant: the last page is initial data, for which nothing is fetched.
Render_InitialData(k, previous) ==
  /\ error' = FALSE
  /\ IF k \in cached
       THEN /\ data' = PageOf(k)
            /\ Fetch(k) \/ UNCHANGED <<fetching, paused>>
       ELSE /\ data' = previous
            /\ IF previous # None THEN UNCHANGED <<fetching, paused>>
               ELSE Fetch(k)

(***************************************************************************)
(* The query of key k is rendered after the last page was previous.  Data  *)
(* that is cached is fetched again when it is older than staleTime.        *)
(***************************************************************************)
Render(k, previous) ==
  /\ error' = FALSE
  /\ IF k \in cached
       THEN /\ data' = PageOf(k)
            /\ Fetch(k) \/ UNCHANGED <<fetching, paused>>
       ELSE data' = previous /\ Fetch(k)

\* <ReviewPool key={filters}>
Mount(f) ==
  /\ filters' = f
  /\ summary' = Summary(Scope(f))'
  /\ view' = "all" /\ offset' = 0
  /\ IF summary' # None THEN Render(<<f, "all", 0>>, None)
     ELSE data' = None /\ error' = FALSE /\ UNCHANGED <<fetching, paused>>

-----------------------------------------------------------------------------
(* The user *)

Upload(new) ==
  /\ frame = None
  /\ frame' = Stored(new) /\ stats' = Stats(new)
  /\ Mount(DefaultFilter)
  /\ UNCHANGED <<cached, network, clicks>>

\* The summary of the filters is taken to come at once.
ApplyFilters(f) ==
  /\ Click
  /\ frame # None /\ f # filters /\ online
  /\ UNCHANGED dataset
  /\ Mount(f)
  /\ UNCHANGED <<cached, network>>

\* The page gets or drops an insight, which makes another summary query: the
\* pool leaves the page until that answers, and starts anew.
ReloadSummary ==
  /\ Click
  /\ Mounted /\ online
  /\ UNCHANGED dataset
  /\ Mount(filters)
  /\ UNCHANGED <<cached, network>>

\* Mutant: a new view starts where the old one was.
ChooseView_KeepsOffset(v) ==
  /\ Click
  /\ Mounted /\ v # view
  /\ view' = v
  /\ Render(<<filters, v, offset>>, data)
  /\ UNCHANGED <<dataset, filters, summary, offset, cached, network>>

ChooseView(v) ==
  /\ Click
  /\ Mounted /\ v # view
  /\ view' = v /\ offset' = 0
  /\ Render(<<filters, v, 0>>, data)
  /\ UNCHANGED <<dataset, filters, summary, cached, network>>

Turn(o) ==
  /\ Click
  /\ offset' = o
  /\ Render(<<filters, view, o>>, data)
  /\ UNCHANGED <<dataset, filters, summary, view, cached, network>>

PreviousPage ==
  /\ Clickable /\ offset # 0
  /\ Turn(IF offset > PageSize THEN offset - PageSize ELSE 0)

\* Mutant: a click is taken while the page is fetched.
NextPage_Impatient ==
  /\ Shown # None /\ Shown.items # <<>> /\ Shown.next # None
  /\ Turn(Shown.next)

NextPage ==
  /\ Clickable /\ Shown.next # None
  /\ Turn(Shown.next)

-----------------------------------------------------------------------------
(* The server and the network *)

\* Mutant: whatever arrives is shown.
Arrives_AnyKey(k) ==
  /\ k \in fetching /\ PageOf(k) # None
  /\ fetching' = fetching \ {k} /\ cached' = cached \cup {k}
  /\ Mounted /\ data' = PageOf(k) /\ error' = FALSE
  /\ UNCHANGED <<dataset, filters, summary, view, offset, paused, network,
                 clicks>>

Arrives(k) ==
  /\ k \in fetching /\ PageOf(k) # None
  /\ fetching' = fetching \ {k} /\ cached' = cached \cup {k}
  /\ IF Mounted /\ k = Current THEN data' = PageOf(k) /\ error' = FALSE
     ELSE UNCHANGED <<data, error>>
  /\ UNCHANGED <<dataset, filters, summary, view, offset, paused, network,
                 clicks>>

\* An exception in the search, or no answer, also to the retry.
Fails(k) ==
  /\ k \in fetching
  /\ fetching' = fetching \ {k}
  /\ \/ /\ error' = (error \/ (Mounted /\ k = Current /\ k \notin cached))
        /\ UNCHANGED paused
     \/ ~online /\ paused' = paused \cup {k} /\ UNCHANGED error
  /\ UNCHANGED <<dataset, filters, summary, view, offset, data, cached,
                 network, clicks>>

\* Also bounded by MaxClicks.
GoOffline ==
  /\ Click
  /\ online
  /\ online' = FALSE /\ cut' = TRUE
  /\ UNCHANGED <<dataset, filters, summary, view, offset, data, error, cached,
                 fetching, paused>>

GoOnline ==
  /\ ~online
  /\ online' = TRUE
  /\ fetching' = fetching \cup paused /\ paused' = {}
  /\ UNCHANGED <<dataset, filters, summary, view, offset, data, error, cached,
                 cut, clicks>>

Answers == GoOnline \/ \E k \in fetching : Arrives(k) \/ Fails(k)

Next ==
  \/ \E new \in File : Upload(new)
  \/ \E f \in Filter : ApplyFilters(f)
  \/ \E v \in View : ChooseView(v)
  \/ ReloadSummary \/ PreviousPage \/ NextPage
  \/ Answers \/ GoOffline

\* Every request is answered or given up, and the network comes back.
Spec == Init /\ [][Next]_vars /\ WF_vars(Answers)

-----------------------------------------------------------------------------
(* Properties *)

(***************************************************************************)
(* Every row that an upload drops is explained by a reason it reports, and *)
(* it reports no reason for more rows than it drops.                       *)
(***************************************************************************)
RemovedRowsHaveReasons ==
  stats # None =>
    /\ stats.removed <= stats.invalidRating + stats.emptyContent
    /\ stats.invalidRating <= stats.removed /\ stats.emptyContent <= stats.removed

\* The pool counts as many reviews in a view as the summary beside it.
PoolAgreesWithSummary ==
  Shown # None => Shown.total = summary[Shown.view]

(***************************************************************************)
(* The page has the summary that the pool stands beside, and the pool with *)
(* it, but for two failures of the code: where the filters keep none of    *)
(* the reviews, which Dashboard has a notice for, and for reviews with a   *)
(* version that pandas read as a number.                                   *)
(***************************************************************************)
SummaryIsGiven ==
  frame # None /\ summary = None =>
    LET rows == Scope(filters).rows
        numbered(r) == r.version # None /\ r.version.type = "number"
    IN  rows = <<>> \/ \E i \in DOMAIN rows : numbered(rows[i])

\* At rest the pool shows the page of its filters, view and offset.
ShownIsOwn ==
  Shown # None /\ Current \notin fetching \cup paused => Shown = PageOf(Current)

(***************************************************************************)
(* Until the browser is offline for the first time, "previous and next     *)
(* follow next_offset", which is reset with the view: the pool never shows *)
(* "no matching reviews" for a view that has some (a page that has no      *)
(* buttons, so that nothing says that there are reviews).                  *)
(***************************************************************************)
NoFalseEmptyOnline ==
  ~cut /\ Shown # None /\ Current \notin fetching \cup paused
       /\ Shown.items = <<>> => Shown.total = 0

(***************************************************************************)
(* A later page begins with the review after the last of the page before,  *)
(* and turning back returns to a page that was passed, until the browser   *)
(* is offline; unless the pool starts over, with the first page of all.    *)
(***************************************************************************)
NothingSkipped ==
  [][/\ ~cut /\ offset' > offset
          => offset' = offset + Len(PageOf(Current).items)
     /\ ~cut /\ offset' < offset /\ view' = view /\ filters' = filters
          => \/ view' = "all" /\ offset' = 0
             \/ offset = offset' + Len(PageOf(<<filters, view, offset'>>).items)]_vars

\* The pool comes to rest on a page or an error.
PoolSettles == <>[](Mounted => error \/ Shown = PageOf(Current))
=============================================================================
