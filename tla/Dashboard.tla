----------------------------- MODULE Dashboard -----------------------------
(***************************************************************************)
(* The web page: App, Dashboard, AIInsightPanel and AgentPanel with        *)
(* TanStack Query.  The user uploads a dataset, applies filters, has an    *)
(* insight generated, asks the agent and removes the dataset; answers of   *)
(* the server arrive in any order, may fail, and may be for something the  *)
(* page no longer shows.                                                   *)
(*                                                                         *)
(* A summary request that fails is one whose retry failed as well.  The    *)
(* draft of the filters, the charts and the review pool are left out.      *)
(***************************************************************************)
EXTENDS Naturals

CONSTANTS
  Dataset, Filter,
  DefaultFilter,
  Content,     \* Content[d]: the reviews in d
  Whole,       \* scopes with every review of their dataset
  Storage,     \* settings.storage_backend of the server
  MaxClicks,   \* bound on what the user does
  None

ASSUME DashboardAssumption ==
  /\ DefaultFilter \in Filter
  /\ Whole \subseteq Dataset \X Filter
  /\ Storage \in {"memory", "database"}
  /\ MaxClicks \in Nat
  /\ None \notin Dataset /\ None \notin (Dataset \cup {None}) \X Filter

VARIABLES
  stored,    \* stored[d] \in {"new", "live", "gone"}: d on the server
  dataset,   \* the dataset of the session
  filters,   \* the filters that were applied
  insight,   \* the insight of the page: the scope it was generated for
  view,      \* state of the summary query that is shown
  cached,    \* query keys with data
  fetching,  \* query keys being fetched
  own,       \* scope of the request the insight panel waits for
  orphans,   \* orphans[s]: requests of insight panels that are gone
  asked,     \* what the agent panel waits for: an element of Question
  chat,      \* the messages in the panel: elements of Message
  removing,  \* DELETE is under way
  clicks

vars == <<stored, dataset, filters, insight, view, cached, fetching, own,
          orphans, asked, chat, removing, clicks>>
queries == <<cached, fetching>>
dialog == <<asked, chat>>
waiting == <<own, orphans, dialog>>

Scope == Dataset \X Filter
Key == Dataset \X Filter \X (Scope \cup {None})

\* A question goes out with dataset_id, filters, the panel's choice between
\* filtered and full data and, if the page shows one, insight_id.
Question == [scope : Scope, full : BOOLEAN, insight : Scope \cup {None}]

\* A message: its question, and the insight the answer was given with.
Message == [question : Question, used : Scope \cup {None}]

QueryKey(d, f, i) == <<d, f, i>>
Current == QueryKey(dataset, filters, insight)
Here == <<dataset, filters>>

\* The panel is part of the page only with the data of a summary.
Mounted == dataset # None /\ view = "ok"

\* Rows of the database come back without their content hash, and then each
\* service takes a hash function of its own (Digest of SummaryCache).
Signature(service, s) ==
  <<IF Storage = "memory" THEN "content_hash" ELSE service, Content[s[1]], s[2]>>

\* The comparison of panel and page: insight against summary signature.
Matches == Signature("insight", insight) = Signature("summary", Here)

\* Mutant: the panel shows whatever insight the page has.
Shown_Any == Mounted /\ insight # None

Shown == Mounted /\ insight # None /\ Matches

\* The variables have their types; a panel waits for an answer only while it
\* is part of the page, and the page loads only what is being fetched.
TypeOK ==
  /\ stored \in [Dataset -> {"new", "live", "gone"}]
  /\ dataset \in Dataset \cup {None}
  /\ filters \in Filter
  /\ insight \in Scope \cup {None}
  /\ view \in {"off", "loading", "ok", "error"}
  /\ view = "off" <=> dataset = None
  /\ cached \subseteq Key /\ fetching \subseteq Key
  /\ view = "loading" => Current \in fetching
  /\ own \in Scope \cup {None} /\ (own # None => Mounted)
  /\ orphans \in [Scope -> Nat]
  /\ asked \in Question \cup {None} /\ chat \subseteq Message
  /\ asked # None \/ chat # {} => Mounted
  /\ removing \in BOOLEAN
  /\ clicks \in 0..MaxClicks

NoRequests == [s \in Scope |-> 0]

Init ==
  /\ stored = [d \in Dataset |-> "new"]
  /\ dataset = None /\ filters = DefaultFilter /\ insight = None
  /\ view = "off" /\ cached = {} /\ fetching = {}
  /\ own = None /\ orphans = NoRequests
  /\ asked = None /\ chat = {}
  /\ removing = FALSE /\ clicks = 0

-----------------------------------------------------------------------------
(* Rendering *)

Click == clicks < MaxClicks /\ clicks' = clicks + 1

\* The messages are state of the panel: they go with it, and so does what
\* the answer to its question would have been.
Forget == asked' = None /\ chat' = {}

\* A panel that leaves the page leaves its request behind.
Abandon(pending) ==
  /\ Forget
  /\ own' = None
  /\ orphans' = IF pending = None THEN orphans
                ELSE [orphans EXCEPT ![pending] = @ + 1]

(***************************************************************************)
(* The page shows the query of key k, of which it has the data already or  *)
(* which it fetches; pending is what the panel waits for until then.       *)
(***************************************************************************)
Render(k, pending) ==
  IF k = Current
    THEN own' = pending /\ UNCHANGED <<view, fetching, orphans, dialog>>
  ELSE IF k \in cached
    THEN /\ view' = "ok" /\ own' = pending
         /\ UNCHANGED <<fetching, orphans, dialog>>
  ELSE /\ view' = "loading"
       /\ fetching' = fetching \cup {k}
       /\ Abandon(pending)

(***************************************************************************)
(* <Dashboard key={datasetId}>: another dataset is another instance, with  *)
(* fresh state, that no answer to an earlier one reaches.  The query cache *)
(* was cleared with the dataset before, or is that of a new page.          *)
(***************************************************************************)
Remount(d) ==
  /\ filters' = DefaultFilter /\ insight' = None
  /\ view' = IF d = None THEN "off" ELSE "loading"
  /\ fetching' = IF d = None THEN {} ELSE {QueryKey(d, DefaultFilter, None)}
  /\ cached' = {}
  /\ own' = None /\ orphans' = NoRequests
  /\ Forget

-----------------------------------------------------------------------------
(* The user *)

\* DatasetUpload, offered when there is no dataset; a failure changes nothing.
Upload(d) ==
  /\ Click
  /\ dataset = None /\ stored[d] = "new"
  /\ stored' = [stored EXCEPT ![d] = "live"]
  /\ dataset' = d
  /\ Remount(d)
  /\ UNCHANGED removing

ApplyFilters(f) ==
  /\ Click
  /\ dataset # None
  /\ filters' = f
  /\ insight' = None
  /\ Render(QueryKey(dataset, f, None), own)
  /\ UNCHANGED <<stored, dataset, cached, removing>>

\* The button is disabled while the panel's own request is pending.
Generate ==
  /\ Click
  /\ Mounted /\ own = None
  /\ own' = Here
  /\ UNCHANGED <<stored, dataset, filters, insight, view, queries, orphans,
                 dialog, removing>>

\* Mutant: the agent is given any insight the page has.
GivenInsight_Any == insight

\* The insight counts for the agent as it does for the insight panel.
GivenInsight == IF Shown THEN insight ELSE None

\* One question at a time.  Filters and insight go along with a question
\* about the full data as well.
Ask(full) ==
  /\ Click
  /\ Mounted /\ asked = None
  /\ asked' = [scope |-> Here, full |-> full, insight |-> GivenInsight]
  /\ UNCHANGED <<stored, dataset, filters, insight, view, queries, own, orphans,
                 chat, removing>>

StartRemove ==
  /\ Click
  /\ dataset # None /\ ~removing
  /\ removing' = TRUE
  /\ UNCHANGED <<stored, dataset, filters, insight, view, queries, waiting>>

\* A new page of the same session: restoreDataset.
Reload ==
  /\ Click
  /\ Remount(dataset)
  /\ removing' = FALSE
  /\ UNCHANGED <<stored, dataset>>

-----------------------------------------------------------------------------
(* The server *)

\* The dataset expires, or the deletion is carried out.
Vanish(d) ==
  /\ stored[d] = "live"
  /\ stored' = [stored EXCEPT ![d] = "gone"]
  /\ UNCHANGED <<dataset, filters, insight, view, queries, waiting, removing,
                 clicks>>

SummaryArrives(k) ==
  /\ k \in fetching
  /\ fetching' = fetching \ {k}
  /\ cached' = cached \cup {k}
  /\ view' = IF k = Current THEN "ok" ELSE view
  /\ UNCHANGED <<stored, dataset, filters, insight, waiting, removing, clicks>>

\* An error, or the 404 of a dataset that is gone.
SummaryFails(k) ==
  /\ k \in fetching
  /\ fetching' = fetching \ {k}
  /\ view' = IF k = Current THEN "error" ELSE view
  /\ UNCHANGED <<stored, dataset, filters, insight, cached, waiting, removing,
                 clicks>>

\* Data nobody looks at is dropped after a while.
Collect(k) ==
  /\ k \in cached /\ k # Current
  /\ cached' = cached \ {k}
  /\ UNCHANGED <<stored, dataset, filters, insight, view, fetching, waiting,
                 removing, clicks>>

\* onSuccess: onInsight, also that of a panel that is gone.
OwnInsight ==
  /\ own # None
  /\ insight' = own
  /\ Render(QueryKey(dataset, filters, own), None)
  /\ UNCHANGED <<stored, dataset, filters, cached, removing, clicks>>

LateInsight(s) ==
  /\ orphans[s] > 0
  /\ insight' = s
  /\ LET k == QueryKey(dataset, filters, s)
         left == [orphans EXCEPT ![s] = @ - 1]
     IN  \/ /\ k \in cached \cup {Current}
            /\ view' = IF k = Current THEN view ELSE "ok"
            /\ orphans' = left
            /\ UNCHANGED <<fetching, own, dialog>>
         \/ /\ k \notin cached \cup {Current}
            /\ view' = "loading"
            /\ fetching' = fetching \cup {k}
            /\ own' = None /\ Forget
            /\ orphans' = IF own = None THEN left
                          ELSE [left EXCEPT ![own] = @ + 1]
  /\ UNCHANGED <<stored, dataset, filters, cached, removing, clicks>>

\* A failed or timed out request; the server may have done the work.
InsightFails ==
  /\ \/ own # None /\ own' = None /\ UNCHANGED orphans
     \/ \E s \in Scope :
          /\ orphans[s] > 0
          /\ orphans' = [orphans EXCEPT ![s] = @ - 1]
          /\ UNCHANGED own
  /\ UNCHANGED <<stored, dataset, filters, insight, view, queries, dialog,
                 removing, clicks>>

\* Mutant: resolve does not compare the number of reviews.
Accepts_AnySize(q) ==
  /\ q.insight # None
  /\ q.insight[1] = q.scope[1]
  /\ Signature("insight", q.insight) = Signature("summary", q.scope)

(***************************************************************************)
(* resolve for AgentService.query: dataset, signature and number of        *)
(* reviews.  The signature is that of the filters for the full data too,   *)
(* of which there are as many reviews only if the filters drop none.       *)
(***************************************************************************)
Accepts(q) ==
  /\ q.insight # None
  /\ q.insight[1] = q.scope[1]
  /\ Signature("insight", q.insight) = Signature("summary", q.scope)
  /\ q.full => q.scope \in Whole

\* onSuccess adds a message, an error none.  An insight may have expired.
AgentReplies ==
  /\ asked # None
  /\ asked' = None
  /\ \/ UNCHANGED chat
     \/ chat' = chat \cup {[question |-> asked, used |-> None]}
     \/ /\ Accepts(asked)
        /\ chat' = chat \cup {[question |-> asked, used |-> asked.insight]}
  /\ UNCHANGED <<stored, dataset, filters, insight, view, queries, own, orphans,
                 removing, clicks>>

\* Mutant: the effect moves to the page, which has no signature to compare
\* with while the summary loads.
DropForeign_Unloaded ==
  /\ insight # None /\ ~(Mounted /\ Matches)
  /\ insight' = None
  /\ Render(QueryKey(dataset, filters, None), own)
  /\ UNCHANGED <<stored, dataset, filters, cached, removing, clicks>>

\* Mutant: the panel has no effect.
DropForeign_Never == FALSE /\ UNCHANGED vars

\* The panel's effect.
DropForeign ==
  /\ Mounted /\ insight # None /\ ~Matches
  /\ insight' = None
  /\ Render(QueryKey(dataset, filters, None), own)
  /\ UNCHANGED <<stored, dataset, filters, cached, removing, clicks>>

\* onSettled: also when DELETE failed.
RemoveSettles ==
  /\ removing
  /\ removing' = FALSE
  /\ dataset' = None
  /\ Remount(None)
  /\ UNCHANGED <<stored, clicks>>

Answers ==
  \/ \E k \in Key : SummaryArrives(k) \/ SummaryFails(k)
  \/ \E s \in Scope : LateInsight(s)
  \/ OwnInsight \/ InsightFails \/ AgentReplies \/ RemoveSettles

Next ==
  \/ \E d \in Dataset : Upload(d) \/ Vanish(d)
  \/ \E f \in Filter : ApplyFilters(f)
  \/ Generate \/ StartRemove \/ Reload
  \/ \E full \in BOOLEAN : Ask(full)
  \/ \E k \in Key : Collect(k)
  \/ Answers \/ DropForeign

\* Every request is answered, fails or is aborted; React runs its effects.
Spec == Init /\ [][Next]_vars /\ WF_vars(Answers) /\ WF_vars(DropForeign)

-----------------------------------------------------------------------------
(* Properties *)

(***************************************************************************)
(* The insight on the page, and the insight id the agent is given, are of  *)
(* the dataset and the filters on the page, though an earlier dataset may  *)
(* have had the same reviews, and an earlier filter's answer may be late.  *)
(***************************************************************************)
ShownInsightIsOwn == Shown => insight = Here

(***************************************************************************)
(* The chat is about the dataset on the page, though it outlives changes   *)
(* of the filters, and the insight id sent with a question was that of the *)
(* dataset and the filters sent with it.                                   *)
(***************************************************************************)
ChatIsOwn ==
  \A q \in {m.question : m \in chat} \cup ({asked} \ {None}) :
    q.scope[1] = dataset /\ q.insight \in {None, q.scope}

(***************************************************************************)
(* No answer rests on an insight about other reviews than its own: the     *)
(* panel sends the insight of the filters even with a question about the   *)
(* full data, whose signature does not tell it from one about the filtered *)
(* data.                                                                   *)
(***************************************************************************)
AnswersFitTheirInsight ==
  \A m \in chat :
    m.used # None =>
      /\ m.used = m.question.scope
      /\ m.question.full => m.used \in Whole

(***************************************************************************)
(* When the user rests, the page comes to rest: it shows the summary of    *)
(* its filters, without an insight or with its own, or an error.           *)
(***************************************************************************)
PageSettles ==
  <>[](\/ view \in {"off", "error"}
       \/ view = "ok" /\ insight \in {None, Here})

(***************************************************************************)
(* "The result is bound to the dataset and the scope signature"            *)
(* (AIInsightPanel): the effect that drops the insight of another scope    *)
(* never drops the one of this scope, only the user ends it, or another    *)
(* answer replaces it.  It is so with in-memory stores; with the database  *)
(* insight and summary of one scope have different signatures.             *)
(***************************************************************************)
InsightStays ==
  [][insight = Here /\ insight' = None
       => clicks' # clicks \/ dataset' # dataset]_vars
=============================================================================
