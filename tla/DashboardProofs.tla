-------------------------- MODULE DashboardProofs --------------------------
(* What the page shows and what it tells the agent, for every number of    *)
(* datasets, filters and clicks, and whichever datasets have equal reviews *)
EXTENDS Dashboard, TLAPS

USE DashboardAssumption

(***************************************************************************)
(* Whatever the page has, waits for, or will be given by a panel that is   *)
(* gone is about the dataset on the page.                                  *)
(***************************************************************************)
OfDataset ==
  /\ insight # None => insight[1] = dataset
  /\ own # None => own[1] = dataset
  /\ \A s \in Scope : orphans[s] > 0 => s[1] = dataset

\* A query is fetched only as long as there is no data of it, and its data is
\* kept while it is shown.
OneQuery ==
  /\ cached \cap fetching = {}
  /\ view = "ok" => Current \in cached

PageInv ==
  TypeOK /\ OneQuery /\ OfDataset /\ ChatIsOwn /\ AnswersFitTheirInsight

LEMMA Initially == Init => PageInv
  <1> SUFFICES ASSUME Init PROVE PageInv
    OBVIOUS
  <1>1. TypeOK
    <2>1. /\ orphans \in [Scope -> Nat]
          /\ clicks \in 0..MaxClicks
      BY DEF Init, NoRequests
    <2>2. view = "off" /\ dataset = None /\ own = None /\ asked = None
          /\ chat = {} /\ insight = None
      BY DEF Init
    <2> QED
      BY <2>1, <2>2 DEF Init, TypeOK
  <1>2. OneQuery /\ OfDataset /\ ChatIsOwn /\ AnswersFitTheirInsight
    BY DEF Init, OneQuery, OfDataset, ChatIsOwn, AnswersFitTheirInsight, NoRequests
  <1> QED
    BY <1>1, <1>2 DEF PageInv

LEMMA HereIsScope ==
  TypeOK /\ dataset # None => Here \in Scope /\ Here # None
  BY DEF TypeOK, Here, Scope

LEMMA KeysOf ==
  ASSUME NEW d \in Dataset, NEW f \in Filter, NEW i \in Scope \cup {None}
  PROVE  QueryKey(d, f, i) \in Key
  BY DEF QueryKey, Key

\* An insight that passes the comparison is that of the page.
LEMMA ShownIsHere == TypeOK /\ OfDataset => ShownInsightIsOwn
  BY DEF TypeOK, OfDataset, ShownInsightIsOwn, Shown, Mounted, Matches,
         Signature, Here, Scope

-----------------------------------------------------------------------------
(* The steps *)

\* A new instance of the page starts without anything.
LEMMA RemountStep ==
  ASSUME PageInv, dataset' \in Dataset \cup {None}, Remount(dataset'),
         stored' \in [Dataset -> {"new", "live", "gone"}],
         removing' \in BOOLEAN, clicks' \in 0..MaxClicks
  PROVE  PageInv'
  <1>1. view' = "loading" => Current' \in fetching'
    BY DEF Remount, Current
  <1>2. view' = "loading" => Current' \in Key
    BY KeysOf DEF Remount, Current
  <1>3. fetching' \subseteq Key
    BY KeysOf DEF Remount
  <1>4. TypeOK'
    BY <1>1, <1>3 DEF PageInv, TypeOK, Remount, Forget, NoRequests, Mounted, Scope
  <1>5. OneQuery' /\ OfDataset'
    BY DEF Remount, OneQuery, OfDataset, NoRequests
  <1>6. ChatIsOwn' /\ AnswersFitTheirInsight'
    BY DEF Remount, Forget, ChatIsOwn, AnswersFitTheirInsight
  <1> QED
    BY <1>4, <1>5, <1>6 DEF PageInv

\* Another query is shown, at once or after it was fetched.
LEMMA RenderStep ==
  ASSUME PageInv, dataset # None, UNCHANGED <<stored, dataset, cached, removing>>,
         filters' \in Filter, insight' \in Scope \cup {None},
         clicks' \in 0..MaxClicks,
         insight' # None => insight'[1] = dataset,
         NEW pending \in {own, None},
         Render(QueryKey(dataset, filters', insight'), pending)
  PROVE  PageInv'
  <1> DEFINE k == QueryKey(dataset, filters', insight')
  <1> USE DEF PageInv, TypeOK
  <1>1. k = Current' /\ k \in Key
    BY KeysOf DEF Current
  <1>2. CASE k = Current
    <2>1. UNCHANGED <<view, fetching, orphans, asked, chat>> /\ own' = pending
      BY <1>2 DEF Render, dialog
    <2>2. TypeOK'
      BY <1>1, <1>2, <2>1 DEF Mounted
    <2>3. OneQuery' /\ OfDataset' /\ ChatIsOwn' /\ AnswersFitTheirInsight'
      BY <1>1, <1>2, <2>1 DEF OneQuery, OfDataset, ChatIsOwn,
           AnswersFitTheirInsight
    <2> QED
      BY <2>2, <2>3
  <1>3. CASE k # Current /\ k \in cached
    <2>1. /\ UNCHANGED <<fetching, orphans, asked, chat>>
          /\ view' = "ok" /\ own' = pending
      BY <1>3 DEF Render, dialog
    <2>2. TypeOK'
      BY <1>1, <2>1 DEF Mounted
    <2>3. OneQuery' /\ OfDataset' /\ ChatIsOwn' /\ AnswersFitTheirInsight'
      BY <1>1, <1>3, <2>1 DEF OneQuery, OfDataset, ChatIsOwn,
           AnswersFitTheirInsight
    <2> QED
      BY <2>2, <2>3
  <1>4. CASE k # Current /\ k \notin cached
    <2>1. /\ view' = "loading" /\ fetching' = fetching \cup {k}
          /\ asked' = None /\ chat' = {} /\ own' = None
          /\ orphans' = IF pending = None THEN orphans
                        ELSE [orphans EXCEPT ![pending] = @ + 1]
      BY <1>4 DEF Render, Abandon, Forget
    <2>2. TypeOK'
      BY <1>1, <2>1 DEF Mounted
    <2>3. OneQuery' /\ OfDataset' /\ ChatIsOwn' /\ AnswersFitTheirInsight'
      BY <1>1, <1>4, <2>1 DEF OneQuery, OfDataset, ChatIsOwn,
           AnswersFitTheirInsight
    <2> QED
      BY <2>2, <2>3
  <1> QED
    BY <1>2, <1>3, <1>4

\* What is sent with a question is what can be used for its answer.
LEMMA ReplyStep ==
  ASSUME PageInv, AgentReplies
  PROVE  PageInv'
  <1> USE DEF PageInv, TypeOK
  <1>1. /\ asked \in Question /\ asked # None /\ asked' = None
        /\ UNCHANGED <<stored, dataset, filters, insight, view, cached, fetching,
                       own, orphans, removing, clicks>>
    BY DEF AgentReplies, queries
  <1>2. asked.scope[1] = dataset /\ asked.insight \in {None, asked.scope}
    BY <1>1 DEF ChatIsOwn
  <1>3. PICK m : /\ \/ chat' = chat
                    \/ chat' = chat \cup {m}
                 /\ m \in Message /\ m.question = asked
                 /\ m.used # None => Accepts(asked) /\ m.used = asked.insight
    <2> DEFINE plain == [question |-> asked, used |-> None]
               based == [question |-> asked, used |-> asked.insight]
    <2>1. plain \in Message /\ based \in Message
      BY <1>1 DEF Message, Question
    <2>2. \/ chat' = chat \/ chat' = chat \cup {plain}
          \/ Accepts(asked) /\ chat' = chat \cup {based}
      BY DEF AgentReplies
    <2>3. CASE chat' = chat \/ chat' = chat \cup {plain}
      BY <2>1, <2>3
    <2>4. CASE Accepts(asked) /\ chat' = chat \cup {based}
      BY <2>1, <2>4
    <2> QED
      BY <2>2, <2>3, <2>4
  <1>4. TypeOK'
    BY <1>1, <1>3 DEF Mounted, Current
  <1>5. ChatIsOwn'
    <2> SUFFICES ASSUME NEW n \in chat' PROVE n.question.scope[1] = dataset
                                              /\ n.question.insight \in {None, n.question.scope}
      BY <1>1 DEF ChatIsOwn
    <2>1. CASE n \in chat
      BY <2>1 DEF ChatIsOwn
    <2>2. CASE n = m
      BY <2>2, <1>2, <1>3
    <2> QED
      BY <1>3, <2>1, <2>2
  <1>6. AnswersFitTheirInsight'
    BY <1>2, <1>3 DEF AnswersFitTheirInsight, Accepts
  <1> QED
    BY <1>1, <1>4, <1>5, <1>6 DEF OneQuery, OfDataset, Current

\* The summary query and the agent's reply change no scope.
LEMMA ServerStep ==
  ASSUME PageInv,
         \/ \E d \in Dataset : Vanish(d)
         \/ \E k \in Key : SummaryArrives(k) \/ SummaryFails(k) \/ Collect(k)
         \/ InsightFails
         \/ AgentReplies
         \/ StartRemove
  PROVE  PageInv'
  <1> USE DEF PageInv, TypeOK, OneQuery, OfDataset, Mounted, Current, waiting,
              dialog, queries
  <1> USE DEF ChatIsOwn, AnswersFitTheirInsight
  <1>1. CASE \E d \in Dataset : Vanish(d)
    BY <1>1 DEF Vanish
  <1>2. CASE \E k \in Key : SummaryArrives(k)
    BY <1>2 DEF SummaryArrives, QueryKey, Key
  <1>3. CASE \E k \in Key : SummaryFails(k)
    BY <1>3 DEF SummaryFails, QueryKey, Key
  <1>4. CASE \E k \in Key : Collect(k)
    BY <1>4 DEF Collect
  <1>5. CASE InsightFails
    BY <1>5 DEF InsightFails
  <1>6. CASE AgentReplies
    BY <1>6, ReplyStep
  <1>7. CASE StartRemove
    BY <1>7 DEF StartRemove, Click
  <1> QED
    BY <1>1, <1>2, <1>3, <1>4, <1>5, <1>6, <1>7

\* An insight arrives after its panel has gone, and may take another panel
\* with it.
LEMMA LateStep ==
  ASSUME PageInv, NEW s \in Scope, LateInsight(s)
  PROVE  PageInv'
  <1> USE DEF PageInv, TypeOK
  <1> DEFINE k == QueryKey(dataset, filters, s)
  <1>1. s[1] = dataset /\ dataset \in Dataset
    BY DEF LateInsight, OfDataset, Scope
  <1>2. k = Current' /\ k \in Key
    BY <1>1, KeysOf DEF LateInsight, Current
  <1>3. CASE k \in cached \cup {Current}
    <2>1. /\ UNCHANGED <<fetching, own, asked, chat>>
          /\ view' = IF k = Current THEN view ELSE "ok"
          /\ orphans' = [orphans EXCEPT ![s] = @ - 1]
      BY <1>3 DEF LateInsight, dialog
    <2>2. TypeOK'
      BY <1>1, <1>2, <2>1 DEF LateInsight, Mounted
    <2>3. OneQuery' /\ OfDataset' /\ ChatIsOwn' /\ AnswersFitTheirInsight'
      BY <1>1, <1>2, <1>3, <2>1 DEF LateInsight, OneQuery, OfDataset, ChatIsOwn,
           AnswersFitTheirInsight
    <2> QED
      BY <2>2, <2>3
  <1>4. CASE k \notin cached \cup {Current}
    <2>1. /\ view' = "loading" /\ fetching' = fetching \cup {k}
          /\ own' = None /\ asked' = None /\ chat' = {}
          /\ orphans' = LET left == [orphans EXCEPT ![s] = @ - 1]
                       IN  IF own = None THEN left
                           ELSE [left EXCEPT ![own] = @ + 1]
      BY <1>4 DEF LateInsight, Forget
    <2>2. orphans' \in [Scope -> Nat]
      BY <2>1 DEF LateInsight
    <2>3. TypeOK'
      BY <1>1, <1>2, <2>1, <2>2 DEF LateInsight, Mounted
    <2>4. OneQuery' /\ OfDataset' /\ ChatIsOwn' /\ AnswersFitTheirInsight'
      BY <1>1, <1>2, <1>4, <2>1 DEF LateInsight, OneQuery, OfDataset, ChatIsOwn,
           AnswersFitTheirInsight
    <2> QED
      BY <2>3, <2>4
  <1> QED
    BY <1>3, <1>4

\* What the page shows of it is all that the agent gets of an insight.
LEMMA AskStep ==
  ASSUME PageInv, NEW full \in BOOLEAN, Ask(full)
  PROVE  PageInv'
  <1> USE DEF PageInv, TypeOK
  <1>1. Here \in Scope /\ Here[1] = dataset
    BY HereIsScope DEF Ask, Mounted, Here
  <1>2. GivenInsight \in {None, Here}
    BY ShownIsHere DEF GivenInsight, ShownInsightIsOwn
  <1>3. TypeOK'
    BY <1>1, <1>2 DEF Ask, Click, Question, Mounted, Current, queries
  <1>4. OneQuery' /\ OfDataset' /\ ChatIsOwn' /\ AnswersFitTheirInsight'
    BY <1>1, <1>2
    DEF Ask, OneQuery, OfDataset, ChatIsOwn, AnswersFitTheirInsight, Question,
        Current, queries
  <1> QED
    BY <1>3, <1>4

LEMMA GenerateStep ==
  PageInv /\ Generate => PageInv'
  <1> SUFFICES ASSUME PageInv, Generate PROVE PageInv'
    OBVIOUS
  <1> QED
    BY HereIsScope
    DEF PageInv, TypeOK, OneQuery, OfDataset, ChatIsOwn, AnswersFitTheirInsight,
        Generate, Click, Mounted, Here, Current, queries, dialog

-----------------------------------------------------------------------------

LEMMA Inductive == PageInv /\ [Next]_vars => PageInv'
  <1> SUFFICES ASSUME PageInv, [Next]_vars PROVE PageInv'
    OBVIOUS
  <1> USE DEF PageInv, TypeOK
  <1>1. ASSUME NEW d \in Dataset, Upload(d) PROVE PageInv'
    <2>1. stored' \in [Dataset -> {"new", "live", "gone"}]
      BY <1>1 DEF Upload
    <2>2. dataset' \in Dataset \cup {None} /\ Remount(dataset')
      BY <1>1 DEF Upload
    <2>3. removing' \in BOOLEAN /\ clicks' \in 0..MaxClicks
      BY <1>1 DEF Upload, Click
    <2> HIDE DEF PageInv, TypeOK
    <2> QED
      BY <2>1, <2>2, <2>3, RemountStep
  <1>2. CASE Reload
    <2>1. /\ dataset' \in Dataset \cup {None}
          /\ stored' \in [Dataset -> {"new", "live", "gone"}]
          /\ removing' \in BOOLEAN
      BY <1>2 DEF Reload
    <2>2. Remount(dataset')
      BY <1>2 DEF Reload
    <2>3. clicks' \in 0..MaxClicks
      BY <1>2 DEF Reload, Click
    <2> HIDE DEF PageInv, TypeOK
    <2> QED
      BY <2>1, <2>2, <2>3, RemountStep
  <1>3. CASE RemoveSettles
    BY <1>3, RemountStep DEF RemoveSettles
  <1>4. CASE \E f \in Filter : ApplyFilters(f)
    BY <1>4, RenderStep DEF ApplyFilters, Click
  <1>5. CASE OwnInsight
    BY <1>5, RenderStep DEF OwnInsight, OfDataset, Mounted
  <1>6. CASE DropForeign
    BY <1>6, RenderStep DEF DropForeign, Mounted
  <1>7. CASE Generate
    BY <1>7, GenerateStep
  <1>8. CASE \E full \in BOOLEAN : Ask(full)
    BY <1>8, AskStep
  <1>9. CASE \E s \in Scope : LateInsight(s)
    BY <1>9, LateStep
  <1>10. CASE UNCHANGED vars
    BY <1>10
    DEF vars, OneQuery, OfDataset, ChatIsOwn, AnswersFitTheirInsight, Mounted,
        Current
  <1> QED
    BY <1>1, <1>2, <1>3, <1>4, <1>5, <1>6, <1>7, <1>8, <1>9, <1>10, ServerStep
    DEF Next, Answers

(***************************************************************************)
(* A panel waits only while it is part of the page, and what it waits for, *)
(* like what panels that are gone have left, is about the page's dataset.  *)
(***************************************************************************)
THEOREM PageInvariant == Spec => []PageInv
  BY Initially, Inductive, PTL DEF Spec

(***************************************************************************)
(* The insight on the page is of the dataset and the filters on the page,  *)
(* however late answers are and however equal the reviews of two datasets. *)
(***************************************************************************)
THEOREM ShownInsightStaysOwn == Spec => []ShownInsightIsOwn
  <1>1. PageInv => ShownInsightIsOwn
    BY ShownIsHere DEF PageInv
  <1> QED
    BY <1>1, PageInvariant, PTL

(***************************************************************************)
(* The chat is about the dataset on the page, and an insight id went out   *)
(* only with the dataset and the filters it was generated for.             *)
(***************************************************************************)
THEOREM ChatStaysOwn == Spec => []ChatIsOwn
  <1>1. PageInv => ChatIsOwn
    BY DEF PageInv
  <1> QED
    BY <1>1, PageInvariant, PTL

(***************************************************************************)
(* No answer rests on an insight about other reviews, whatever the panel   *)
(* sent with the question, over both kinds of storage.                     *)
(***************************************************************************)
THEOREM AnswersStayFitting == Spec => []AnswersFitTheirInsight
  <1>1. PageInv => AnswersFitTheirInsight
    BY DEF PageInv
  <1> QED
    BY <1>1, PageInvariant, PTL

(***************************************************************************)
(* With in-memory stores the effect that drops foreign insights leaves the *)
(* page its own.                                                           *)
(***************************************************************************)
THEOREM OwnInsightStays ==
  ASSUME Storage = "memory"
  PROVE  Spec => InsightStays
  <1>1. ASSUME PageInv, [Next]_vars, insight = Here, insight' = None,
               clicks' = clicks, dataset' = dataset
        PROVE  FALSE
    <2> USE DEF PageInv, TypeOK
    <2>1. dataset # None
      BY <1>1 DEF Here, Scope
    <2>2. insight # None
      BY <1>1, <2>1, HereIsScope
    <2>3. ~Click
      BY <1>1 DEF Click
    <2>4. ~RemoveSettles
      BY <1>1, <2>1 DEF RemoveSettles
    <2>5. ~DropForeign
      BY <1>1 DEF DropForeign, Matches, Signature, Here
    <2>6. \/ OwnInsight \/ \E s \in Scope : LateInsight(s)
          \/ insight' = insight
      BY <1>1, <2>3, <2>4, <2>5
      DEF Next, vars, Answers, Upload, Vanish, ApplyFilters, Generate, Ask,
          StartRemove, Reload, Collect, SummaryArrives, SummaryFails,
          InsightFails, AgentReplies
    <2> QED
      BY <1>1, <2>2, <2>6 DEF OwnInsight, LateInsight, Scope
  <1>2. PageInv /\ [Next]_vars =>
          (insight = Here /\ insight' = None => clicks' # clicks \/ dataset' # dataset)
    BY <1>1
  <1> QED
    BY <1>2, PageInvariant, PTL DEF Spec, InsightStays
=============================================================================
