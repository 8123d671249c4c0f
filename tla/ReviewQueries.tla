---------------------------- MODULE ReviewQueries ----------------------------
(***************************************************************************)
(* The services over one dataset: summaries, the tools and the workflows   *)
(* of the agent, and the generation of insights, each asked about the      *)
(* reviews of a scope that a signature stands for.  All the answers of a   *)
(* session are kept, to see whether they say the same of the same reviews. *)
(***************************************************************************)
EXTENDS ReviewAnalysis

CONSTANTS
  File, Filter,  \* what may be uploaded; filters as they are requested
  Reply,         \* replies of the model to a packet
  ToolCall,      \* calls [tool, top, versions, type, category]
  MaxAnswers, MaxInsights  \* bounds on the answers of a session

ToolName ==
  {"get_review_metrics", "analyze_negative_reviews", "analyze_positive_reviews",
   "find_high_risk_reviews", "compare_versions", "analyze_sentiment_trend",
   "calculate_issue_priority", "retrieve_representative_reviews",
   "report_generation"}

ASSUME ReviewQueriesAssumption ==
  /\ MaxAnswers \in Nat /\ MaxInsights \in Nat
  /\ \A file \in File :
       /\ Len(file) \in Nat
       /\ \A i \in 1..Len(file) : /\ IsFiniteSet(file[i].content)
                                 /\ file[i].sentiment \in {None} \cup (0..100)
  /\ \A call \in ToolCall :
       /\ call.tool \in ToolName /\ call.top \in Nat
       /\ call.type \in {"negative", "positive", "high_risk", "all"}

VARIABLES
  frame,    \* the dataset, or None
  insight,  \* the insight stored last, or None
  answers   \* the answers given

vars == <<frame, insight, answers>>

Init == frame = None /\ insight = None /\ answers = {}

-----------------------------------------------------------------------------
(* Scopes and their signatures *)

OrEmpty(text) == IF text = "" THEN "__EMPTY__" ELSE text

\* Mutant: that only high risk is asked for is left out.
Canonical_NoRisk(f) ==
  <<f.ratings, f.sentiments, Categories(f), OrEmpty(Stripped(f.keyword))>>

\* canonical_filters of filters that ReviewFilters has normalized: unique
\* categories in an order, a text for what is empty, which for categories is
\* not that of any list.
Canonical(f) ==
  <<f.ratings, f.sentiments, Categories(f), OrEmpty(Stripped(f.keyword)),
    f.highRiskOnly>>

\* compute_scope_signature with the content hash of the dataset, which each
\* service takes from the record, or computes if the store has kept none.
Signature(service, f) ==
  <<IF Storage = "memory" THEN "content_hash" ELSE service, Canonical(f)>>

Scope(f) == FilterReviews(frame, f)

\* resolve: an insight of the same signature and number of reviews.
Resolved(signature, reviews) ==
  IF insight # None /\ insight.signature = signature
       /\ insight.sample = Len(reviews)
  THEN insight.content ELSE None

-----------------------------------------------------------------------------
(* What an answer states, as pairs of a figure and its value *)

Metric(m) ==
  {<<<<"total">>, m.total>>, <<<<"rating">>, m.rating>>, <<<<"bad ratio">>, m.negative>>,
   <<<<"sentiment">>, m.sentiment>>, <<<<"risk">>, m.risk>>}

Priorities(table, insights, top) ==
  {<<<<"priority", insights, k>>, table[k]>> : k \in DOMAIN table}
    \cup {<<<<"priorities", top>>, Len(table)>>}

\* The words of a share of the reviews, and how many are listed.
Words(share, keywords, top) ==
  {<<<<share, "words">>, keywords.words>>,
   <<<<share, "listed", Least(top, KeywordRows)>>, keywords.listed>>}

\* build_summary, where Summary does not say that it raises.
SummaryFigures(scope, insights) ==
  LET rows == scope.rows
      keywords(Test(_)) == KeywordScores(Selected(rows, Test), KeywordRows)
  IN  Metric(HealthMetrics(rows))
        \cup Priorities(PriorityTable(rows, insights, PriorityRows), insights,
                        PriorityRows)
        \cup Words("bad", keywords(IsNegative), KeywordRows)
        \cup Words("good", keywords(IsPositive), KeywordRows)
        \cup {<<<<"stars">>, RatingDistribution(rows)>>,
              <<<<"bins">>, SentimentDistribution(rows)>>, <<<<"trend">>, Trend(rows)>>,
              <<<<"risk list">>, Prefix(ViewOf(scope, "high_risk"), PreviewRows)>>,
              <<<<"mismatch list">>, Prefix(ViewOf(scope, "rating_sentiment_mismatch"),
                                        PreviewRows)>>,
              <<<<"mismatch">>, CountOf(rows, IsMismatch)>>}

\* A tool of the model, or the report, which only the rules write.
Called(call, scope, insights) ==
  CASE call.tool = "get_review_metrics" -> MetricsTool(scope)
    [] call.tool = "analyze_negative_reviews" -> NegativeTool(scope, insights, call.top)
    [] call.tool = "analyze_positive_reviews" -> PositiveTool(scope, call.top)
    [] call.tool = "find_high_risk_reviews" -> RiskTool(scope)
    [] call.tool = "compare_versions" -> VersionTool(scope, call.versions)
    [] call.tool = "analyze_sentiment_trend" -> TrendTool(scope)
    [] call.tool = "calculate_issue_priority" -> PriorityTool(scope, insights, call.top)
    [] call.tool = "retrieve_representative_reviews" ->
         RepresentativeReviews(scope, call.type, call.category, call.top)
    [] call.tool = "report_generation" -> Output(Report(scope, insights), Len(scope.rows))

\* The share of the reviews that sample_size counts.
SampleOf(call) ==
  CASE call.tool = "analyze_negative_reviews" -> <<"bad">>
    [] call.tool = "analyze_positive_reviews" -> <<"good">>
    [] call.tool = "find_high_risk_reviews" -> <<"risk">>
    [] call.tool = "compare_versions" /\ call.versions # {} -> <<"of", call.versions>>
    [] call.tool = "retrieve_representative_reviews" ->
         IF call.category # None THEN <<"in", call.category, call.type>>
         ELSE [negative |-> <<"bad">>, positive |-> <<"good">>,
               high_risk |-> <<"risk">>, all |-> <<"total">>][call.type]
    [] OTHER -> <<"total">>

\* The figures in the output o of a call that found reviews.
Stated(call, o, insights) ==
  CASE call.tool = "get_review_metrics" -> Metric(o)
    [] call.tool = "analyze_negative_reviews" ->
         {<<<<"bad">>, o.count>>, <<<<"bad ratio">>, o.ratio>>, <<<<"rating">>, o.rating>>}
           \cup Words("bad", o.keywords, call.top)
    [] call.tool = "analyze_positive_reviews" ->
         {<<<<"good">>, o.count>>} \cup Words("good", o.keywords, call.top)
    [] call.tool = "find_high_risk_reviews" ->
         {<<<<"risk">>, o.count>>, <<<<"risk list">>, Prefix(o.reviews, PreviewRows)>>}
    [] call.tool = "compare_versions" ->
         {<<<<"version", row.version>>, row>> : row \in o.table}
    [] call.tool = "analyze_sentiment_trend" -> {<<<<"trend">>, o.trend>>}
    [] call.tool = "calculate_issue_priority" ->
         {<<<<"bad ratio">>, o.ratio>>} \cup Priorities(o.priority, insights, call.top)
    [] call.tool = "retrieve_representative_reviews" -> {}
    [] call.tool = "report_generation" ->
         Metric(o.metrics) \cup {<<<<"risk">>, o.riskCount>>}
           \cup Priorities(o.priority, insights, PriorityRows)

ToolFigures(call, scope, insights) ==
  LET of(o) ==
        IF o.failed THEN {}
        ELSE {<<SampleOf(call), o.sample>>}
               \cup IF o.output = None THEN {} ELSE Stated(call, o.output, insights)
  IN  Once(Called(call, scope, insights), of)

PacketFigures(rows) ==
  {<<<<"total">>, Len(rows)>>, <<<<"rating">>, AverageRating(rows)>>,
   <<<<"sentiment">>, AverageSentiment(rows)>>, <<<<"stars">>, RatingDistribution(rows)>>}

-----------------------------------------------------------------------------
(* The services *)

Give(by, f, full, signature, scope, figures, packet) ==
  answers' = answers \cup
    {[by |-> by, filters |-> f, full |-> full, signature |-> signature,
      scope |-> scope.rows, figures |-> figures, packet |-> packet]}

Upload(new) ==
  /\ frame = None
  /\ frame' = Stored(new)
  /\ UNCHANGED <<insight, answers>>

\* AnalyticsService.build_summary
BuildSummary(f) ==
  /\ frame # None
  /\ LET signature == Signature("dataframe_scope_signature", f)
         insights == Resolved(signature, Scope(f).rows)
     IN  Give("summary", f, FALSE, signature, Scope(f),
              IF Summary(Scope(f)) = None THEN {}
              ELSE SummaryFigures(Scope(f), insights), <<>>)
  /\ UNCHANGED <<frame, insight>>

\* AgentService.query, of a question that one call answers.  The signature is
\* that of the filters, whether they are applied or the whole is asked for.
QueryAgent(f, full, call) ==
  /\ frame # None
  /\ LET scope == IF full THEN frame ELSE Scope(f)
         signature == Signature("dataframe_scope_signature", f)
         insights == Resolved(signature, scope.rows)
     IN  Give(call.tool, f, full, signature, scope,
              ToolFigures(call, scope, insights), <<>>)
  /\ UNCHANGED <<frame, insight>>

\* AiInsightService.generate, as far as the packet and the reply go; what the
\* stores and locks do is InsightGeneration's.
GenerateInsight(f, reply) ==
  /\ frame # None /\ Scope(f).rows # <<>>
  /\ LET rows == Scope(f).rows
         signature == Signature("compute_content_hash", f)
     IN  /\ Give("insight", f, FALSE, signature, Scope(f), PacketFigures(rows),
                 Packet(rows))
         /\ insight' = IF Insights(reply) = None THEN insight
                       ELSE [signature |-> signature, sample |-> Len(rows),
                             content |-> Insights(reply)]
  /\ UNCHANGED frame

\* The bounds MaxInsights and MaxAnswers.
MayGenerate == Cardinality({a \in answers : a.by = "insight"}) < MaxInsights
MayAsk == Cardinality({a \in answers : a.by # "insight"}) < MaxAnswers

Next ==
  \/ \E new \in File : Upload(new)
  \/ MayAsk /\ \E f \in Filter :
       \/ BuildSummary(f)
       \/ \E full \in BOOLEAN, call \in ToolCall : QueryAgent(f, full, call)
  \/ MayGenerate /\ \E f \in Filter, reply \in Reply : GenerateInsight(f, reply)

Spec == Init /\ [][Next]_vars

-----------------------------------------------------------------------------
(* Properties *)

\* A version with blanks around it, which compare_versions does not find.
Padded(rows) ==
  \E i \in DOMAIN rows :
    rows[i].version # None /\ Stripped(rows[i].version.text) # rows[i].version.text

(***************************************************************************)
(* Thresholds, counts and orders are written anew in the summary, in every *)
(* workflow, tool and in the packet, and tools prepare their reviews once  *)
(* more: answers about the same reviews, and each answer within itself,    *)
(* nevertheless give the same value to the same figure.  Only a comparison *)
(* of chosen versions may miss some that are written with blanks.          *)
(***************************************************************************)
AnswersAgree ==
  \A a, b \in answers :
    /\ a.scope = b.scope /\ ~Padded(a.scope)
    => \A p \in a.figures, q \in b.figures : p[1] = q[1] => p[2] = q[2]

(***************************************************************************)
(* "Insights are bound to dataset and scope signature" (README): answers   *)
(* with the same signature are about the same reviews.  Not so for an      *)
(* answer about the whole dataset while filters are set, which has the     *)
(* signature of the filters; nor for the keyword that stands for none.     *)
(***************************************************************************)
SignatureIsScope ==
  \A a, b \in answers :
    /\ a.signature = b.signature
    /\ \A x \in {a, b} : ~x.full /\ Stripped(x.filters.keyword) # "__EMPTY__"
    => a.scope = b.scope

\* The value of a figure of one name in an answer.
ValueOf(a, x) == (CHOOSE p \in a.figures : p[1] = <<x>>)[2]

\* The statistics of one summary add up.
AddUp(rows, total, bad, stars, bins) ==
  LET whole == \A i \in DOMAIN rows : rows[i].rating % 10 = 0
      table == PriorityTable(rows, None, Len(GroupOrder))
      low == Sets!SumFunctionOnSet(stars, DOMAIN stars \cap 1..3)
  IN  /\ total = Sets!SumFunction(stars)
      /\ total = Sets!SumFunction(bins)
      /\ total = Sets!SumFunction([k \in DOMAIN table |-> table[k].reviews])
      /\ whole => bad = Rounded(10000 * low, Most(1, total))

(***************************************************************************)
(* The statistics of a summary add up: every review is in one bar of each  *)
(* distribution, and, unless the table is cut, in one issue category;      *)
(* ratings that are whole stars are good or bad as their bar says.         *)
(***************************************************************************)
SummaryAddsUp ==
  \A a \in {a \in answers : a.by = "summary" /\ a.figures # {}} :
    AddUp(a.scope, ValueOf(a, "total"), ValueOf(a, "bad ratio"),
          ValueOf(a, "stars"), ValueOf(a, "bins"))

\* In hundredths: stars, parts of 100, and the scores of a severity.
Stars == 100..500
Percents == 0..10000
Band(severity) ==
  CASE severity = "high" -> 7500..10000
    [] severity = "medium" -> 4500..7500
    [] severity = "low" -> 0..4500

(***************************************************************************)
(* Means and scores stay on their scales: stars from 1 to 5, sentiments,   *)
(* shares and scores from 0 to 100, so that the bounds which               *)
(* calculate_priority_table puts on the parts of a score never act.  The   *)
(* severity is judged before the score is rounded, and differs from that   *)
(* of the score shown beside it only where this lies on a bound.           *)
(***************************************************************************)
FiguresInRange ==
  \A a \in answers : a.scope # <<>> =>
    \A p \in a.figures :
      /\ p[1] = <<"rating">> => p[2] \in Stars
      /\ p[1] \in {<<"sentiment">>, <<"bad ratio">>} => p[2] \in Percents
      /\ p[1][1] = "priority" =>
           /\ p[2].reviews \in 1..Len(a.scope)
           /\ p[2].rating \in Stars /\ p[2].sentiment \in Percents
           /\ p[2].score \in Band(p[2].severity)

(***************************************************************************)
(* A table of priorities is in the order of its scores, has no category    *)
(* twice, and leaves out none whose score is higher than one it has, at    *)
(* whichever length it is cut.                                             *)
(***************************************************************************)
PrioritiesRanked ==
  \A a \in answers :
    LET ranked == {p \in a.figures : p[1][1] = "priority"}
    IN  /\ \A p, q \in ranked : p[1][3] < q[1][3] =>
             p[2].score >= q[2].score /\ p[2].category # q[2].category
        /\ \A p \in ranked, i \in DOMAIN a.scope :
             \/ \E q \in ranked : q[2].category = a.scope[i].category
             \/ p[2].score >= PriorityRow(a.scope, p[1][2], a.scope[i].category).score

(***************************************************************************)
(* The packet keeps within its limit, never has a review twice, and shows  *)
(* the model the worst rating, the best one and, if the limit leaves room, *)
(* the lowest sentiment among good ratings.                                *)
(***************************************************************************)
PacketCovers ==
  \A a \in {a \in answers : a.by = "insight"} :
    LET rows == a.scope
        packet == a.packet
        shows(Test(_)) == \E i \in DOMAIN packet : Test(packet[i])
        extreme(x, r) == \A i \in DOMAIN rows : x * rows[i].rating <= x * r.rating
        odd(r) == /\ IsMismatch(r)
                  /\ \A i \in DOMAIN rows :
                       IsMismatch(rows[i]) => r.sentiment <= rows[i].sentiment
    IN  /\ Len(packet) \in 1..Most(1, PacketSize)
        /\ \A i, j \in DOMAIN packet : i # j => Values(packet[i]) # Values(packet[j])
        /\ shows(LAMBDA r : extreme(-1, r))
        /\ PacketSize > 1 => shows(LAMBDA r : extreme(1, r))
        /\ PacketSize > 2 /\ CountOf(rows, IsMismatch) > 0 => shows(odd)
=============================================================================
