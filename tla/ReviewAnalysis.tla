--------------------------- MODULE ReviewAnalysis ---------------------------
(***************************************************************************)
(* What is computed of the reviews of a scope: the statistics of the       *)
(* summary, the workflows of the rule agent, the tools that the model may  *)
(* call, and the packet of reviews that the model is sent.  Averages and   *)
(* ratios are in hundredths, computed exactly and rounded half to even.    *)
(***************************************************************************)
EXTENDS ReviewData, Integers
Sets == INSTANCE FiniteSetsExt
Seqs == INSTANCE SequencesExt

CONSTANTS
  Tokens,        \* the words that clean_and_tokenize keeps
  PriorityRows,  \* default top_n of the priority table
  KeywordRows,   \* top_n of extract_keyword_scores in summary and workflows
  PacketSize,    \* max_reviews of the packet
  GroupOrder     \* the categories, and "other", in the order of their names

ASSUME ReviewAnalysisAssumption ==
  /\ PriorityRows \in Nat \ {0} /\ KeywordRows \in Nat /\ PacketSize \in Int
  /\ GroupOrder \in Seq(STRING)
  /\ \A i, j \in 1..Len(GroupOrder) : i # j => GroupOrder[i] # GroupOrder[j]
  /\ {GroupOrder[i] : i \in 1..Len(GroupOrder)} =
       {"other"} \cup {Category[i] : i \in 1..Len(Category)}

Least(a, b) == IF a < b THEN a ELSE b
Most(a, b) == IF a < b THEN b ELSE a

\* round(a / b), half to even.
Rounded(a, b) ==
  LET q == a \div b
      r == 2 * (a % b)
  IN  IF r > b \/ (r = b /\ q % 2 = 1) THEN q + 1 ELSE q

CountOf(rows, Test(_)) == Cardinality({i \in DOMAIN rows : Test(rows[i])})
RatingSum(rows) == Sets!SumFunction([i \in DOMAIN rows |-> rows[i].rating])
SentimentSum(rows) == Sets!SumFunction([i \in DOMAIN rows |-> rows[i].sentiment])

AverageRating(rows) == Rounded(10 * RatingSum(rows), Len(rows))
AverageSentiment(rows) == Rounded(100 * SentimentSum(rows), Len(rows))
Ratio(part, rows) == Rounded(10000 * part, Len(rows))

IsNegative(r) == r.rating <= 30

IsPositive(r) == r.rating >= 40

-----------------------------------------------------------------------------
(* visual_analysis *)

NoMetrics == [total |-> 0, rating |-> 0, negative |-> 0, sentiment |-> 0, risk |-> 0]

\* calculate_health_metrics
HealthMetrics(rows) ==
  IF rows = <<>> THEN NoMetrics
  ELSE [total |-> Len(rows), rating |-> AverageRating(rows),
        negative |-> Ratio(CountOf(rows, IsNegative), rows),
        sentiment |-> AverageSentiment(rows),
        risk |-> CountOf(rows, IsHighRisk)]

Star(r) == Rounded(r.rating, 10)

\* Only stars that occur: value_counts of the rounded ratings.
RatingDistribution(rows) ==
  [s \in {Star(rows[i]) : i \in DOMAIN rows} |->
     Cardinality({i \in DOMAIN rows : Star(rows[i]) = s})]

\* Mutant: the lowest bin is open below.
BinOf_Open(r) == (r.sentiment + 19) \div 20

\* Bins are closed above, the first one also below.
BinOf(r) == IF r.sentiment = 0 THEN 1 ELSE (r.sentiment + 19) \div 20

\* pd.cut: all bins, also those without reviews.
SentimentDistribution(rows) ==
  [b \in 1..5 |-> Cardinality({i \in DOMAIN rows : BinOf(rows[i]) = b})]

\* extract_keyword_scores: which words there are, and how many are listed.
KeywordScores(rows, top) ==
  LET words == UNION {rows[i].content \cap Tokens : i \in DOMAIN rows}
  IN  [words |-> words, listed |-> Least(Cardinality(words), top)]

SeverityScore(severity) ==
  CASE severity = "high" -> 100 [] severity = "medium" -> 60
    [] severity = "low" -> 25   [] OTHER -> 50

(***************************************************************************)
(* build_ai_category_map: of the pain points of a category the first of    *)
(* the most severe ones.  Insights are None or have a list of pain points. *)
(***************************************************************************)
CategoryAdvice(insights, c) ==
  LET points == IF insights = None THEN <<>> ELSE insights.painPoints
      score(i) == SeverityScore(points[i].severity)
      own == {i \in DOMAIN points : Classify(points[i].words) = c}
  IN  IF own = {} THEN [score |-> 50, suggestion |-> None]
      ELSE LET i == CHOOSE i \in own : \A j \in own :
                      score(j) < score(i) \/ (score(j) = score(i) /\ i <= j)
           IN  [score |-> score(i), suggestion |-> points[i].suggestion]

\* The row that is lowest in rating, then in sentiment.
RepresentativeReview(rows) == Sorted(rows, RiskOrder)[1].row

(***************************************************************************)
(* The score of a group of n rows is a weighted sum of its share of the    *)
(* N negative reviews (35), 100 - average sentiment (25), its distance     *)
(* from five stars (20), the advice (15) and its share of high risk (5);   *)
(* this is 20 n N times the score.                                         *)
(***************************************************************************)
ScaledScore(group, advice, N) ==
  LET n == Len(group)
  IN  700 * CountOf(group, IsNegative) * n
        + N * (1000 * n - 5 * SentimentSum(group) - 10 * RatingSum(group)
                 + 3 * n * advice.score + 100 * CountOf(group, IsHighRisk))

SeverityLabel(scaled, unit) ==
  IF scaled >= 75 * unit THEN "high"
  ELSE IF scaled >= 45 * unit THEN "medium" ELSE "low"

\* Mutant: the mean of a group is taken over all reviews.
PriorityRow_Mean(rows, insights, c) ==
  LET group == Selected(rows, LAMBDA r : r.category = c)
      N == Most(CountOf(rows, IsNegative), 1)
      advice == CategoryAdvice(insights, c)
      scaled == ScaledScore(group, advice, N)
      unit == 20 * Len(group) * N
  IN  [category |-> c, score |-> Rounded(100 * scaled, unit),
       severity |-> SeverityLabel(scaled, unit), reviews |-> Len(group),
       rating |-> Rounded(10 * RatingSum(group), Len(rows)),
       sentiment |-> AverageSentiment(group), advice |-> advice,
       representative |-> RepresentativeReview(group)]

PriorityRow(rows, insights, c) ==
  LET group == Selected(rows, LAMBDA r : r.category = c)
      N == Most(CountOf(rows, IsNegative), 1)
      advice == CategoryAdvice(insights, c)
      scaled == ScaledScore(group, advice, N)
      unit == 20 * Len(group) * N
  IN  [category |-> c, score |-> Rounded(100 * scaled, unit),
       severity |-> SeverityLabel(scaled, unit), reviews |-> Len(group),
       rating |-> AverageRating(group), sentiment |-> AverageSentiment(group),
       advice |-> advice, representative |-> RepresentativeReview(group)]

\* Higher scores first, ties in the order of the groups.
ScoreOrder(p, q) ==
  LET place(c) == CHOOSE i \in DOMAIN GroupOrder : GroupOrder[i] = c
  IN  p.score > q.score \/ (p.score = q.score /\ place(p.category) < place(q.category))

\* The groups that have reviews, as groupby goes through them.
Groups(rows) ==
  LET occurs(c) == \E i \in DOMAIN rows : rows[i].category = c
  IN  Selected(GroupOrder, occurs)

\* calculate_priority_table: the rows of the highest scores.
RankedGroups(rows, insights) ==
  LET groups == Groups(rows)
  IN  Sorted([k \in 1..Len(groups) |-> PriorityRow(rows, insights, groups[k])],
             ScoreOrder)

\* Mutant: the table is cut before it is sorted.
PriorityTable_Head(rows, insights, top) ==
  LET groups == Prefix(Groups(rows), top)
  IN  Sorted([k \in 1..Len(groups) |-> PriorityRow(rows, insights, groups[k])],
             ScoreOrder)

PriorityTable(rows, insights, top) == Prefix(RankedGroups(rows, insights), top)

\* sentiment_trend: the reviews of a day, for the days that have some.
Trend(rows) ==
  LET days == {rows[i].day : i \in DOMAIN rows} \ {None}
      entry(d) == LET own == Selected(rows, LAMBDA r : r.day = d)
                  IN  [day |-> d, rating |-> AverageRating(own),
                       sentiment |-> AverageSentiment(own), reviews |-> Len(own)]
  IN  [k \in 1..Cardinality(days) |->
         entry(Seqs!SetToSortSeq(days, LAMBDA a, b : a < b)[k])]

-----------------------------------------------------------------------------
(* agent_workflow.  A workflow without reviews is None: it answers that    *)
(* there is nothing to analyse, with empty tables.                         *)

\* _prepare_agent_data prepares what was prepared at the upload.
AgentData(frame) == Prepare(frame.rows)

NegativeAnalysis(frame, insights) ==
  LET rows == AgentData(frame)
      negative == Selected(rows, IsNegative)
      priority == PriorityTable(negative, insights, PriorityRows)
  IN  IF rows = <<>> THEN None
      ELSE [count |-> Len(negative), ratio |-> Ratio(Len(negative), rows),
            rating |-> AverageRating(rows),
            top |-> IF priority = <<>> THEN None ELSE priority[1].category,
            keywords |-> KeywordScores(negative, KeywordRows),
            priority |-> priority,
            typical |-> Prefix(Sorted(negative, RiskOrder), 10)]

\* Mutant: only the label of low ratings is looked at.
RiskAnalysis_LowRating(frame) ==
  LET rows == AgentData(frame)
      risk == Selected(rows, LAMBDA r : "low_rating" \in r.labels)
  IN  IF rows = <<>> THEN None
      ELSE [count |-> Len(risk), ratio |-> Ratio(Len(risk), rows),
            reviews |-> Sorted(risk, RiskOrder)]

RiskAnalysis(frame) ==
  LET rows == AgentData(frame)
      risk == Selected(rows, IsHighRisk)
  IN  IF rows = <<>> THEN None
      ELSE [count |-> Len(risk), ratio |-> Ratio(Len(risk), rows),
            reviews |-> Sorted(risk, RiskOrder)]

PositiveAnalysis(frame) ==
  LET rows == AgentData(frame)
      positive == Selected(rows, IsPositive)
  IN  IF rows = <<>> THEN None
      ELSE [count |-> Len(positive), ratio |-> Ratio(Len(positive), rows),
            keywords |-> KeywordScores(positive, KeywordRows)]

VersionRow(rows, v) ==
  LET own == Selected(rows, LAMBDA r : r.version # None /\ Stripped(r.version.text) = v)
      bad == CountOf(own, IsNegative)
  IN  [version |-> v, reviews |-> Len(own), rating |-> AverageRating(own),
       sentiment |-> AverageSentiment(own), bad |-> bad, ratio |-> Ratio(bad, own)]

\* Versions by their share of bad reviews, the worse rating first; of two
\* that agree in both either may be the first.
VersionAnalysis(rows) ==
  LET texts == {Stripped(rows[i].version.text) :
                  i \in {i \in DOMAIN rows : rows[i].version # None}} \ {""}
      worse(p, q) == p.ratio > q.ratio \/ (p.ratio = q.ratio /\ p.rating < q.rating)
      table == {VersionRow(rows, v) : v \in texts}
  IN  IF table = {} THEN None
      ELSE [table |-> table,
            worst |-> {p \in table : \A q \in table : ~worse(q, p)}]

Direction(delta) == IF delta > 0 THEN "up" ELSE IF delta < 0 THEN "down" ELSE "level"

TrendAnalysis(frame) ==
  LET trend == Trend(AgentData(frame))
      n == Len(trend)
      change(field) == Direction(trend[n][field] - trend[n-1][field])
  IN  IF n = 0 THEN None
      ELSE [trend |-> trend,
            rating |-> IF n = 1 THEN None ELSE change("rating"),
            sentiment |-> IF n = 1 THEN None ELSE change("sentiment"),
            latest |-> trend[n].reviews]

\* The insights' recommendations, or the first three rows of the table.
Recommendations(priority, insights) ==
  IF insights # None /\ insights.recommendations # <<>>
  THEN insights.recommendations
  ELSE [k \in DOMAIN Prefix(priority, 3) |-> priority[k].category]

ProductSuggestion(frame, insights) ==
  LET rows == AgentData(frame)
      priority == PriorityTable(rows, insights, PriorityRows)
  IN  IF rows = <<>> THEN None
      ELSE [ratio |-> HealthMetrics(rows).negative, priority |-> priority,
            recommendations |-> Recommendations(priority, insights)]

Report(frame, insights) ==
  LET rows == AgentData(frame)
      risk == Selected(rows, IsHighRisk)
      priority == PriorityTable(rows, insights, PriorityRows)
  IN  IF rows = <<>> THEN None
      ELSE [metrics |-> HealthMetrics(rows), priority |-> priority,
            riskCount |-> Len(risk),
            riskTable |-> Prefix(Sorted(risk, RiskOrder), 20),
            summary |-> IF insights = None THEN None ELSE insights.summary,
            recommendations |-> Recommendations(priority, insights)]

GeneralAnalysis(frame) ==
  LET rows == AgentData(frame)
  IN  IF rows = <<>> THEN None ELSE HealthMetrics(rows)

-----------------------------------------------------------------------------
(* ToolExecutor._dispatch: output, and the reviews it says it is about.    *)
(* A tool that raises has failed.                                          *)

Output(output, sample) == [failed |-> FALSE, output |-> output, sample |-> sample]
ToolFailed == [failed |-> TRUE, output |-> None, sample |-> 0]

\* The versions asked for are compared with the text as it is.
OfVersions(rows, versions) ==
  IF versions = {} THEN rows
  ELSE Selected(rows, LAMBDA r : r.version # None /\ r.version.text \in versions)

OfType(rows, type) ==
  CASE type = "negative"  -> Selected(rows, IsNegative)
    [] type = "positive"  -> Selected(rows, IsPositive)
    [] type = "high_risk" -> Selected(rows, IsHighRisk)
    [] type = "all"       -> rows

\* Of no reviews the mask of high risk loses the columns that are sorted by.
RepresentativeReviews(frame, type, category, limit) ==
  LET rows == AgentData(frame)
      own(r) == category = None \/ r.category = category
      selected == Sorted(Selected(OfType(rows, type), own), RiskOrder)
  IN  IF rows = <<>> /\ type = "high_risk" THEN ToolFailed
      ELSE Output(Prefix(selected, limit), Len(selected))

MetricsTool(frame) == Output(GeneralAnalysis(frame), Len(AgentData(frame)))

\* The list of a workflow, cut again.
Cut(keywords, top) == [keywords EXCEPT !.listed = Least(@, top)]

WithKeywords(analysis, top) ==
  IF analysis = None THEN None
  ELSE [analysis EXCEPT !.keywords = Cut(@, top)]

NegativeTool(frame, insights, top) ==
  Output(WithKeywords(NegativeAnalysis(frame, insights), top),
         CountOf(AgentData(frame), IsNegative))

PositiveTool(frame, top) ==
  Output(WithKeywords(PositiveAnalysis(frame), top),
         CountOf(AgentData(frame), IsPositive))

RiskTool(frame) == Output(RiskAnalysis(frame), CountOf(AgentData(frame), IsHighRisk))

VersionTool(frame, versions) ==
  LET rows == OfVersions(AgentData(frame), versions)
  IN  Output(VersionAnalysis(rows), Len(rows))

TrendTool(frame) == Output(TrendAnalysis(frame), Len(AgentData(frame)))

PriorityTool(frame, insights, top) ==
  LET rows == AgentData(frame)
      suggestion == ProductSuggestion(frame, insights)
  IN  Output(IF suggestion = None THEN None
             ELSE [suggestion EXCEPT !.priority = PriorityTable(rows, insights, top)],
             Len(rows))

-----------------------------------------------------------------------------
(* ai_analysis: the packet for the model, and what is made of its reply.   *)

\* Orders by one column; within one value rows keep their order.
WorstFirst(r, s) == r.rating < s.rating \/ (r.rating = s.rating /\ r.row < s.row)
BestFirst(r, s) == r.rating > s.rating \/ (r.rating = s.rating /\ r.row < s.row)
LowestFirst(r, s) ==
  r.sentiment < s.sentiment \/ (r.sentiment = s.sentiment /\ r.row < s.row)

\* Mutant: good ratings with low sentiments are not asked for.
Packet_NoMismatch(rows) ==
  LET limit == Most(1, PacketSize)
      worst == Sorted(rows, WorstFirst)
      best == Sorted(rows, BestFirst)
      pools == Prefix(worst, Most(1, limit \div 2)) \o Prefix(best, Most(1, limit \div 4))
  IN  Prefix(pools, limit)

\* What drop_duplicates compares: every column, but not the index.
Values(r) == [x \in DOMAIN r \ {"row"} |-> r[x]]

DropDuplicates(rows) ==
  LET first(i) == \A j \in 1..(i-1) : Values(rows[j]) # Values(rows[i])
      kept == Selected([i \in DOMAIN rows |-> i], first)
  IN  [k \in DOMAIN kept |-> rows[kept[k]]]

\* build_review_packet: half the worst, a quarter the best rated, the rest
\* the lowest sentiments among good ratings.
Packet(rows) ==
  LET limit == Most(1, PacketSize)
      negative == Most(1, limit \div 2)
      positive == Most(1, limit \div 4)
      mismatch == Most(0, limit - negative - positive)
      worst == Sorted(rows, WorstFirst)
      best == Sorted(rows, BestFirst)
      odd == Sorted(Selected(rows, IsMismatch), LowestFirst)
  IN  Prefix(DropDuplicates(Prefix(worst, negative) \o Prefix(best, positive)
                              \o Prefix(odd, mismatch)), limit)

\* A field of the reply is a list, one value, or null or blank.
AsList(field) ==
  CASE field.kind = "list" -> field.items
    [] field.kind = "one"  -> field.items
    [] field.kind = "none" -> <<>>

\* call_deepseek returns the text of an answer.
Returns(reply) ==
  reply.provider = "deepseek" /\ reply.key /\ reply.status = 200 /\ reply.message

\* parse_json_content: JSON, alone, in a code fence or within other text.
Parses(reply) == reply.text \in {"json", "fenced", "embedded"}

\* normalize_insights of what is an object; None is an AiAnalysisError.
Insights(reply) ==
  IF ~Returns(reply) \/ ~Parses(reply) \/ ~reply.object THEN None
  ELSE [summary |-> reply.summary, painPoints |-> AsList(reply.painPoints),
        recommendations |-> AsList(reply.recommendations)]
=============================================================================
