-------------------------- MODULE MCReviewQueries --------------------------
(* Files in which every figure has something to count, filters that mean   *)
(* the same in other words, and a call of every tool.                      *)
EXTENDS ReviewQueries, TLC

Row(rating, sentiment, content, version, day) ==
  [rating |-> rating, sentiment |-> sentiment, content |-> content,
   version |-> version, day |-> day]
V(text) == [number |-> FALSE, text |-> text]
D(text) == [number |-> TRUE, text |-> text]

\* Three categories and "other", two of a score; three labels; a tie of
\* ratings; two equal reviews; a rating between bad and good.
Varied == <<Row(50, 25, {"fine", "audit"}, V("v1"), 2), Row(10, 10, {"ban"}, V("v2"), 1),
            Row(40, 30, {"ban", "ads"}, V("v1"), 2), Row(40, 20, {"ads", "slow"}, None, 1),
            Row(30, 0, {"fine"}, V("v2"), 3), Row(35, 61, {"ads"}, V("v1"), None),
            Row(40, 20, {"ads", "slow"}, None, 1), Row(None, None, {"ads"}, None, 1),
            Row(30, None, {"audit"}, V("v1"), 3)>>

\* Sentiments on the bounds of bins and of labels, and none.
Edges == <<Row(50, 0, {"fine"}, D("1.10"), 1), Row(40, 29, {"ban"}, D("1.1"), 1),
           Row(20, 100, {"ads"}, D("2.0"), 2), Row(30, 20, {"ban"}, D("1.1"), 2),
           Row(50, 40, {"fine"}, D("2.0"), None), Row(45, 60, {"slow"}, None, None)>>

\* Versions with blanks.
Blanks == <<Row(10, 5, {"ban"}, V(" v1"), 1), Row(50, 90, {"fine"}, V("v1"), 1),
            Row(45, 21, {"ads"}, V(" "), 2)>>

Nothing == <<Row(None, None, {}, None, None)>>

MCFile == {Varied, Edges, Blanks, Nothing}

MCCategory == <<"account", "audit", "experience">>
\* The names are Chinese: experience, other, audit, account.
MCGroupOrder == <<"experience", "other", "audit", "account">>
MCKeywords == [account |-> {"ban"}, audit |-> {"audit"}, experience |-> {"ads"}]
MCTokens == {"ban", "ads", "slow", "fine"}
MCStrip == " v1" :> "v1" @@ " " :> "" @@ " account" :> "account" @@ " ads" :> "ads"
MCFloatText == "1.10" :> "1.1" @@ "1.1" :> "1.1" @@ "2.0" :> "2.0"

Everything == [ratings |-> <<10, 50>>, sentiments |-> <<0, 100>>, categories |-> <<>>,
               keyword |-> "", highRiskOnly |-> FALSE]
\* The second and the third ask for the same in other words.
Some == [Everything EXCEPT !.ratings = <<10, 40>>, !.sentiments = <<5, 100>>,
                           !.categories = <<"account", "experience">>, !.keyword = "ads"]
MCFilter ==
  {Everything, Some,
   [Some EXCEPT !.categories = <<"experience", " account", "account">>, !.keyword = " ads"],
   [Everything EXCEPT !.categories = <<" ">>, !.highRiskOnly = TRUE]}

Tool(tool, top) ==
  [tool |-> tool, top |-> top, versions |-> {}, type |-> "all", category |-> None]
MCToolCall ==
  {Tool("get_review_metrics", 1), Tool("analyze_negative_reviews", 1),
   Tool("analyze_positive_reviews", 30), Tool("find_high_risk_reviews", 1),
   Tool("analyze_sentiment_trend", 1), Tool("calculate_issue_priority", 2),
   Tool("report_generation", 1), Tool("compare_versions", 1),
   [Tool("compare_versions", 1) EXCEPT !.versions = {"v1", "1.1", "v9"}]}
    \cup {[Tool("retrieve_representative_reviews", 2) EXCEPT !.type = t] :
            t \in {"negative", "high_risk"}}

Good == [provider |-> "deepseek", key |-> TRUE, status |-> 200, message |-> TRUE,
         text |-> "json", object |-> TRUE, summary |-> "s",
         painPoints |-> [kind |-> "list", items |->
           <<[words |-> {"ban"}, severity |-> "low", suggestion |-> "a"],
             [words |-> {"ban", "ads"}, severity |-> "high", suggestion |-> "b"],
             [words |-> {"ban"}, severity |-> "high", suggestion |-> "c"]>>],
         recommendations |-> [kind |-> "one", items |-> <<"r">>]]
MCReply == {Good, [Good EXCEPT !.status = 500]}
=============================================================================
