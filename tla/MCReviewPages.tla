--------------------------- MODULE MCReviewPages ---------------------------
(* Files of a few kinds of rows, and filters that drop some of them. *)
EXTENDS ReviewPages, TLC

CONSTANT MaxRows

Row(rating, sentiment, content, version) ==
  [rating |-> rating, sentiment |-> sentiment, content |-> content,
   version |-> version, day |-> None]
Text == [number |-> FALSE, text |-> "v1"]
Digits == [number |-> TRUE, text |-> "1.0"]

\* Two kinds that are dropped, for one reason and for both, three labels and
\* three kinds of versions; one that is dropped makes the others' digits text.
Kinds == {Row(10, 10, {"ban"}, None), Row(50, 25, {"fine"}, Text),
          Row(40, 30, {"ban", "ads"}, Digits), Row(60, 50, {"fine"}, Text),
          Row(None, None, {}, None)}

\* Three pages of the whole, the last one short, two of the reviews of high
\* risk and one of the mismatches, which fill it.
Varied == <<Row(50, 25, {"fine"}, Text), Row(10, 10, {"ban"}, None),
            Row(40, 30, {"ban", "ads"}, Text), Row(40, 20, {"ads"}, None),
            Row(30, 50, {"fine"}, None)>>

MCFile == {Varied} \cup UNION {[1..n -> Kinds] : n \in 0..MaxRows}

MCCategory == <<"account", "experience">>
MCKeywords == [account |-> {"ban"}, experience |-> {"ads"}]

MCStrip == [t \in {} |-> t]
MCFloatText == "1.0" :> "1.0"

Everything == [ratings |-> <<10, 50>>, sentiments |-> <<0, 100>>, categories |-> <<>>,
               keyword |-> "", highRiskOnly |-> FALSE]
MCCriteria ==
  [all |-> Everything,
   account |-> [Everything EXCEPT !.categories = <<"account">>,
                  !.sentiments = <<0, 30>>, !.highRiskOnly = TRUE]]
=============================================================================
