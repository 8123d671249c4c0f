------------------------- MODULE MCControlledAgent -------------------------
(* Two tools that the model calls, an unknown one, ids that clash with the *)
(* generated ones, and replies of every shape.                             *)
EXTENDS ControlledAgent, SequencesExt

Metrics == "get_review_metrics"
Trend == "analyze_sentiment_trend"

MCGenId == <<"call_1", "call_2", "call_3">>
MCOutput == [t \in Tool |-> IF t = Metrics THEN {"m"}
                            ELSE IF t = Trend THEN {"t"} ELSE {}]
\* "call_1" contains the number 1, "x" none.
MCIdNumbers == [c \in CallId |-> IF c = "x" THEN {} ELSE {"1"}]

Call(id, name, form) ==
  [id |-> id, name |-> name, args |-> {}, form |-> form]
NoPlan == [error |-> TRUE, calls |-> <<>>]
PlansOf(calls, n) ==
  {NoPlan} \cup {[error |-> FALSE, calls |-> s] : s \in SeqOf(calls, n)}

MCCalls ==
  {Call(id, name, "valid") : id \in {NoId, "call_2", "x"},
                             name \in {Metrics, Trend, "unknown"}}
    \cup {Call("x", Trend, form) : form \in Form \ {"valid"}}

\* Up to one call more than the limit of two; what it is does not matter.
Overlong(r) == [r EXCEPT !.calls = Append(@, Call("x", Metrics, "valid"))]
MCPlans ==
  PlansOf(MCCalls, 2)
    \cup {Overlong(r) : r \in {r \in PlansOf(MCCalls, 2) : Len(r.calls) = 2}}

\* One broken call beside one that is right.
MCJunkPlans ==
  PlansOf({Call("x", Trend, "junk"), Call(NoId, Metrics, "valid")}, 2)

Answer(answer, numbers, absolute, limitations, ids) ==
  [error |-> FALSE, answer |-> answer, numbers |-> numbers,
   absolute |-> absolute, limitations |-> limitations,
   idsType |-> "list", ids |-> ids]

MCIds == {<<>>, <<"call_1">>, <<"call_2", "x">>, <<"x">>, <<"ghost">>}
Plain == Answer("text", {}, FALSE, "list", <<>>)

MCTypedAnswers ==
  {[Plain EXCEPT !.error = TRUE], [Plain EXCEPT !.answer = "blank"],
   Answer("text", {}, TRUE, "list", <<"x">>),
   [Plain EXCEPT !.limitations = "other"], [Plain EXCEPT !.idsType = "other"]}
    \cup {Answer("text", n, FALSE, "list", ids) :
            n \in {{}, {"m"}, {"m", "t"}, {"1"}, {"made up"}}, ids \in MCIds}
MCAnswers ==
  MCTypedAnswers
    \cup {Answer("number", {"m"}, FALSE, "list", <<"x">>),
          Answer("text", {}, FALSE, "falsy", <<"x">>),
          [Plain EXCEPT !.idsType = "falsy"]}

\* Every question that the rules answer, and one that goes to the model.
MCComplex == {[answerable |-> TRUE, rules |-> {}, complex |-> TRUE,
               metric |-> FALSE, short |-> FALSE]}
MCQuestions ==
  MCComplex \cup {q \in Question : ~q.answerable \/ IsFastRule(q)}
=============================================================================
