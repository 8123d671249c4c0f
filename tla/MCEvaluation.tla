---------------------------- MODULE MCEvaluation ----------------------------
(* One case for each shape of the cases of agent_questions.json, and       *)
(* question sets that lack one, repeat one or have a wrong one in its      *)
(* place.                                                                  *)
EXTENDS Evaluation, MCControlledAgent

Versions == "compare_versions"
Risks == "find_high_risk_reviews"
Priority == "calculate_issue_priority"

\* The replies of the mock client, whose calls all have an id.
Asks(calls) == [error |-> FALSE, calls |-> calls]
Valid(id, name) == Call(id, name, "valid")
Pair == [Valid("x", Versions) EXCEPT !.args = {"versions"}]
Says(numbers) == Answer("text", numbers, FALSE, "list", <<>>)

Complex == CHOOSE q \in MCComplex : TRUE
Fast == [Complex EXCEPT !.rules = {"trend_analysis"}, !.complex = FALSE]
Plainly == [Fast EXCEPT !.rules = {}, !.metric = TRUE]
Unanswerable == [Fast EXCEPT !.answerable = FALSE, !.rules = {}]
WhichVersion == [Unanswerable EXCEPT !.rules = {"version_analysis"}]

\* Cases that the rules answer: of one rule, of a metric, and unanswerable.
RuleCase ==
  [id |-> "trend", category |-> "simple", question |-> Fast, routing |-> "rule",
   tools |-> {Trend}, all |-> {}, any |-> {}, forbidden |-> {}, args |-> <<>>,
   fallbackAllowed |-> FALSE, illegal |-> FALSE, grounded |-> "none",
   without |-> {}, verbatim |-> TRUE, plan |-> Asks(<<>>), answer |-> Plain]
Rule(id, asked, tool) ==
  [RuleCase EXCEPT !.id = id, !.question = asked, !.tools = {tool}]

\* complex_00x and param_00x: one to three calls, required or of a choice.
Base ==
  [RuleCase EXCEPT !.question = Complex, !.routing = "tool_calling", !.tools = {},
                   !.category = "complex", !.id = "two tools", !.all = {Metrics},
                   !.any = {Trend, Versions}, !.grounded = "pass",
                   !.plan = Asks(<<Valid("x", Metrics), Valid("call_2", Trend)>>),
                   !.answer = Says({"m", "t"})]
Three ==
  [Base EXCEPT !.id = "three tools", !.all = {Versions, Risks},
               !.any = {Priority, Trend},
               !.plan = Asks(<<Valid("x", Versions), Valid("call_1", Risks),
                               Valid("call_2", Trend)>>),
               !.answer = Says({"t"})]
Choice ==
  [Base EXCEPT !.id = "a choice", !.all = {}, !.any = {Trend, Risks, Priority}]
Parameter ==
  [Base EXCEPT !.id = "versions", !.all = {Versions}, !.any = {},
               !.args = [t \in {Versions} |-> {"versions"}],
               !.plan = Asks(<<Pair>>), !.answer = Plain]
Parameters ==
  [Parameter EXCEPT !.id = "two required", !.all = {Versions, Metrics},
                    !.plan = Asks(<<Pair, Valid("call_1", Metrics)>>)]

Adversarial ==
  [Base EXCEPT !.category = "adversarial", !.routing = "rule_fallback",
               !.all = {}, !.any = {}, !.fallbackAllowed = TRUE]
Deletes ==
  [Adversarial EXCEPT !.id = "delete", !.grounded = "none", !.illegal = TRUE,
                      !.forbidden = {"unknown"},
                      !.plan = Asks(<<Valid("x", "unknown")>>), !.answer = Plain]
MadeUp ==
  [Adversarial EXCEPT !.id = "made up", !.tools = {Metrics},
                      !.grounded = "must_fail", !.without = {"made up"},
                      !.plan = Asks(<<Valid("x", Metrics)>>),
                      !.answer = Says({"made up"})]
\* adversarial_004: the answer claims what is best, and the rules may answer.
Best ==
  [Adversarial EXCEPT !.id = "best", !.routing = "tool_calling",
                      !.all = {Versions}, !.plan = Asks(<<Pair>>),
                      !.answer = [Plain EXCEPT !.absolute = TRUE]]

Degraded ==
  [Adversarial EXCEPT !.category = "degradation", !.grounded = "none",
                      !.verbatim = FALSE, !.answer = Plain]
Down == [Degraded EXCEPT !.id = "down", !.plan = NoPlan]
Silent == [Degraded EXCEPT !.id = "silent", !.plan = Asks(<<>>)]
Scolded == [Degraded EXCEPT !.id = "arguments",
                            !.plan = Asks(<<Call("x", Trend, "invalid")>>)]
Ungrounded == [MadeUp EXCEPT !.id = "ungrounded", !.tools = {}, !.without = {},
                             !.category = "degradation", !.verbatim = FALSE]

Shipped ==
  <<RuleCase, Rule("metric", Plainly, Metrics),
    Rule("unanswerable", Unanswerable, Metrics),
    Rule("which version", WhichVersion, Versions),
    Base, Three, Choice, Parameter, Parameters, Deletes, MadeUp, Best,
    Down, Silent,
    [Degraded EXCEPT !.id = "illegal", !.plan = Deletes.plan, !.illegal = TRUE],
    Scolded, Ungrounded>>

\* What a question set may be told wrongly, at any of its places.
Wrong ==
  {[Deletes EXCEPT !.illegal = FALSE],                     \* not valid
   [Base EXCEPT !.id = "unused", !.routing = "rule"],
   [Base EXCEPT !.id = "unused", !.all = {Versions}],
   [Parameter EXCEPT !.id = "unused", !.plan = Asks(<<Valid("x", Versions)>>)],
   [Parameter EXCEPT !.id = "unused",
                     !.plan = Asks(<<[Pair EXCEPT !.form = "list"]>>)],
   [MadeUp EXCEPT !.id = "unused", !.answer = Says({"m"})],
   [Ungrounded EXCEPT !.id = "unused", !.answer = [Plain EXCEPT !.error = TRUE]],
   Down}                                                   \* there twice

MCSuites ==
  {[shipped |-> TRUE, cases |-> Shipped]}
    \cup {[shipped |-> FALSE, cases |-> s] :
            s \in {[Shipped EXCEPT ![k] = c] : k \in DOMAIN Shipped, c \in Wrong}
                    \cup {RemoveAt(Shipped, k) : k \in DOMAIN Shipped}
                    \cup {SelectSeq(Shipped, LAMBDA c : c.grounded # g) :
                            g \in {"pass", "must_fail"}}
                    \cup {SelectSeq(Shipped, LAMBDA c : ~c.illegal)}}

MCCases == UNION {{s.cases[k] : k \in DOMAIN s.cases} : s \in MCSuites}
MCCasePlans == {c.plan : c \in MCCases}
MCCaseAnswers == {c.answer : c \in MCCases}
=============================================================================
