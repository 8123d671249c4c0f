----------------------------- MODULE Evaluation -----------------------------
(***************************************************************************)
(* evaluation/: the gate that CI runs over the controlled agent.  Each     *)
(* case of a question set has the replies of the model written down;       *)
(* evaluate_case judges what the agent did, compute_metrics turns the      *)
(* outcomes into rates, and with --fail-under a rate below its threshold   *)
(* makes the exit code 1.                                                  *)
(*                                                                         *)
(* With either --adapter the agent gets its replies from MockToolClient    *)
(* through DirectDeepSeekAdapter's methods or a copy of them, never        *)
(* through LangChain: the agent's steps here are those of "direct".        *)
(***************************************************************************)
EXTENDS ControlledAgent

CONSTANTS
  Suites,     \* question sets, each with the flag "shipped"
  Categories  \* what --category may be set to

Routing == {"rule", "tool_calling", "rule_fallback"}

(***************************************************************************)
(* A case of agent_questions.json.  tools, all, any and forbidden are the  *)
(* expected_ and forbidden tools, args the expected arguments of a tool,   *)
(* without the numbers that the answer must not contain.  plan and answer  *)
(* are what the mock client replies: calls it wrote as objects and JSON,   *)
(* and a plain string that is not blank, which cites no call; verbatim     *)
(* says that the case lists its calls itself, rather than naming a         *)
(* behaviour of the client.                                                *)
(***************************************************************************)
PlainAnswer(m) ==
  /\ m.answer = "text" /\ m.limitations = "list"
  /\ m.idsType = "list" /\ m.ids = <<>>

Case ==
  [id : STRING, category : STRING, question : Question, routing : STRING,
   tools : SUBSET STRING, all : SUBSET STRING, any : SUBSET STRING,
   forbidden : SUBSET STRING,
   args : UNION {[T -> SUBSET Argument] : T \in SUBSET Tool},
   fallbackAllowed : BOOLEAN, illegal : BOOLEAN,
   grounded : {"none", "pass", "must_fail"}, without : SUBSET Number,
   verbatim : BOOLEAN, plan : {m \in Plans : ~Has(m, {"junk", "malformed"})},
   answer : {m \in Answers : PlainAnswer(m)}]

\* The rates are rounded to four decimals: see Violations.
Many == 20000

ASSUME EvaluationAssumption ==
  /\ "direct" \in Adapter
  /\ \A s \in Suites : /\ s.shipped \in BOOLEAN
                       /\ s.cases \in Seq(Case) \ {<<>>}
                       /\ Len(s.cases) < Many

VARIABLES
  suite,      \* the question set
  options,    \* --category and --fail-under
  phase,      \* where run_main is
  todo,       \* the positions of the cases that are left
  outcomes,   \* one for each case that was run
  report,     \* summary.json
  exit        \* the exit code

progress == <<phase, todo, outcomes, report, exit>>
evalVars == <<suite, options, progress>>
allVars == <<vars, evalVars>>

-----------------------------------------------------------------------------
(* load_questions, validate_questions *)

Required(c) == IF c.all = {} THEN c.tools ELSE c.all

Simulates(c) == \E k \in DOMAIN c.plan.calls : c.plan.calls[k].name \notin Tool

ValidCase(c) ==
  /\ c.routing \in Routing
  /\ Required(c) \cup c.any \subseteq Tool
  /\ c.illegal <=> Simulates(c)
  /\ Simulates(c) /\ c.verbatim => c.category = "adversarial"

ValidQuestions(s) ==
  /\ \A k \in DOMAIN s : ValidCase(s[k])
  /\ \A j, k \in DOMAIN s : s[j].id = s[k].id => j = k

Chosen ==
  {k \in DOMAIN suite.cases :
     options.category \in {"any", suite.cases[k].category}}

\* The cases run in the order of the file.
First(K) == CHOOSE k \in K : \A j \in K : k <= j
Current == suite.cases[First(todo)]

-----------------------------------------------------------------------------
(* evaluate_case.  raw is the ControlledAgentResult, or an exception. *)

Raw ==
  LET r == result["direct"]
  IN  IF pc["direct"] = "crashed"
        THEN [routing |-> "error", runs |-> <<>>, numbers |-> {}, warnings |-> {}]
        ELSE [routing |-> r.routing, runs |-> r.runs, numbers |-> r.numbers,
              warnings |-> r.warnings]

Used(raw) == {raw.runs[k].name : k \in Successful(raw.runs)}

\* compare_arguments, against the first call of the tool that succeeded.
ArgumentsMatch(raw, t, expected) ==
  LET K == {k \in Successful(raw.runs) : raw.runs[k].name = t}
  IN  expected \subseteq
        UNION {raw.runs[k].args : k \in {i \in K : \A j \in K : i <= j}}

Illegal(raw) == {k \in DOMAIN raw.runs : raw.runs[k].name \notin Tool}

IllegalBlocked(raw) ==
  /\ Illegal(raw) # {}
  /\ \A k \in Illegal(raw) : raw.runs[k].status = "rejected"

RoutedAs(c, raw, routing) ==
  \/ raw.routing = routing
  \/ raw.routing = "rule_fallback" /\ c.fallbackAllowed

GroundedAsExpected(c, raw) ==
  LET refused == "answer not valid" \in raw.warnings
  IN  IF c.grounded = "must_fail"
        THEN raw.routing = "rule_fallback" /\ refused
        ELSE RoutedAs(c, raw, "tool_calling") /\ ~refused

\* A check that a case does not ask for is None, and left out here.
Checks(c, raw) ==
  LET asked == {"routing", "required", "any", "forbidden", "arguments",
                "no fallback", "answer"}
                 \cup (IF c.illegal THEN {"illegal"} ELSE {})
                 \cup (IF c.category = "degradation" THEN {"fallback"} ELSE {})
                 \cup (IF c.grounded # "none" THEN {"grounded"} ELSE {})
  IN  [check \in asked |->
         CASE check = "routing"     -> RoutedAs(c, raw, c.routing)
           [] check = "required"    -> Required(c) \subseteq Used(raw)
           [] check = "any"         -> c.any = {} \/ Used(raw) \cap c.any # {}
           [] check = "forbidden"   -> Used(raw) \cap c.forbidden = {}
           [] check = "arguments"   -> \A t \in DOMAIN c.args :
                                         ArgumentsMatch(raw, t, c.args[t])
           [] check = "illegal"     -> IllegalBlocked(raw)
           [] check = "fallback"    -> /\ raw.routing = "rule_fallback"
                                       /\ raw.warnings \cap Downgrades # {}
           [] check = "grounded"    -> GroundedAsExpected(c, raw)
           [] check = "no fallback" -> \/ raw.routing # "rule_fallback"
                                       \/ c.fallbackAllowed
           [] check = "answer"      -> raw.numbers \cap c.without = {}]

EvaluateCase(c, raw) ==
  LET checks == Checks(c, raw)
  IN  [case |-> c, raw |-> raw, checks |-> checks,
       passed |-> \A check \in DOMAIN checks : checks[check],
       exact |-> /\ checks["required"] /\ checks["any"]
                 /\ Used(raw) \subseteq Required(c) \cup c.any]

-----------------------------------------------------------------------------
(* compute_metrics, fail_under_violations *)

\* FAIL_UNDER_THRESHOLDS, in percent.
FailUnder ==
  [routing |-> 90, required |-> 90, arguments |-> 85,
   illegal |-> 100, fallback |-> 100, grounded |-> 100]

\* The outcomes that a metric is the mean over.
Counts(metric, o) ==
  /\ metric \in DOMAIN o.checks
  /\ metric = "required" => Required(o.case) # {}
  /\ metric = "arguments" => DOMAIN o.case.args # {}
  /\ metric = "any" => o.case.any # {}

Counted(metric, os) == {k \in DOMAIN os : Counts(metric, os[k])}
Passing(metric, os) == {k \in Counted(metric, os) : os[k].checks[metric]}

\* round(passed / total, 4) < threshold: half of a ten-thousandth is forgiven.
Below(metric, os) ==
  LET n == Cardinality(Counted(metric, os))
  IN  Many * Cardinality(Passing(metric, os)) + n
        < (Many \div 100) * FailUnder[metric] * n

\* Mutant: a metric that no case contributes to is no violation.
Violations_NoneIsFine(os) == {m \in DOMAIN FailUnder : Below(m, os)}

Violations(os) ==
  {m \in DOMAIN FailUnder : Counted(m, os) = {} \/ Below(m, os)}

Summary(os) ==
  [passed |-> Cardinality({k \in DOMAIN os : os[k].passed}),
   exact |-> Cardinality({k \in DOMAIN os : os[k].exact}),
   failedIds |-> [category \in {os[k].case.category : k \in DOMAIN os} |->
     {os[k].case.id : k \in {i \in DOMAIN os :
                          os[i].case.category = category /\ ~os[i].passed}}]]

-----------------------------------------------------------------------------
(* run_main *)

Running == 3  \* no exit code yet

EvalInit ==
  /\ suite \in Suites
  /\ options \in [category : Categories \cup {"any"}, failUnder : BOOLEAN]
  /\ phase = "load" /\ todo = {}
  /\ outcomes = <<>> /\ report = Unset /\ exit = Running
  /\ question = suite.cases[1].question /\ broken = FALSE
  /\ plan = Unset /\ reply = Unset
  /\ pc = [a \in Adapter |-> "idle"]
  /\ runs = [a \in Adapter |-> <<>>]
  /\ result = [a \in Adapter |-> Unset]

\* A question set that is not valid, or a filter that matches no case: 2.
Load ==
  /\ phase = "load"
  /\ todo' = Chosen
  /\ IF ValidQuestions(suite.cases) /\ todo' # {}
       THEN phase' = "run" /\ UNCHANGED exit
       ELSE phase' = "end" /\ exit' = 2
  /\ UNCHANGED <<vars, suite, options, outcomes, report>>

\* run_single_case builds a client and an agent of its own for each case.
StartCase ==
  /\ phase = "run" /\ todo # {} /\ pc["direct"] = "idle"
  /\ question' = Current.question
  /\ plan' = Unset /\ reply' = Unset
  /\ pc' = [a \in Adapter |-> "route"]
  /\ runs' = [a \in Adapter |-> <<>>]
  /\ result' = [a \in Adapter |-> Unset]
  /\ UNCHANGED <<broken, evalVars>>

\* MockToolClient replies what the case says.
AgentStep ==
  /\ phase = "run" /\ Step("direct")
  /\ plan' \in {Unset, Current.plan} /\ reply' \in {Unset, Current.answer}
  /\ UNCHANGED evalVars

\* Whatever a case does, its outcome is recorded and the next one starts.
Record ==
  /\ phase = "run" /\ pc["direct"] \in {"done", "crashed"}
  /\ outcomes' = Append(outcomes, EvaluateCase(Current, Raw))
  /\ todo' = todo \ {First(todo)}
  /\ pc' = [a \in Adapter |-> "idle"]
  /\ UNCHANGED <<question, broken, plan, reply, runs, result,
                 suite, options, phase, report, exit>>

Finish ==
  /\ phase = "run" /\ todo = {}
  /\ phase' = "end"
  /\ report' = Summary(outcomes)
  /\ exit' = IF options.failUnder /\ Violations(outcomes) # {} THEN 1 ELSE 0
  /\ UNCHANGED <<vars, suite, options, todo, outcomes>>

EvalNext == Load \/ StartCase \/ AgentStep \/ Record \/ Finish

EvalSpec == EvalInit /\ [][EvalNext]_allVars

-----------------------------------------------------------------------------
(* Properties *)

(***************************************************************************)
(* What a pass of the CI gate is worth: each mechanism was exercised, by   *)
(* every chosen case; no tool off the list ran; a model that was down or   *)
(* asked for nonsense was replaced by the rules; and no answer that the    *)
(* question set calls made up got through with a number in it.  The gate   *)
(* judges rates, so that one routing or argument error of ten may pass.    *)
(***************************************************************************)
GateIsSound ==
  exit = 0 /\ options.failUnder =>
    /\ Len(outcomes) = Cardinality(Chosen)
    /\ \A m \in DOMAIN FailUnder : Counted(m, outcomes) # {}
    /\ \A k \in DOMAIN outcomes :
         LET c   == outcomes[k].case
             raw == outcomes[k].raw
         IN  /\ c.illegal => Illegal(raw) \cap Successful(raw.runs) = {}
             /\ c.category = "degradation" => raw.routing = "rule_fallback"
             /\ c.grounded = "must_fail" => raw.numbers = {}

(***************************************************************************)
(* The gate lets the shipped question set pass, each of its cases: the     *)
(* agent's order of checks gives an answer with an absolute claim another  *)
(* reason than one with a made-up number, and three calls are not cut off. *)
(***************************************************************************)
ShippedPasses ==
  phase = "end" /\ suite.shipped /\ options.category = "any" =>
    exit = 0 /\ report.passed = Len(suite.cases)
=============================================================================
