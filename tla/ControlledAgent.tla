-------------------------- MODULE ControlledAgent --------------------------
(***************************************************************************)
(* ControlledToolCallingAgent.run: one question is routed to a rule or to  *)
(* the model; the model plans tool calls, ToolExecutor runs them, the      *)
(* model writes an answer, and the answer is validated or replaced by the  *)
(* rule workflow.  The model is the environment: it may reply anything in  *)
(* Plans and Answers.  Both adapters (direct, langchain) meet the same     *)
(* question and the same replies, so that they can be compared.            *)
(***************************************************************************)
EXTENDS Naturals, Sequences, FiniteSets

CONSTANTS
  Adapter,    \* the adapters to run, of {"direct", "langchain"}
  CallId,     \* ids a tool call may carry
  GenId,      \* GenId[k]: "call_k", the id given to a k-th call without one
  NoId,
  Number,     \* numbers in texts
  Output,     \* Output[t]: the numbers in what tool t returns
  IdNumbers,  \* IdNumbers[c]: the numbers NUMBER_PATTERN finds in the id c
  Questions, Plans, Answers,
  Argument,   \* keys of tool arguments with their values
  MaxToolCalls  \* settings.llm_max_tool_calls

-----------------------------------------------------------------------------
(* intent_router, tool_definitions *)

Rules == <<"report_generation", "product_suggestion", "risk_review_analysis",
           "version_analysis", "trend_analysis", "positive_review_analysis",
           "negative_review_analysis">>
Intents == {Rules[i] : i \in DOMAIN Rules}

FastTool ==
  [negative_review_analysis |-> "analyze_negative_reviews",
   risk_review_analysis     |-> "find_high_risk_reviews",
   positive_review_analysis |-> "analyze_positive_reviews",
   version_analysis         |-> "compare_versions",
   trend_analysis           |-> "analyze_sentiment_trend",
   general_analysis         |-> "get_review_metrics"]

Tool == {FastTool[i] : i \in DOMAIN FastTool}
          \cup {"calculate_issue_priority", "retrieve_representative_reviews"}

(***************************************************************************)
(* A question is what the router sees of it: whether it asks for something *)
(* reviews cannot answer, the rules whose keywords occur, and whether it   *)
(* has a keyword of a complex request, of a plain metric, or is short.     *)
(***************************************************************************)
Question ==
  {q \in [answerable : BOOLEAN, rules : SUBSET Intents, complex : BOOLEAN,
          metric : BOOLEAN, short : BOOLEAN] :
     "report_generation" \in q.rules => q.complex}

(***************************************************************************)
(* What a requested call is: valid; "invalid" if its tool's schema rejects *)
(* the arguments; "malformed" if their text is no JSON, and "list" if it   *)
(* is, but of no object; and "junk" if the call itself is no object.       *)
(***************************************************************************)
Form == {"valid", "invalid", "malformed", "list", "junk"}
RawCall == [id : CallId \cup {NoId}, name : Tool \cup {"unknown"},
            args : SUBSET Argument, form : Form]

\* Replies to the two requests.  error: timeout, refusal, malformed message.
\* "falsy" is null, "", 0 or {}; "other" is anything else that is no list.
PlanReply == [error : BOOLEAN, calls : Seq(RawCall)]
AnswerReply ==
  [error : BOOLEAN, answer : {"text", "number", "blank"},
   numbers : SUBSET Number, absolute : BOOLEAN,
   limitations : {"list", "falsy", "other"},
   idsType : {"list", "falsy", "other"}, ids : Seq(CallId)]

ASSUME AgentAssumption ==
  /\ Adapter \subseteq {"direct", "langchain"}
  /\ MaxToolCalls \in Nat
  /\ GenId \in [1..3 -> CallId] /\ NoId \notin CallId
  /\ Output \in [Tool -> SUBSET Number]
  /\ IdNumbers \in [CallId -> SUBSET Number]
  /\ Questions \subseteq Question
  /\ Plans \subseteq PlanReply
  /\ Answers \subseteq AnswerReply

VARIABLES
  question,   \* the question asked
  broken,     \* whether prepare_dashboard_data raises on these reviews
  plan,       \* what the model replied to the planning request, if asked
  reply,      \* what it replied to the synthesis request, if asked
  pc,         \* pc[a]: the next step of the run with adapter a
  runs,       \* runs[a]: the tool calls executed so far
  result      \* result[a]: the ControlledAgentResult

vars == <<question, broken, plan, reply, pc, runs, result>>

Unset == [unset |-> TRUE]

\* min(max(1, configured), 3), where zero means the default (three).
Limit == IF MaxToolCalls \in 1..3 THEN MaxToolCalls ELSE 3

DetectIntent(q) ==
  IF q.rules = {} THEN "general_analysis"
  ELSE LET i == CHOOSE i \in DOMAIN Rules :
                  /\ Rules[i] \in q.rules
                  /\ \A j \in 1..(i-1) : Rules[j] \notin q.rules
       IN  Rules[i]

IsFastRule(q) ==
  /\ ~q.complex
  /\ \/ Cardinality(q.rules) = 1 /\ DetectIntent(q) \in DOMAIN FastTool
     \/ q.rules = {} /\ (q.metric \/ q.short)

-----------------------------------------------------------------------------
(* ToolExecutor.execute *)

Status(name, form) ==
  IF name \notin Tool THEN "rejected"
  ELSE IF form # "valid" \/ broken THEN "failed" ELSE "success"

\* The arguments are parsed after the tool was found on the list.
Run(id, name, args, form) ==
  [id |-> id, name |-> name, status |-> Status(name, form),
   args |-> IF name \in Tool /\ form \in {"valid", "invalid"} THEN args ELSE {}]

Successful(ex) == {k \in DOMAIN ex : ex[k].status = "success"}
IdsOf(ex, K) == {ex[k].id : k \in K}

\* {item.tool_call_id: item.output for item in successful}: the last call of
\* an id is the one that stays.
Evidence(ex) ==
  [c \in IdsOf(ex, Successful(ex)) |->
     LET K == {k \in Successful(ex) : ex[k].id = c}
     IN  CHOOSE k \in K : \A j \in K : j <= k]

-----------------------------------------------------------------------------
(***************************************************************************)
(* Results.  evidence maps an id to the index of its call.  Each warning   *)
(* stands for a text; all but "over the limit" say that the run fell back. *)
(***************************************************************************)

Downgrades ==
  {"rule tool failed", "planning failed", "no tool selected", "no tool succeeded",
   "claim not supported", "answer not valid"}
NoEvidence == [c \in {} |-> 0]

RuleResult(q, ex) ==
  [routing |-> "rule", intent |-> DetectIntent(q), runs |-> ex,
   evidence |-> Evidence(ex), ids |-> {"rule_1"}, numbers |-> {},
   warnings |-> {}]

\* Mutant: the fallback drops the traces and warnings collected so far.
Fallback_Forgets(q, ex, ids, warnings) ==
  [routing |-> "rule_fallback", intent |-> DetectIntent(q), runs |-> <<>>,
   evidence |-> NoEvidence, ids |-> ids, numbers |-> {},
   warnings |-> warnings \cap Downgrades]

\* run_agent, which routes its question again; it reports reviews that cannot
\* be prepared where the tools raise.
Fallback(q, ex, ids, warnings) ==
  [routing |-> "rule_fallback", intent |-> DetectIntent(q), runs |-> ex,
   evidence |-> NoEvidence, ids |-> ids, numbers |-> {},
   warnings |-> warnings]

ModelResult(q, ex, ids, numbers, warnings) ==
  [routing |-> "tool_calling", intent |-> DetectIntent(q), runs |-> ex,
   evidence |-> Evidence(ex), ids |-> ids, numbers |-> numbers,
   warnings |-> warnings]

\* The question the fallback of an unanswerable one is run with.
Answerability ==
  [answerable |-> TRUE, rules |-> {}, complex |-> FALSE, metric |-> FALSE,
   short |-> TRUE]

Done(a, r) ==
  /\ pc' = [pc EXCEPT ![a] = "done"]
  /\ result' = [result EXCEPT ![a] = r]

Init ==
  /\ question \in Questions
  /\ broken \in BOOLEAN
  /\ plan = Unset /\ reply = Unset
  /\ pc = [a \in Adapter |-> "route"]
  /\ runs = [a \in Adapter |-> <<>>]
  /\ result = [a \in Adapter |-> Unset]

-----------------------------------------------------------------------------
(* The two rule paths: one tool call, no model *)

RuleRun(q) == Run("rule_1", FastTool[DetectIntent(q)], {}, "valid")

\* _run_unsupported_inference: the tool of the intent, or of the general one.
RunUnsupported(a) ==
  /\ pc[a] = "route" /\ ~question.answerable
  /\ LET i  == DetectIntent(question)
         ex == <<Run("rule_1", FastTool[IF i \in DOMAIN FastTool THEN i
                                        ELSE "general_analysis"], {}, "valid")>>
     IN  /\ runs' = [runs EXCEPT ![a] = ex]
         /\ Done(a, IF Successful(ex) # {} THEN RuleResult(question, ex)
                    ELSE Fallback(Answerability, ex, {}, {"rule tool failed"}))
  /\ UNCHANGED <<question, broken, plan, reply>>

RunFastRule(a) ==
  /\ pc[a] = "route" /\ question.answerable /\ IsFastRule(question)
  /\ LET ex == <<RuleRun(question)>>
     IN  /\ runs' = [runs EXCEPT ![a] = ex]
         /\ Done(a, IF Successful(ex) # {} THEN RuleResult(question, ex)
                    ELSE Fallback(question, ex, {}, {"rule tool failed"}))
  /\ UNCHANGED <<question, broken, plan, reply>>

\* A complex question goes to the model.
AskModel(a) ==
  /\ pc[a] = "route" /\ question.answerable /\ ~IsFastRule(question)
  /\ pc' = [pc EXCEPT ![a] = "plan"]
  /\ UNCHANGED <<question, broken, plan, reply, runs, result>>

-----------------------------------------------------------------------------
(* plan_tools *)

Has(m, forms) == \E k \in DOMAIN m.calls : m.calls[k].form \in forms

\* AgentPlan takes objects only; the orchestrator does not catch its error.
Raises(a, m) == a = "direct" /\ Has(m, {"junk"})

\* LangChain's messages take calls with objects for arguments only.
PlanFails(a, m) == m.error \/ (a = "langchain" /\ Has(m, {"junk", "list"}))

\* Mutant: LangChain's list of calls has only the ones it was made for.
Calls_Listed(a, m) ==
  {k \in DOMAIN m.calls : a = "langchain" => m.calls[k].name \in Tool}

\* The calls that reach the orchestrator: LangChain puts one whose arguments
\* are no JSON into invalid_tool_calls, and its adapter reads tool_calls.
Calls(a, m) ==
  {k \in DOMAIN m.calls : a = "langchain" => m.calls[k].form # "malformed"}

PlanWarning(a, m) ==
  IF PlanFails(a, m) THEN {"planning failed"} ELSE {"no tool selected"}

Planned(m) == plan \in {Unset, m} /\ plan' = m

PlanTools(a) ==
  /\ pc[a] = "plan"
  /\ \E m \in Plans :
       /\ Planned(m)
       /\ IF PlanFails(a, m) \/ Calls(a, m) = {}
            THEN Done(a, Fallback(question, <<>>, {}, PlanWarning(a, m)))
          ELSE /\ pc' = [pc EXCEPT ![a] = IF Raises(a, m) THEN "crashed"
                                                         ELSE "execute"]
               /\ UNCHANGED result
  /\ UNCHANGED <<question, broken, reply, runs>>

-----------------------------------------------------------------------------
(* The selected calls, in order *)

Selected(a, m) ==
  IF Cardinality(Calls(a, m)) > Limit THEN Limit ELSE Cardinality(Calls(a, m))

OverLimit(a, m) ==
  IF Cardinality(Calls(a, m)) > Limit THEN {"over the limit"} ELSE {}

\* The position of the call k among those that reach the orchestrator.
Place(a, m, k) == Cardinality({j \in Calls(a, m) : j <= k})

\* _execute_model_call
ExecuteNext(a) ==
  /\ pc[a] = "execute" /\ Len(runs[a]) < Selected(a, plan)
  /\ \E k \in Calls(a, plan) :
       LET c == plan.calls[k]
           n == Place(a, plan, k)
       IN  /\ n = Len(runs[a]) + 1
           /\ runs' = [runs EXCEPT ![a] =
                         Append(@, Run(IF c.id = NoId THEN GenId[n] ELSE c.id,
                                       c.name, c.args, c.form))]
  /\ UNCHANGED <<question, broken, plan, reply, pc, result>>

Executed(a) ==
  /\ pc[a] = "execute" /\ Len(runs[a]) = Selected(a, plan)
  /\ IF Successful(runs[a]) = {}
       THEN Done(a, Fallback(question, runs[a], {},
                          OverLimit(a, plan) \cup {"no tool succeeded"}))
       ELSE /\ pc' = [pc EXCEPT ![a] = "synthesize"]
            /\ UNCHANGED result
  /\ UNCHANGED <<question, broken, plan, reply, runs>>

-----------------------------------------------------------------------------
(* synthesize, _normalize_synthesis and the validations *)

AsSet(s) == {s[k] : k \in DOMAIN s}

\* DeepSeekToolClient.synthesize is strict about types and checks the ids.
DirectAnswer(m, ex) ==
  /\ ~m.error /\ m.answer = "text" /\ m.limitations = "list"
  /\ m.idsType = "list"
  /\ AsSet(m.ids) \subseteq IdsOf(ex, DOMAIN ex)

\* LangChain's _parse_answer converts: str(answer), and "or []" for the lists.
LangChainAnswer(m) ==
  /\ ~m.error /\ m.answer # "blank" /\ m.limitations # "other"
  /\ m.idsType # "other"

Synthesized(a, m, ex) ==
  IF a = "direct" THEN DirectAnswer(m, ex) ELSE LangChainAnswer(m)

ClaimedIds(m) == IF m.idsType = "falsy" THEN {} ELSE AsSet(m.ids)

\* Numbers are looked for in the JSON text of evidence, keys included.
Grounded(m, ex) ==
  m.numbers \subseteq
    UNION {Output[ex[Evidence(ex)[c]].name] \cup IdNumbers[c] :
             c \in DOMAIN Evidence(ex)}

\* Mutant: any executed call may be claimed.
ValidIds_AnyCall(m, ex) == ClaimedIds(m) \subseteq IdsOf(ex, DOMAIN ex)

ValidIds(m, ex) == ClaimedIds(m) \subseteq IdsOf(ex, Successful(ex))

FallbackIds(ex) == IdsOf(ex, Successful(ex))

Accepted(a, m, ex) ==
  Synthesized(a, m, ex) /\ Grounded(m, ex) /\ ~m.absolute /\ ValidIds(m, ex)

\* Mutant: an unsupported claim is one more ValueError.
Objection_Value(a, m, ex) == "answer not valid"

\* What the fallback says: the checks run in this order.
Objection(a, m, ex) ==
  IF Synthesized(a, m, ex) /\ Grounded(m, ex) /\ m.absolute
    THEN "claim not supported" ELSE "answer not valid"

Synthesize(a) ==
  /\ pc[a] = "synthesize"
  /\ \E m \in Answers :
       /\ reply \in {Unset, m} /\ reply' = m
       /\ LET ex == runs[a]
          IN  Done(a, IF Accepted(a, m, ex)
                        THEN ModelResult(question, ex, ClaimedIds(m),
                                         m.numbers, OverLimit(a, plan))
                        ELSE Fallback(question, ex, FallbackIds(ex),
                               OverLimit(a, plan) \cup {Objection(a, m, ex)}))
  /\ UNCHANGED <<question, broken, plan, runs>>

Step(a) ==
  \/ RunUnsupported(a) \/ RunFastRule(a) \/ AskModel(a) \/ PlanTools(a)
  \/ ExecuteNext(a) \/ Executed(a) \/ Synthesize(a)

Next == \E a \in Adapter : Step(a)

Spec == Init /\ [][Next]_vars

-----------------------------------------------------------------------------
(* Properties *)

Answered(a) == pc[a] = "done"
By(a, routing) == Answered(a) /\ result[a].routing = routing

(***************************************************************************)
(* The two adapters' errors are all taken for recoverable failures of the  *)
(* model (tool_calling's _AdapterErrors): the agent answers every question,*)
(* whatever the model replies.  One reply it does not survive: a call that *)
(* is no object, with the Direct adapter.                                  *)
(***************************************************************************)
NeverCrashes == \A a \in Adapter : pc[a] # "crashed"

(***************************************************************************)
(* An answer names only calls that succeeded.  One of the model names only *)
(* calls whose output came with it as evidence, from a call of that very   *)
(* id, and every number in it is in the evidence; a fallback owes nothing  *)
(* to the model.                                                           *)
(***************************************************************************)
AnswerIsEvidenced ==
  \A a \in Adapter : Answered(a) =>
    LET r == result[a]
    IN  /\ r.ids \subseteq IdsOf(r.runs, Successful(r.runs))
        /\ By(a, "tool_calling") =>
             /\ \A c \in r.ids :
                  /\ c \in DOMAIN r.evidence
                  /\ r.runs[r.evidence[c]].id = c
                  /\ r.runs[r.evidence[c]].status = "success"
             /\ \A n \in r.numbers : \E c \in DOMAIN r.evidence :
                  n \in Output[r.runs[r.evidence[c]].name] \cup IdNumbers[c]
        /\ By(a, "rule_fallback") => r.numbers = {} /\ r.evidence = NoEvidence

(***************************************************************************)
(* Nothing that was executed, or cut off, goes unreported, whichever way   *)
(* the run ended: the result has the trace of every call, never more than  *)
(* three, and a warning if the adapter had handed over more than were run. *)
(***************************************************************************)
RunsAreReported ==
  \A a \in Adapter : Answered(a) =>
    /\ result[a].runs = runs[a] /\ Len(runs[a]) <= 3
    /\ runs[a] # <<>> /\ plan # Unset
         => ("over the limit" \in result[a].warnings
                <=> Len(runs[a]) < Cardinality(Calls(a, plan)))

(***************************************************************************)
(* "The same contract as Direct" (LangChainDeepSeekAdapter): to the same   *)
(* question and replies both adapters lead to the same result, apart from  *)
(* the reason that a fallback gives: Direct looks at the cited ids before  *)
(* the claims, the orchestrator after them.  They do not: a call with      *)
(* arguments that are no JSON is a failed call with Direct, and with       *)
(* LangChain it is none, nor does its answer need the prompt's types.      *)
(***************************************************************************)
Said(r) == [r EXCEPT !.warnings = @ \ Downgrades]

AdaptersAgree ==
  \A a, b \in Adapter :
    Answered(a) /\ Answered(b) => Said(result[a]) = Said(result[b])

\* A plan and an answer with the JSON types that the requests ask for.
TypedPlan(m) == ~Has(m, {"malformed", "list", "junk"})
TypedAnswer(m) ==
  m.answer # "number" /\ m.limitations # "falsy" /\ m.idsType # "falsy"

(***************************************************************************)
(* They do agree on replies of the right JSON types: objects for calls and *)
(* for their arguments, a text and lists in the answer.  Which tools these *)
(* name, whether a tool takes the arguments, how many calls there are, how *)
(* their ids clash, and what the answer says or cites makes no difference. *)
(***************************************************************************)
AdaptersAgreeOnTypedReplies ==
  (plan # Unset => TypedPlan(plan)) /\ (reply # Unset => TypedAnswer(reply))
    => AdaptersAgree
=============================================================================
