------------------------ MODULE ControlledAgentProofs ------------------------
(***************************************************************************)
(* What the agent answers and reports, that both adapters lead to the same *)
(* answer, and what a pass of the evaluation gate is worth, whatever the   *)
(* tools, questions, replies and question sets are.                        *)
(***************************************************************************)
EXTENDS Evaluation, TLAPS, FiniteSetTheorems, WellFoundedInduction,
        NaturalsInduction

USE AgentAssumption

\* What happened to one executed call.
Trace == [id : CallId \cup {"rule_1"}, name : Tool \cup {"unknown"},
          status : {"rejected", "failed", "success"}, args : SUBSET Argument]

AgentTypes ==
  /\ question \in Question /\ broken \in BOOLEAN
  /\ plan \in Plans \cup {Unset} /\ reply \in Answers \cup {Unset}
  /\ pc \in [Adapter -> {"idle", "route", "plan", "execute", "synthesize",
                         "done", "crashed"}]
  /\ runs \in [Adapter -> Seq(Trace)]
  /\ result = [a \in Adapter |-> result[a]]

-----------------------------------------------------------------------------
(***************************************************************************)
(* Which calls a run has executed, and what it ends with.  Both are the    *)
(* same for the two adapters, but for the answer an adapter accepts.       *)
(***************************************************************************)
ToModel == question.answerable /\ ~IsFastRule(question)

RuleCall ==
  Run("rule_1", FastTool[IF DetectIntent(question) \in DOMAIN FastTool
                           THEN DetectIntent(question)
                           ELSE "general_analysis"], {}, "valid")

\* The run of the call k of the plan, as the n-th one.
PlannedCall(n, k) ==
  LET c == plan.calls[k]
  IN  Run(IF c.id = NoId THEN GenId[n] ELSE c.id, c.name, c.args, c.form)

\* A run whose plan was taken; a finished one executed all of it.
FollowsPlan(a) ==
  /\ plan \in Plans /\ ToModel
  /\ ~PlanFails(a, plan) /\ ~Raises(a, plan) /\ Calls(a, plan) # {}
  /\ Len(runs[a]) <= Selected(a, plan)
  /\ \A n \in 1..Len(runs[a]) :
       \E k \in Calls(a, plan) :
         Place(a, plan, k) = n /\ runs[a][n] = PlannedCall(n, k)
  /\ pc[a] # "execute" => Len(runs[a]) = Selected(a, plan)

\* The reason that a fallback gives.
Reason(a) ==
  IF ~ToModel THEN {"rule tool failed"}
  ELSE IF runs[a] = <<>> THEN PlanWarning(a, plan)
  ELSE IF Successful(runs[a]) = {} THEN {"no tool succeeded"}
  ELSE {Objection(a, reply, runs[a])}

Ending(a, w) ==
  IF ~ToModel
    THEN IF Successful(runs[a]) # {} THEN RuleResult(question, runs[a])
         ELSE Fallback(IF question.answerable THEN question ELSE Answerability,
                       runs[a], {}, w)
  ELSE IF Successful(runs[a]) # {} /\ Accepted(a, reply, runs[a])
    THEN ModelResult(question, runs[a], ClaimedIds(reply), reply.numbers,
                     OverLimit(a, plan))
  ELSE Fallback(question, runs[a], FallbackIds(runs[a]),
                (IF runs[a] = <<>> THEN {} ELSE OverLimit(a, plan)) \cup w)

Finished(a) ==
  /\ IF ~ToModel THEN runs[a] = <<RuleCall>>
     ELSE IF runs[a] = <<>>
            THEN plan \in Plans /\ (PlanFails(a, plan) \/ Calls(a, plan) = {})
            ELSE /\ FollowsPlan(a)
                 /\ Successful(runs[a]) # {} => reply \in Answers
  /\ result[a] = Ending(a, Reason(a))

\* What only the Direct adapter lets out, and why.
Crashed(a) == a = "direct" /\ plan \in Plans /\ Has(plan, {"junk"})

Progress(a) ==
  /\ pc[a] \in {"route", "plan"} => runs[a] = <<>>
  /\ pc[a] = "plan" => ToModel
  /\ pc[a] \in {"execute", "synthesize"} => FollowsPlan(a)
  /\ pc[a] = "synthesize" => Successful(runs[a]) # {}
  /\ pc[a] = "done" => Finished(a)
  /\ pc[a] = "crashed" => Crashed(a)

AgentInv ==
  /\ AgentTypes
  /\ plan # Unset => ToModel
  /\ \A a \in Adapter : Progress(a)

-----------------------------------------------------------------------------
(* Facts about calls and results *)

LEMMA LimitIs == Limit \in 1..3
  BY DEF Limit

LEMMA UnsetIsNoReply == Unset \notin Plans /\ Unset \notin Answers
  <1>1. \A m \in PlanReply : DOMAIN m = {"error", "calls"}
    BY DEF PlanReply
  <1>2. \A m \in AnswerReply : "error" \in DOMAIN m
    BY DEF AnswerReply
  <1>3. DOMAIN Unset = {"unset"}
    BY DEF Unset
  <1> QED
    BY <1>1, <1>2, <1>3

LEMMA Interval ==
  ASSUME NEW n \in Nat
  PROVE  /\ IsFiniteSet(1..n) /\ Cardinality(1..n) = n
         /\ \A T \in SUBSET (1..n) : IsFiniteSet(T) /\ Cardinality(T) <= n
  <1>1. IsFiniteSet(1..n) /\ Cardinality(1..n) = IF 1 > n THEN 0 ELSE n - 1 + 1
    BY FS_Interval
  <1>2. Cardinality(1..n) = n
    BY <1>1
  <1> DEFINE S == 1..n
  <1>3. ASSUME NEW T \in SUBSET S
        PROVE  IsFiniteSet(T) /\ Cardinality(T) <= n
    <2> HIDE DEF S
    <2>1. IsFiniteSet(S) /\ Cardinality(S) = n
      BY <1>1, <1>2 DEF S
    <2> QED
      BY <2>1, FS_Subset
  <1> QED
    BY <1>1, <1>2, <1>3

LEMMA SelectedIs ==
  ASSUME NEW m \in Plans, NEW a
  PROVE  /\ m.calls \in Seq(RawCall) /\ Calls(a, m) \subseteq DOMAIN m.calls
         /\ Cardinality(Calls(a, m)) \in Nat
         /\ Selected(a, m) \in Nat /\ Selected(a, m) <= 3
         /\ Selected(a, m) <= Cardinality(Calls(a, m))
         /\ Calls(a, m) # {} => Selected(a, m) > 0
  <1>1. m.calls \in Seq(RawCall)
    BY DEF PlanReply
  <1>2. Calls(a, m) \subseteq DOMAIN m.calls
    BY DEF Calls
  <1>3. IsFiniteSet(Calls(a, m))
    <2>1. DOMAIN m.calls = 1..Len(m.calls) /\ Len(m.calls) \in Nat
      BY <1>1
    <2>2. IsFiniteSet(1..Len(m.calls))
      BY <2>1, FS_Interval
    <2> QED
      BY <1>2, <2>1, <2>2, FS_Subset
  <1>4. /\ Cardinality(Calls(a, m)) \in Nat
        /\ Calls(a, m) # {} => Cardinality(Calls(a, m)) > 0
    BY <1>3, FS_CardinalityType, FS_EmptySet
  <1>5. /\ Selected(a, m) \in Nat /\ Selected(a, m) <= 3
        /\ Selected(a, m) <= Cardinality(Calls(a, m))
        /\ Cardinality(Calls(a, m)) > 0 => Selected(a, m) > 0
    <2> DEFINE n == Cardinality(Calls(a, m))
    <2>1. n \in Nat /\ Selected(a, m) = IF n > Limit THEN Limit ELSE n
      BY <1>4 DEF Selected
    <2> HIDE DEF n
    <2>2. /\ Selected(a, m) \in Nat /\ Selected(a, m) <= 3 /\ Selected(a, m) <= n
          /\ n > 0 => Selected(a, m) > 0
      BY <2>1, LimitIs
    <2> QED
      BY <2>2 DEF n
  <1> QED
    BY <1>1, <1>2, <1>4, <1>5

LEMMA OverLimitIs ==
  ASSUME NEW m \in Plans, NEW a
  PROVE  "over the limit" \in OverLimit(a, m)
           <=> Selected(a, m) < Cardinality(Calls(a, m))
  <1> DEFINE n == Cardinality(Calls(a, m))
  <1>1. n \in Nat
    BY SelectedIs
  <1>2. Selected(a, m) = IF n > Limit THEN Limit ELSE n
    BY DEF Selected
  <1>3. "over the limit" \in OverLimit(a, m) <=> n > Limit
    BY DEF OverLimit
  <1> HIDE DEF n
  <1>4. n > Limit <=> Selected(a, m) < n
    BY <1>1, <1>2, LimitIs
  <1> QED
    BY <1>3, <1>4 DEF n

LEMMA RunIsTrace ==
  ASSUME broken \in BOOLEAN, NEW id \in CallId \cup {"rule_1"},
         NEW name \in Tool \cup {"unknown"}, NEW args \in SUBSET Argument,
         NEW form \in Form
  PROVE  /\ Run(id, name, args, form) \in Trace
         /\ Run(id, name, args, form).id = id
  BY DEF Run, Status, Trace

LEMMA RuleCallIsTrace ==
  AgentTypes => RuleCall \in Trace /\ RuleCall.id = "rule_1"
  <1> SUFFICES ASSUME AgentTypes
               PROVE  RuleCall \in Trace /\ RuleCall.id = "rule_1"
    OBVIOUS
  <1>1. "general_analysis" \in DOMAIN FastTool
    BY DEF FastTool
  <1>2. \A i \in DOMAIN FastTool : FastTool[i] \in Tool
    BY DEF Tool
  <1>3. "valid" \in Form /\ {} \in SUBSET Argument /\ broken \in BOOLEAN
    BY DEF Form, AgentTypes
  <1> DEFINE t == FastTool[IF DetectIntent(question) \in DOMAIN FastTool
                             THEN DetectIntent(question) ELSE "general_analysis"]
  <1>4. t \in Tool \cup {"unknown"}
    BY <1>1, <1>2
  <1> HIDE DEF t
  <1>5. /\ Run("rule_1", t, {}, "valid") \in Trace
        /\ Run("rule_1", t, {}, "valid").id = "rule_1"
    BY <1>3, <1>4, RunIsTrace
  <1> QED
    BY <1>5 DEF RuleCall, t

LEMMA MaxExists ==
  ASSUME NEW K \in SUBSET (1..3), K # {}
  PROVE  \E k \in K : \A j \in K : j <= k
  <1>1. CASE 3 \in K
    BY <1>1
  <1>2. CASE 3 \notin K /\ 2 \in K
    BY <1>2
  <1>3. CASE 3 \notin K /\ 2 \notin K
    <2>1. \A j \in K : j = 1
      BY <1>3
    <2>2. PICK k \in K : TRUE
      OBVIOUS
    <2> QED
      BY <2>1, <2>2
  <1> QED
    BY <1>1, <1>2, <1>3

\* The evidence of an id is the output of a call of that id that succeeded.
LEMMA EvidenceOf ==
  ASSUME NEW ex \in Seq(Trace), Len(ex) <= 3
  PROVE  /\ DOMAIN Evidence(ex) = IdsOf(ex, Successful(ex))
         /\ \A c \in DOMAIN Evidence(ex) :
              /\ Evidence(ex)[c] \in Successful(ex)
              /\ ex[Evidence(ex)[c]].id = c
  <1>1. DOMAIN Evidence(ex) = IdsOf(ex, Successful(ex))
    BY DEF Evidence
  <1>2. ASSUME NEW c \in IdsOf(ex, Successful(ex))
        PROVE  /\ Evidence(ex)[c] \in Successful(ex)
               /\ ex[Evidence(ex)[c]].id = c
    <2> DEFINE K == {k \in Successful(ex) : ex[k].id = c}
    <2>1. K # {}
      BY DEF IdsOf
    <2>2. K \in SUBSET (1..3)
      BY DEF Successful
    <2>3. \E k \in K : \A j \in K : j <= k
      BY <2>1, <2>2, MaxExists
    <2>4. Evidence(ex)[c] = CHOOSE k \in K : \A j \in K : j <= k
      BY DEF Evidence
    <2>5. Evidence(ex)[c] \in K
      BY <2>3, <2>4
    <2> QED
      BY <2>5
  <1> QED
    BY <1>1, <1>2

\* What is left of a record without the warnings that tell of a fallback.
LEMMA SaidIs ==
  ASSUME NEW r, NEW t,
         r = [f \in DOMAIN r |-> r[f]], t = [f \in DOMAIN t |-> t[f]],
         DOMAIN r = DOMAIN t, "warnings" \in DOMAIN r,
         t.warnings = r.warnings \ Downgrades,
         \A f \in DOMAIN r : f # "warnings" => t[f] = r[f]
  PROVE  Said(r) = t
  <1>1. DOMAIN Said(r) = DOMAIN t
    BY DEF Said
  <1>2. \A f \in DOMAIN t : Said(r)[f] = t[f]
    BY DEF Said
  <1>3. Said(r) = [f \in DOMAIN Said(r) |-> Said(r)[f]]
    BY DEF Said
  <1> QED
    BY <1>1, <1>2, <1>3, Zenon

LEMMA SaidFallback ==
  ASSUME NEW q, NEW ex, NEW ids, NEW u
  PROVE  Said(Fallback(q, ex, ids, u)) = Fallback(q, ex, ids, u \ Downgrades)
  <1> DEFINE r == Fallback(q, ex, ids, u)
             t == Fallback(q, ex, ids, u \ Downgrades)
  <1>1. r = [f \in DOMAIN r |-> r[f]] /\ t = [f \in DOMAIN t |-> t[f]]
    BY DEF Fallback
  <1>2. DOMAIN r = DOMAIN t /\ "warnings" \in DOMAIN r
    BY DEF Fallback
  <1>3. t.warnings = r.warnings \ Downgrades
    BY DEF Fallback
  <1>4. \A f \in DOMAIN r : f # "warnings" => t[f] = r[f]
    BY DEF Fallback
  <1> HIDE DEF r, t
  <1>5. Said(r) = t
    BY <1>1, <1>2, <1>3, <1>4, SaidIs
  <1> QED
    BY <1>5 DEF r, t

LEMMA SaidModel ==
  ASSUME NEW q, NEW ex, NEW ids, NEW n, NEW u, u \cap Downgrades = {}
  PROVE  Said(ModelResult(q, ex, ids, n, u)) = ModelResult(q, ex, ids, n, u)
  <1> DEFINE r == ModelResult(q, ex, ids, n, u)
  <1>1. r = [f \in DOMAIN r |-> r[f]] /\ "warnings" \in DOMAIN r
    BY DEF ModelResult
  <1>2. r.warnings = r.warnings \ Downgrades
    BY DEF ModelResult
  <1> HIDE DEF r
  <1>3. Said(r) = r
    BY <1>1, <1>2, SaidIs
  <1> QED
    BY <1>3 DEF r

LEMMA SaidRule ==
  ASSUME NEW q, NEW ex
  PROVE  Said(RuleResult(q, ex)) = RuleResult(q, ex)
  <1> DEFINE r == RuleResult(q, ex)
  <1>1. r = [f \in DOMAIN r |-> r[f]] /\ "warnings" \in DOMAIN r
    BY DEF RuleResult
  <1>2. r.warnings = r.warnings \ Downgrades
    BY DEF RuleResult
  <1> HIDE DEF r
  <1>3. Said(r) = r
    BY <1>1, <1>2, SaidIs
  <1> QED
    BY <1>3 DEF r

\* Apart from its reason, a fallback's warnings are the same.
LEMMA SaidEnding ==
  ASSUME NEW a \in Adapter, NEW w \in SUBSET Downgrades
  PROVE  Said(Ending(a, w)) = Ending(a, {})
  <1>1. OverLimit(a, plan) \cap Downgrades = {}
    BY DEF OverLimit, Downgrades
  <1>2. /\ w \ Downgrades = {}
        /\ (OverLimit(a, plan) \cup w) \ Downgrades = OverLimit(a, plan) \cup {}
        /\ ({} \cup w) \ Downgrades = {} \cup {}
    BY <1>1
  <1>3. CASE ~ToModel
    BY <1>2, <1>3, SaidFallback, SaidRule DEF Ending
  <1>4. CASE ToModel
    BY <1>1, <1>2, <1>4, SaidFallback, SaidModel DEF Ending
  <1> QED
    BY <1>3, <1>4

LEMMA ReasonIs ==
  ASSUME NEW a PROVE Reason(a) \in SUBSET Downgrades /\ Reason(a) # {}
  BY DEF Reason, Downgrades, PlanWarning, Objection

-----------------------------------------------------------------------------
(* The steps *)

LEMMA AgentInit == Init => AgentInv
  <1> SUFFICES ASSUME Init PROVE AgentInv
    OBVIOUS
  <1>1. AgentTypes
    BY DEF Init, AgentTypes
  <1>2. plan = Unset /\ \A a \in Adapter : Progress(a)
    BY DEF Init, Progress
  <1> QED
    BY <1>1, <1>2 DEF AgentInv

LEMMA SameQuestion ==
  ASSUME UNCHANGED <<question, broken>>
  PROVE  /\ ToModel' <=> ToModel
         /\ RuleCall' = RuleCall
         /\ UNCHANGED plan => \A n, k : PlannedCall(n, k)' = PlannedCall(n, k)
  BY DEF ToModel, RuleCall, PlannedCall, Run, Status

LEMMA SameFollows ==
  ASSUME NEW b \in Adapter, UNCHANGED <<question, broken, plan>>,
         runs'[b] = runs[b], pc'[b] = pc[b], FollowsPlan(b)
  PROVE  FollowsPlan(b)'
  BY SameQuestion DEF FollowsPlan

\* A step of one adapter, and what it learns of the model, leaves the other
\* where it is.
LEMMA OtherKeeps ==
  ASSUME AgentInv, NEW b \in Adapter,
         UNCHANGED <<question, broken>>,
         pc'[b] = pc[b], runs'[b] = runs[b], result'[b] = result[b],
         plan' = plan \/ (plan = Unset /\ ToModel),
         reply' = reply \/ reply = Unset
  PROVE  Progress(b)'
  <1> USE DEF AgentInv
  <1>1. CASE pc[b] \in {"idle", "route", "plan"}
    BY <1>1, SameQuestion DEF Progress
  <1>4. CASE pc[b] = "crashed"
    BY <1>4, UnsetIsNoReply DEF Progress, Crashed
  <1>2. CASE pc[b] \in {"execute", "synthesize"}
    <2>1. FollowsPlan(b)'
      BY <1>2, UnsetIsNoReply, SameFollows DEF Progress, FollowsPlan
    <2>2. pc[b] = "synthesize" => (Successful(runs[b]) # {})'
      BY DEF Progress
    <2> QED
      BY <1>2, <2>1, <2>2 DEF Progress
  <1>3. CASE pc[b] = "done"
    <2>1. Finished(b)
      BY <1>3 DEF Progress
    <2>2. plan' = plan
      BY <2>1, UnsetIsNoReply DEF Finished, FollowsPlan
    <2>3. /\ ToModel' <=> ToModel
          /\ runs[b] # <<>> /\ ToModel => (FollowsPlan(b) /\ FollowsPlan(b)')
      BY <2>1, <2>2, SameQuestion, SameFollows DEF Finished
    <2>4. ToModel /\ Successful(runs[b]) # {} /\ runs[b] # <<>> => reply' = reply
      BY <2>1, UnsetIsNoReply DEF Finished
    <2>5. runs[b] = <<>> => Successful(runs[b]) = {}
      BY DEF Successful
    <2>6. Reason(b)' = Reason(b)
      BY <2>2, <2>3, <2>4, <2>5 DEF Reason
    <2>8. Ending(b, Reason(b))' = Ending(b, Reason(b))
      BY <2>2, <2>3, <2>4, <2>5, <2>6 DEF Ending
    <2>7. Finished(b)'
      BY <2>1, <2>2, <2>3, <2>4, <2>5, <2>8, SameQuestion DEF Finished
    <2> QED
      BY <1>3, <2>7 DEF Progress
  <1> QED
    BY <1>1, <1>2, <1>3, <1>4 DEF AgentTypes

\* What is the same for all steps of an adapter.
LEMMA StepIs ==
  ASSUME AgentInv, NEW a \in Adapter, AgentTypes', Progress(a)',
         UNCHANGED <<question, broken>>,
         plan' = plan \/ (plan = Unset /\ ToModel),
         reply' = reply \/ reply = Unset,
         \A b \in Adapter \ {a} : /\ pc'[b] = pc[b] /\ runs'[b] = runs[b]
                                  /\ result'[b] = result[b]
  PROVE  AgentInv'
  <1>1. \A b \in Adapter : Progress(b)'
    BY OtherKeeps
  <1>2. plan' # Unset => ToModel'
    BY SameQuestion DEF AgentInv
  <1> QED
    BY <1>1, <1>2 DEF AgentInv

\* A fast rule is one with a tool.
LEMMA FastRuleHasTool ==
  ASSUME NEW q, IsFastRule(q) PROVE DetectIntent(q) \in DOMAIN FastTool
  BY DEF IsFastRule, DetectIntent, FastTool

LEMMA RuleStep ==
  ASSUME AgentInv, NEW a \in Adapter, RunUnsupported(a) \/ RunFastRule(a)
  PROVE  AgentInv'
  <1> USE DEF AgentInv, AgentTypes
  <1>0. UNCHANGED <<question, broken, plan, reply>> /\ ~ToModel
    BY DEF RunUnsupported, RunFastRule, ToModel
  <1>1. CASE DetectIntent(question) \in DOMAIN FastTool \/ ~question.answerable
    <2> DEFINE ex == <<RuleCall>>
               end == IF Successful(ex) # {} THEN RuleResult(question, ex)
                      ELSE Fallback(IF question.answerable THEN question ELSE Answerability,
                                    ex, {}, {"rule tool failed"})
    <2>1. runs' = [runs EXCEPT ![a] = ex] /\ Done(a, end)
      BY <1>1 DEF RunUnsupported, RunFastRule, RuleRun, RuleCall
    <2>2. AgentTypes'
      <3>1. ex \in Seq(Trace)
        BY RuleCallIsTrace
      <3> HIDE DEF ex, end
      <3> QED
        BY <1>0, <2>1, <3>1 DEF Done
    <2>3. runs'[a] = ex /\ pc'[a] = "done" /\ result'[a] = end
      BY <2>1 DEF Done
    <2>4. result'[a] = Ending(a, Reason(a))'
      BY <1>0, <2>3, SameQuestion DEF Ending, Reason
    <2>5. Progress(a)'
      BY <1>0, <2>3, <2>4, SameQuestion DEF Progress, Finished
    <2>6. \A b \in Adapter \ {a} : /\ pc'[b] = pc[b] /\ runs'[b] = runs[b]
                                   /\ result'[b] = result[b]
      BY <2>1 DEF Done
    <2> QED
      BY <1>0, <2>2, <2>5, <2>6, StepIs
  <1>2. CASE DetectIntent(question) \notin DOMAIN FastTool /\ question.answerable
    BY <1>2, FastRuleHasTool DEF RunUnsupported, RunFastRule
  <1> QED
    BY <1>1, <1>2

LEMMA AskStep ==
  ASSUME AgentInv, NEW a \in Adapter, AskModel(a)
  PROVE  AgentInv'
  <1>1. AgentTypes'
    BY DEF AgentInv, AgentTypes, AskModel
  <1>2. Progress(a)'
    BY DEF AgentInv, AgentTypes, AskModel, Progress, ToModel
  <1> QED
    BY <1>1, <1>2, StepIs DEF AgentInv, AgentTypes, AskModel

LEMMA PlanStep ==
  ASSUME AgentInv, NEW a \in Adapter, PlanTools(a)
  PROVE  AgentInv'
  <1> USE DEF AgentInv, AgentTypes
  <1>1. PICK m \in Plans :
          /\ Planned(m)
          /\ IF PlanFails(a, m) \/ Calls(a, m) = {}
               THEN Done(a, Fallback(question, <<>>, {}, PlanWarning(a, m)))
             ELSE /\ pc' = [pc EXCEPT ![a] = IF Raises(a, m) THEN "crashed"
                                                            ELSE "execute"]
                  /\ UNCHANGED result
    BY DEF PlanTools
  <1>2. /\ UNCHANGED <<question, broken, reply, runs>> /\ plan' = m
        /\ plan' = plan \/ plan = Unset
        /\ ToModel /\ ToModel' /\ runs[a] = <<>> /\ Len(runs[a]) = 0
    BY <1>1, SameQuestion DEF PlanTools, Progress, Planned
  <1>3. AgentTypes'
    BY <1>1, <1>2 DEF Done
  <1>4. \A b \in Adapter \ {a} : /\ pc'[b] = pc[b] /\ runs'[b] = runs[b]
                                 /\ result'[b] = result[b]
    BY <1>1, <1>2 DEF Done
  <1>5. Progress(a)'
    <2>1. CASE PlanFails(a, m) \/ Calls(a, m) = {}
      <3>1. /\ pc'[a] = "done" /\ runs'[a] = <<>>
            /\ result'[a] = Fallback(question, <<>>, {}, PlanWarning(a, m))
        BY <1>1, <1>2, <2>1 DEF Done
      <3>2. Successful(<<>>) = {} /\ FallbackIds(<<>>) = {}
        BY DEF Successful, FallbackIds, IdsOf
      <3>3. Ending(a, Reason(a))' =
              Fallback(question, <<>>, {}, {} \cup PlanWarning(a, m))
        BY <1>2, <3>1, <3>2 DEF Ending, Reason
      <3>4. {} \cup PlanWarning(a, m) = PlanWarning(a, m)
        OBVIOUS
      <3>5. Finished(a)'
        BY <1>2, <2>1, <3>1, <3>3, <3>4 DEF Finished
      <3> QED
        BY <3>1, <3>5 DEF Progress
    <2>2. CASE ~PlanFails(a, m) /\ Calls(a, m) # {} /\ Raises(a, m)
      BY <1>1, <1>2, <2>2 DEF Progress, Crashed, Raises
    <2>3. CASE ~PlanFails(a, m) /\ Calls(a, m) # {} /\ ~Raises(a, m)
      <3>1. pc'[a] = "execute"
        BY <1>1, <2>3
      <3>2. FollowsPlan(a)'
        BY <1>2, <2>3, <3>1, SelectedIs DEF FollowsPlan
      <3> QED
        BY <3>1, <3>2 DEF Progress
    <2> QED
      BY <2>1, <2>2, <2>3
  <1> QED
    BY <1>2, <1>3, <1>4, <1>5, StepIs

LEMMA ExecuteStep ==
  ASSUME AgentInv, NEW a \in Adapter, ExecuteNext(a)
  PROVE  AgentInv'
  <1> USE DEF AgentInv, AgentTypes
  <1> DEFINE n == Len(runs[a]) + 1
  <1>1. PICK k \in Calls(a, plan) :
          /\ Place(a, plan, k) = n
          /\ runs' = [runs EXCEPT ![a] = Append(@, PlannedCall(n, k))]
    BY DEF ExecuteNext, PlannedCall
  <1>0. /\ UNCHANGED <<question, broken, plan, reply, pc, result>>
        /\ pc[a] = "execute" /\ Len(runs[a]) < Selected(a, plan)
    BY DEF ExecuteNext
  <1>2. FollowsPlan(a) /\ plan \in Plans
    BY <1>0 DEF Progress, FollowsPlan
  <1>3. n \in 1..3 /\ plan.calls[k] \in RawCall
    <2>1. k \in DOMAIN plan.calls /\ plan.calls \in Seq(RawCall)
      BY <1>2, SelectedIs
    <2> QED
      BY <1>0, <1>2, <2>1, SelectedIs
  <1>5. PlannedCall(n, k) \in Trace
    <2> DEFINE c == plan.calls[k]
               id == IF c.id = NoId THEN GenId[n] ELSE c.id
    <2>1. /\ c.id \in CallId \cup {NoId} /\ c.name \in Tool \cup {"unknown"}
          /\ c.args \in SUBSET Argument /\ c.form \in Form
      BY <1>3 DEF RawCall
    <2>2. id \in CallId \cup {"rule_1"}
      BY <1>3, <2>1
    <2>3. broken \in BOOLEAN
      OBVIOUS
    <2>4. Run(id, c.name, c.args, c.form) \in Trace
      <3> HIDE DEF id, c, AgentInv, AgentTypes
      <3> QED
        BY <2>1, <2>2, <2>3, RunIsTrace
    <2> QED
      BY <2>4 DEF PlannedCall
  <1>6. AgentTypes'
    BY <1>0, <1>1, <1>5
  <1>7. /\ runs[a] \in Seq(Trace) /\ runs'[a] = Append(runs[a], PlannedCall(n, k))
        /\ Len(runs'[a]) = n /\ runs'[a][n] = PlannedCall(n, k)
        /\ \A j \in 1..Len(runs[a]) : runs'[a][j] = runs[a][j]
    BY <1>1, <1>5
  <1>8. FollowsPlan(a)'
    <2>1. ASSUME NEW j \in 1..Len(runs'[a])
          PROVE  \E i \in Calls(a, plan) :
                   Place(a, plan, i) = j /\ runs'[a][j] = PlannedCall(j, i)
      <3>1. CASE j = n
        BY <1>1, <1>7, <3>1
      <3>2. CASE j # n
        <4>1. j \in 1..Len(runs[a])
          BY <1>7, <3>2
        <4> QED
          BY <1>2, <1>7, <4>1 DEF FollowsPlan
      <3> QED
        BY <3>1, <3>2
    <2>2. Len(runs'[a]) <= Selected(a, plan)
      BY <1>0, <1>2, <1>7, SelectedIs
    <2>3. /\ ToModel' <=> ToModel
          /\ \A j, i : PlannedCall(j, i)' = PlannedCall(j, i)
      BY <1>0, SameQuestion
    <2> HIDE DEF n
    <2> QED
      BY <1>0, <1>2, <2>1, <2>2, <2>3 DEF FollowsPlan
  <1>9. Progress(a)'
    BY <1>0, <1>8 DEF Progress
  <1>10. \A b \in Adapter \ {a} : /\ pc'[b] = pc[b] /\ runs'[b] = runs[b]
                                 /\ result'[b] = result[b]
    BY <1>0, <1>1
  <1> QED
    BY <1>0, <1>6, <1>9, <1>10, StepIs

LEMMA ExecutedStep ==
  ASSUME AgentInv, NEW a \in Adapter, Executed(a)
  PROVE  AgentInv'
  <1> USE DEF AgentInv, AgentTypes
  <1>1. /\ UNCHANGED <<question, broken, plan, reply, runs>>
        /\ pc[a] = "execute" /\ Len(runs[a]) = Selected(a, plan)
    BY DEF Executed
  <1>2. FollowsPlan(a) /\ plan \in Plans /\ ToModel /\ ToModel'
        /\ Calls(a, plan) # {}
    BY <1>1, SameQuestion DEF Progress, FollowsPlan
  <1>3. runs[a] # <<>> /\ Len(runs[a]) > 0
    BY <1>1, <1>2, SelectedIs
  <1>4. AgentTypes'
    BY <1>1 DEF Executed, Done
  <1>5. \A b \in Adapter \ {a} : /\ pc'[b] = pc[b] /\ runs'[b] = runs[b]
                                 /\ result'[b] = result[b]
    BY <1>1 DEF Executed, Done
  <1>6. FollowsPlan(a)'
    BY <1>1, <1>2, SameQuestion DEF FollowsPlan
  <1>7. CASE Successful(runs[a]) = {}
    <2> DEFINE w == {"no tool succeeded"}
    <2>1. /\ pc'[a] = "done"
          /\ result'[a] = Fallback(question, runs[a], {}, OverLimit(a, plan) \cup w)
      BY <1>7 DEF Executed, Done
    <2>2. FallbackIds(runs[a]) = {}
      BY <1>7 DEF FallbackIds, IdsOf
    <2>3. Reason(a)' = w
      BY <1>1, <1>2, <1>3, <1>7 DEF Reason
    <2>4. result'[a] = Ending(a, Reason(a))'
      BY <1>1, <1>2, <1>3, <1>7, <2>1, <2>2, <2>3 DEF Ending
    <2>5. Finished(a)'
      BY <1>1, <1>2, <1>3, <1>6, <1>7, <2>4 DEF Finished
    <2>6. Progress(a)'
      BY <2>1, <2>5 DEF Progress
    <2> QED
      BY <1>1, <1>4, <1>5, <2>6, StepIs
  <1>8. CASE Successful(runs[a]) # {}
    <2>1. pc'[a] = "synthesize"
      BY <1>8 DEF Executed
    <2>2. Progress(a)'
      BY <1>1, <1>6, <1>8, <2>1 DEF Progress
    <2> QED
      BY <1>1, <1>4, <1>5, <2>2, StepIs
  <1> QED
    BY <1>7, <1>8

LEMMA SynthesizeStep ==
  ASSUME AgentInv, NEW a \in Adapter, Synthesize(a)
  PROVE  AgentInv'
  <1> USE DEF AgentInv, AgentTypes
  <1>1. PICK m \in Answers :
          /\ reply \in {Unset, m} /\ reply' = m
          /\ Done(a, IF Accepted(a, m, runs[a])
                       THEN ModelResult(question, runs[a], ClaimedIds(m),
                                        m.numbers, OverLimit(a, plan))
                     ELSE Fallback(question, runs[a], FallbackIds(runs[a]),
                                   OverLimit(a, plan) \cup {Objection(a, m, runs[a])}))
    BY DEF Synthesize
  <1>2. /\ UNCHANGED <<question, broken, plan, runs>>
        /\ pc[a] = "synthesize"
        /\ reply' = reply \/ reply = Unset
    BY <1>1 DEF Synthesize
  <1>3. /\ FollowsPlan(a) /\ ToModel /\ ToModel' /\ plan \in Plans
        /\ Successful(runs[a]) # {} /\ runs[a] # <<>>
    <2>1. FollowsPlan(a) /\ Successful(runs[a]) # {}
      BY <1>2 DEF Progress
    <2>2. runs[a] # <<>>
      BY <2>1 DEF Successful
    <2> QED
      BY <1>2, <2>1, <2>2, SameQuestion DEF FollowsPlan
  <1>4. AgentTypes'
    BY <1>1, <1>2 DEF Done
  <1>5. \A b \in Adapter \ {a} : /\ pc'[b] = pc[b] /\ runs'[b] = runs[b]
                                 /\ result'[b] = result[b]
    BY <1>1, <1>2 DEF Done
  <1>6. pc'[a] = "done" /\ FollowsPlan(a)'
    <2>1. pc'[a] = "done"
      BY <1>1 DEF Done
    <2>2. FollowsPlan(a) /\ Len(runs[a]) = Selected(a, plan)
      BY <1>2, <1>3 DEF FollowsPlan
    <2> QED
      BY <1>2, <1>3, <2>1, <2>2, SameQuestion DEF FollowsPlan
  <1> DEFINE w == {Objection(a, m, runs[a])}
  <1>7. Reason(a)' = w
    BY <1>1, <1>2, <1>3 DEF Reason
  <1>8. result'[a] = Ending(a, Reason(a))'
    BY <1>1, <1>2, <1>3, <1>7 DEF Ending, Done
  <1>9. Finished(a)'
    BY <1>1, <1>2, <1>3, <1>6, <1>8 DEF Finished
  <1>10. Progress(a)'
    BY <1>6, <1>9 DEF Progress
  <1> QED
    BY <1>2, <1>4, <1>5, <1>10, StepIs

LEMMA AgentInductive == AgentInv /\ [Next]_vars => AgentInv'
  <1> SUFFICES ASSUME AgentInv, [Next]_vars PROVE AgentInv'
    OBVIOUS
  <1>1. CASE UNCHANGED vars
    <2>1. AgentTypes' /\ (plan' # Unset => ToModel')
      BY <1>1, SameQuestion DEF vars, AgentInv, AgentTypes
    <2>2. \A b \in Adapter : Progress(b)'
      BY <1>1, OtherKeeps DEF vars
    <2> QED
      BY <2>1, <2>2 DEF AgentInv
  <1> QED
    BY <1>1, RuleStep, AskStep, PlanStep, ExecuteStep, ExecutedStep,
       SynthesizeStep
    DEF Next, Step

(***************************************************************************)
(* A finished run executed the planned calls it was allowed to, in order,  *)
(* and ends as its calls and the model's reply say.                        *)
(***************************************************************************)
THEOREM AgentInvariant == Spec => []AgentInv
  BY AgentInit, AgentInductive, PTL DEF Spec

\* A finished run, unfolded.
LEMMA EndsWith ==
  ASSUME AgentInv, NEW a \in Adapter, Answered(a)
  PROVE  /\ Len(runs[a]) \in Nat /\ Len(runs[a]) <= 3
         /\ runs[a] \in Seq(Trace)
         /\ ~ToModel => plan = Unset /\ runs[a] = <<RuleCall>>
         /\ ToModel /\ runs[a] # <<>> =>
              /\ plan \in Plans /\ Len(runs[a]) = Selected(a, plan)
         /\ result[a] = Ending(a, Reason(a))
  <1>1. Finished(a) /\ runs[a] \in Seq(Trace)
    BY DEF AgentInv, AgentTypes, Progress, Answered
  <1>2. ~ToModel => plan = Unset /\ runs[a] = <<RuleCall>>
    BY <1>1 DEF AgentInv, Finished
  <1>3. ToModel /\ runs[a] # <<>> =>
          /\ plan \in Plans /\ Len(runs[a]) = Selected(a, plan)
    BY <1>1 DEF Finished, FollowsPlan, Answered
  <1>4. result[a] = Ending(a, Reason(a))
    BY <1>1 DEF Finished
  <1>5. Len(runs[a]) \in Nat /\ Len(runs[a]) <= 3
    <2>1. CASE ~ToModel
      BY <1>2, <2>1
    <2>2. CASE ToModel /\ runs[a] # <<>>
      BY <1>1, <1>3, <2>2, SelectedIs
    <2>3. CASE runs[a] = <<>>
      BY <2>3
    <2> QED
      BY <2>1, <2>2, <2>3
  <1> QED
    BY <1>1, <1>2, <1>3, <1>4, <1>5

\* However a run ended: what it executed and left out is in its result.
LEMMA ReportedNow == AgentInv => RunsAreReported
  <1>1. ASSUME AgentInv, NEW a \in Adapter, Answered(a)
        PROVE  /\ result[a].runs = runs[a] /\ Len(runs[a]) <= 3
               /\ runs[a] # <<>> /\ plan # Unset
                    => ("over the limit" \in result[a].warnings
                           <=> Len(runs[a]) < Cardinality(Calls(a, plan)))
    <2>1. PICK w \in SUBSET Downgrades : result[a] = Ending(a, w)
      BY <1>1, EndsWith, ReasonIs
    <2>2. result[a].runs = runs[a]
      BY <2>1 DEF Ending, RuleResult, ModelResult, Fallback
    <2>3. ASSUME runs[a] # <<>>, plan # Unset
          PROVE  "over the limit" \in result[a].warnings
                   <=> Len(runs[a]) < Cardinality(Calls(a, plan))
      <3>1. ToModel
        BY <1>1, <2>3 DEF AgentInv
      <3>2. plan \in Plans /\ Len(runs[a]) = Selected(a, plan)
        BY <1>1, <2>3, <3>1, EndsWith
      <3>3. "over the limit" \in result[a].warnings
              <=> "over the limit" \in OverLimit(a, plan)
        <4>1. result[a].warnings \in {OverLimit(a, plan), OverLimit(a, plan) \cup w}
          BY <2>1, <2>3, <3>1 DEF Ending, ModelResult, Fallback
        <4>2. "over the limit" \notin w
          BY DEF Downgrades
        <4> QED
          BY <4>1, <4>2
      <3> QED
        BY <3>2, <3>3, OverLimitIs
    <2> QED
      BY <1>1, <2>2, <2>3, EndsWith
  <1> QED
    BY <1>1 DEF RunsAreReported

\* Every number that the answer claims is in the evidence of a call.
LEMMA GroundedIs ==
  ASSUME NEW m \in Answers, NEW ex, Grounded(m, ex)
  PROVE  \A n \in m.numbers : \E c \in DOMAIN Evidence(ex) :
           n \in Output[ex[Evidence(ex)[c]].name] \cup IdNumbers[c]
  BY DEF Grounded

\* How a run may have ended, and what its answer then rests on.
LEMMA EvidencedNow == AgentInv => AnswerIsEvidenced
  <1>1. ASSUME AgentInv, NEW a \in Adapter, Answered(a)
        PROVE  LET r == result[a]
               IN  /\ r.ids \subseteq IdsOf(r.runs, Successful(r.runs))
                   /\ By(a, "tool_calling") =>
                        /\ \A c \in r.ids :
                             /\ c \in DOMAIN r.evidence
                             /\ r.runs[r.evidence[c]].id = c
                             /\ r.runs[r.evidence[c]].status = "success"
                        /\ \A n \in r.numbers : \E c \in DOMAIN r.evidence :
                             n \in Output[r.runs[r.evidence[c]].name]
                                     \cup IdNumbers[c]
                   /\ By(a, "rule_fallback") =>
                        r.numbers = {} /\ r.evidence = NoEvidence
    <2> DEFINE ex == runs[a]
    <2>1. PICK w \in SUBSET Downgrades : result[a] = Ending(a, w)
      BY <1>1, EndsWith, ReasonIs
    <2>2. ex \in Seq(Trace) /\ Len(ex) <= 3
      BY <1>1, EndsWith
    <2>3. CASE ~ToModel /\ Successful(ex) # {}
      <3>1. result[a] = RuleResult(question, ex)
        BY <2>1, <2>3 DEF Ending
      <3>2. ex = <<RuleCall>> /\ RuleCall.id = "rule_1"
        BY <1>1, <2>3, EndsWith, RuleCallIsTrace DEF AgentInv
      <3>3. {"rule_1"} \subseteq IdsOf(ex, Successful(ex))
        BY <2>3, <3>2 DEF Successful, IdsOf
      <3> QED
        BY <3>1, <3>3 DEF RuleResult, By
    <2>4. CASE ToModel /\ Successful(ex) # {} /\ Accepted(a, reply, ex)
      <3>1. result[a] = ModelResult(question, ex, ClaimedIds(reply),
                                    reply.numbers, OverLimit(a, plan))
        BY <2>1, <2>4 DEF Ending
      <3>2. ex # <<>>
        BY <2>4 DEF Successful
      <3>3. reply \in Answers
        BY <1>1, <2>4, <3>2 DEF AgentInv, Progress, Finished, Answered
      <3>4. ClaimedIds(reply) \subseteq IdsOf(ex, Successful(ex))
        BY <2>4 DEF Accepted, ValidIds
      <3>5. \A n \in reply.numbers : \E c \in DOMAIN Evidence(ex) :
              n \in Output[ex[Evidence(ex)[c]].name] \cup IdNumbers[c]
        BY <2>4, <3>3, GroundedIs DEF Accepted
      <3>6. \A c \in ClaimedIds(reply) :
              /\ c \in DOMAIN Evidence(ex)
              /\ ex[Evidence(ex)[c]].id = c
              /\ ex[Evidence(ex)[c]].status = "success"
        <4>1. \A c \in ClaimedIds(reply) :
                /\ c \in DOMAIN Evidence(ex)
                /\ Evidence(ex)[c] \in Successful(ex)
                /\ ex[Evidence(ex)[c]].id = c
          <5> HIDE DEF ex
          <5> QED
            BY <2>2, <3>4, EvidenceOf
        <4> QED
          BY <4>1 DEF Successful
      <3>7. /\ result[a].ids = ClaimedIds(reply)
            /\ result[a].runs = ex
            /\ result[a].evidence = Evidence(ex)
            /\ result[a].numbers = reply.numbers
            /\ result[a].routing = "tool_calling"
        BY <3>1 DEF ModelResult
      <3> HIDE DEF ex
      <3> QED
        BY <3>4, <3>5, <3>6, <3>7 DEF By
    <2>5. CASE /\ ~(~ToModel /\ Successful(ex) # {})
               /\ ~(ToModel /\ Successful(ex) # {} /\ Accepted(a, reply, ex))
      <3>1. PICK q, u : result[a] =
                    Fallback(q, ex, IF ToModel THEN FallbackIds(ex) ELSE {}, u)
        BY <2>1, <2>5 DEF Ending
      <3> QED
        BY <3>1 DEF Fallback, FallbackIds, By
    <2> QED
      BY <2>3, <2>4, <2>5
  <1> QED
    BY <1>1 DEF AnswerIsEvidenced

-----------------------------------------------------------------------------
(* Two adapters and the same model *)

\* Calls and arguments that are JSON objects reach the orchestrator with both
\* adapters, at the places where the model put them.
LEMMA TypedCalls ==
  ASSUME NEW m \in Plans, TypedPlan(m), NEW a \in Adapter
  PROVE  /\ PlanFails(a, m) <=> m.error
         /\ Calls(a, m) = DOMAIN m.calls
         /\ \A k \in DOMAIN m.calls : Place(a, m, k) = k
  <1>1. \A k \in DOMAIN m.calls : m.calls[k].form \notin {"malformed", "list", "junk"}
    BY DEF TypedPlan, Has
  <1>2. Calls(a, m) = DOMAIN m.calls
    BY <1>1 DEF Calls
  <1>3. ASSUME NEW k \in DOMAIN m.calls PROVE Place(a, m, k) = k
    <2>1. DOMAIN m.calls = 1..Len(m.calls) /\ Len(m.calls) \in Nat
      BY SelectedIs
    <2>2. {j \in Calls(a, m) : j <= k} = 1..k
      BY <1>2, <2>1
    <2>3. Cardinality(1..k) = k
      BY <2>1, FS_Interval
    <2> QED
      BY <2>2, <2>3 DEF Place
  <1> QED
    BY <1>1, <1>2, <1>3 DEF PlanFails, Has

\* An adapter that finished without a call met a plan that the other one
\* cannot have followed.
LEMMA BothCall ==
  ASSUME AgentInv, ToModel, NEW a \in Adapter, NEW b \in Adapter,
         Answered(a), Answered(b), TypedPlan(plan), runs[a] = <<>>
  PROVE  runs[b] = <<>>
  <1> SUFFICES ASSUME runs[b] # <<>> PROVE FALSE
    OBVIOUS
  <1>1. plan \in Plans /\ (PlanFails(a, plan) \/ Calls(a, plan) = {})
    BY DEF AgentInv, Progress, Answered, Finished
  <1>2. ~PlanFails(b, plan) /\ Calls(b, plan) # {}
    BY DEF AgentInv, Progress, Answered, Finished, FollowsPlan
  <1> QED
    BY <1>1, <1>2, TypedCalls

LEMMA SameRuns ==
  ASSUME AgentInv, NEW a \in Adapter, NEW b \in Adapter,
         Answered(a), Answered(b), plan # Unset => TypedPlan(plan)
  PROVE  /\ runs[a] = runs[b]
         /\ ToModel /\ runs[a] # <<>> => OverLimit(a, plan) = OverLimit(b, plan)
  <1>1. CASE ~ToModel
    BY <1>1, EndsWith
  <1>4. ToModel => plan \in Plans
    BY DEF AgentInv, Progress, Answered, Finished, FollowsPlan
  <1>5. ToModel => TypedPlan(plan)
    BY <1>4, UnsetIsNoReply
  <1>2. CASE ToModel /\ (runs[a] = <<>> \/ runs[b] = <<>>)
    BY <1>2, <1>5, BothCall
  <1>3. CASE ToModel /\ runs[a] # <<>> /\ runs[b] # <<>>
    <2>1. FollowsPlan(a) /\ FollowsPlan(b)
      BY <1>3 DEF AgentInv, Progress, Answered, Finished
    <2>2. /\ Calls(a, plan) = DOMAIN plan.calls /\ Calls(b, plan) = DOMAIN plan.calls
          /\ \A k \in DOMAIN plan.calls : Place(a, plan, k) = k /\ Place(b, plan, k) = k
      BY <1>3, <1>4, <1>5, TypedCalls
    <2>3. Len(runs[a]) = Selected(a, plan) /\ Len(runs[b]) = Selected(b, plan)
      BY <1>3, EndsWith
    <2>4. /\ Len(runs[a]) = Len(runs[b])
          /\ OverLimit(a, plan) = OverLimit(b, plan)
      BY <2>2, <2>3 DEF Selected, OverLimit
    <2>5. \A n \in 1..Len(runs[a]) :
            runs[a][n] = PlannedCall(n, n) /\ runs[b][n] = PlannedCall(n, n)
      BY <2>1, <2>2, <2>4 DEF FollowsPlan
    <2>6. runs[a] \in Seq(Trace) /\ runs[b] \in Seq(Trace)
      BY EndsWith
    <2> QED
      BY <2>4, <2>5, <2>6
  <1> QED
    BY <1>1, <1>2, <1>3

\* On an answer of the right types the adapters do not differ: the ids that
\* Direct looks at first have to be those of calls in the end.
LEMMA SameAccepted ==
  ASSUME NEW m \in Answers, TypedAnswer(m), NEW ex,
         NEW a \in Adapter, NEW b \in Adapter, Accepted(a, m, ex)
  PROVE  Accepted(b, m, ex)
  <1>1. /\ m.answer \in {"text", "number", "blank"}
        /\ m.limitations \in {"list", "falsy", "other"}
        /\ m.idsType \in {"list", "falsy", "other"}
    BY DEF AnswerReply
  <1>2. ~m.error /\ m.answer = "text" /\ m.limitations = "list"
        /\ m.idsType = "list"
    BY <1>1 DEF Accepted, Synthesized, DirectAnswer, LangChainAnswer, TypedAnswer
  <1>3. AsSet(m.ids) \subseteq IdsOf(ex, DOMAIN ex)
    BY <1>2 DEF Accepted, ValidIds, ClaimedIds, IdsOf, Successful
  <1> QED
    BY <1>2, <1>3 DEF Accepted, Synthesized, DirectAnswer, LangChainAnswer

\* Both have executed the same calls, and accept the same answers.
LEMMA AgreeNow == AgentInv => AdaptersAgreeOnTypedReplies
  <1>1. ASSUME AgentInv, NEW a \in Adapter, NEW b \in Adapter,
               Answered(a), Answered(b), plan # Unset => TypedPlan(plan),
               reply # Unset => TypedAnswer(reply)
        PROVE  Said(result[a]) = Said(result[b])
    <2>1. PICK u \in SUBSET Downgrades : result[a] = Ending(a, u)
      BY <1>1, EndsWith, ReasonIs
    <2>2. PICK v \in SUBSET Downgrades : result[b] = Ending(b, v)
      BY <1>1, EndsWith, ReasonIs
    <2>3. /\ runs[a] = runs[b]
          /\ ToModel /\ runs[a] # <<>> => OverLimit(a, plan) = OverLimit(b, plan)
      BY <1>1, SameRuns
    <2>4. ToModel /\ Successful(runs[a]) # {} =>
            (Accepted(a, reply, runs[a]) <=> Accepted(b, reply, runs[a]))
      <3> SUFFICES ASSUME ToModel, Successful(runs[a]) # {}
                   PROVE  Accepted(a, reply, runs[a]) <=> Accepted(b, reply, runs[a])
        OBVIOUS
      <3>1. runs[a] # <<>>
        BY DEF Successful
      <3>2. reply \in Answers
        BY <1>1, <3>1 DEF AgentInv, Progress, Finished, Answered
      <3>3. TypedAnswer(reply)
        BY <1>1, <3>2, UnsetIsNoReply
      <3> QED
        BY <3>2, <3>3, SameAccepted
    <2>6. runs[a] = <<>> => Successful(runs[a]) = {}
      BY DEF Successful
    <2>5. Ending(a, {}) = Ending(b, {})
      BY <2>3, <2>4, <2>6 DEF Ending
    <2> QED
      BY <2>1, <2>2, <2>5, SaidEnding
  <1> QED
    BY <1>1 DEF AdaptersAgreeOnTypedReplies, AdaptersAgree

-----------------------------------------------------------------------------
(* The evaluator *)

\* What a case that was run leaves: the rules owe the model no number.
Warning == Downgrades \cup {"over the limit"}

RawResult ==
  {r \in [routing : Routing, runs : Seq(Trace), numbers : SUBSET Number,
          warnings : SUBSET Warning] :
     r.routing = "rule_fallback" => r.numbers = {}}

Outcome == {EvaluateCase(c, raw) : c \in Case, raw \in RawResult}

EvalTypes ==
  /\ phase \in {"load", "run", "end"}
  /\ suite \in Suites /\ todo \in SUBSET Chosen
  /\ outcomes \in Seq(Outcome)

\* A case that has begun is the current one, and the model replies as scripted.
Scripted ==
  /\ phase \in {"load", "end"} => pc["direct"] = "idle"
  /\ phase = "run" /\ pc["direct"] # "idle" =>
       /\ todo # {} /\ question = Current.question
       /\ plan \in {Unset, Current.plan} /\ reply \in {Unset, Current.answer}

\* Every chosen case is to be run yet or has its outcome.
Tallied ==
  /\ phase = "load" => outcomes = <<>>
  /\ phase \in {"run", "end"} =>
       Len(outcomes) + Cardinality(todo) = Cardinality(Chosen)

Rejected == exit = 2 /\ report = Unset

Judged ==
  /\ todo = {}
  /\ report = Summary(outcomes)
  /\ exit = IF options.failUnder /\ Violations(outcomes) # {} THEN 1 ELSE 0

Ended ==
  /\ phase # "end" => exit = Running /\ report = Unset
  /\ phase = "end" => Rejected \/ Judged

EvalInv == AgentInv /\ EvalTypes /\ Scripted /\ Tallied /\ Ended

LEMMA NatMin ==
  ASSUME NEW T \in SUBSET Nat, T # {}
  PROVE  \E n \in T : \A m \in T : n <= m
  <1>1. PICK n \in T : \A m \in T : ~(<<m, n>> \in OpToRel(<, Nat))
    BY WFMin, NatLessThanWellFounded, Zenon
  <1>2. \A m \in T : ~(m < n)
    BY <1>1, Zenon DEF OpToRel
  <1> QED
    BY <1>2

LEMMA FirstIs ==
  ASSUME NEW K \in SUBSET Nat, K # {} PROVE First(K) \in K
  BY NatMin DEF First

\* The chosen cases are finitely many, and the current one is one of them.
LEMMA ChosenIs ==
  ASSUME suite \in Suites
  PROVE  /\ IsFiniteSet(Chosen) /\ Chosen \in SUBSET Nat
         /\ \A K \in SUBSET Chosen : IsFiniteSet(K)
         /\ todo \in SUBSET Chosen /\ todo # {} =>
              First(todo) \in todo /\ Current \in Case
  <1>1. suite.cases \in Seq(Case)
    BY EvaluationAssumption
  <1>2. Len(suite.cases) \in Nat /\ Chosen \in SUBSET (1..Len(suite.cases))
    BY <1>1 DEF Chosen
  <1>3. IsFiniteSet(1..Len(suite.cases))
    BY <1>2, FS_Interval
  <1>4. IsFiniteSet(Chosen)
    BY <1>2, <1>3, FS_Subset
  <1>5. \A K \in SUBSET Chosen : IsFiniteSet(K)
    BY <1>4, FS_Subset
  <1>6. ASSUME todo \in SUBSET Chosen, todo # {}
        PROVE  First(todo) \in todo /\ Current \in Case
    <2>1. First(todo) \in todo
      BY <1>2, <1>6, FirstIs
    <2>2. First(todo) \in 1..Len(suite.cases)
      BY <1>2, <1>6, <2>1
    <2>3. suite.cases[First(todo)] \in Case
      BY <1>1, <2>2
    <2> QED
      BY <2>1, <2>3 DEF Current
  <1> QED
    BY <1>2, <1>4, <1>5, <1>6

LEMMA CaseIs ==
  ASSUME NEW c \in Case
  PROVE  /\ c.question \in Question
         /\ c.plan \in Plans /\ ~Has(c.plan, {"junk"})
         /\ c.answer \in Answers
  <1>1. /\ c.question \in Question
        /\ c.plan \in {m \in Plans : ~Has(m, {"junk", "malformed"})}
        /\ c.answer \in {m \in Answers : PlainAnswer(m)}
    BY DEF Case
  <1> QED
    BY <1>1 DEF Has

\* What a finished run hands to the evaluator.
LEMMA RawIs ==
  ASSUME AgentInv, Answered("direct"), "direct" \in Adapter
  PROVE  Raw \in RawResult
  <1> DEFINE a == "direct"
  <1>1. /\ pc[a] # "crashed" /\ runs[a] \in Seq(Trace)
        /\ result[a] = Ending(a, Reason(a))
    BY EndsWith DEF Answered
  <1>2. /\ OverLimit(a, plan) \subseteq Warning
        /\ OverLimit(a, plan) \cup Reason(a) \subseteq Warning
        /\ {} \cup Reason(a) \subseteq Warning
        /\ Reason(a) \subseteq Warning
    BY ReasonIs DEF Warning, OverLimit
  <1>3. CASE ToModel /\ Successful(runs[a]) # {} /\ Accepted(a, reply, runs[a])
    <2>1. runs[a] # <<>>
      BY <1>3 DEF Successful
    <2>2. reply \in Answers
      BY <1>3, <2>1 DEF AgentInv, Progress, Finished, Answered
    <2>3. reply.numbers \in SUBSET Number
      BY <2>2 DEF AnswerReply
    <2>4. result[a] = ModelResult(question, runs[a], ClaimedIds(reply),
                                  reply.numbers, OverLimit(a, plan))
      BY <1>1, <1>3 DEF Ending
    <2> QED
      BY <1>1, <1>2, <2>3, <2>4 DEF Raw, RawResult, Routing, ModelResult
  <1>4. CASE ~ToModel /\ Successful(runs[a]) # {}
    <2>1. result[a] = RuleResult(question, runs[a])
      BY <1>1, <1>4 DEF Ending
    <2> QED
      BY <1>1, <2>1 DEF Raw, RawResult, Routing, RuleResult
  <1>5. CASE /\ ~(~ToModel /\ Successful(runs[a]) # {})
             /\ ~(ToModel /\ Successful(runs[a]) # {} /\ Accepted(a, reply, runs[a]))
    <2>1. \E q, ids : \E u \in SUBSET Warning :
            result[a] = Fallback(q, runs[a], ids, u)
      BY <1>1, <1>2, <1>5 DEF Ending
    <2>2. PICK q, ids : \E u \in SUBSET Warning :
            result[a] = Fallback(q, runs[a], ids, u)
      BY <2>1
    <2>3. PICK u \in SUBSET Warning : result[a] = Fallback(q, runs[a], ids, u)
      BY <2>2
    <2> QED
      BY <1>1, <2>3 DEF Raw, RawResult, Routing, Fallback
  <1> QED
    BY <1>3, <1>4, <1>5

\* A run of the agent that has not begun.
Fresh ==
  /\ question \in Question /\ broken \in BOOLEAN
  /\ plan = Unset /\ reply = Unset
  /\ pc \in [Adapter -> {"idle", "route"}]
  /\ runs = [a \in Adapter |-> <<>>]
  /\ result = [a \in Adapter |-> Unset]

LEMMA FreshAgent == Fresh => AgentInv
  <1> SUFFICES ASSUME Fresh PROVE AgentInv
    OBVIOUS
  <1>1. AgentTypes
    BY DEF Fresh, AgentTypes
  <1>2. plan = Unset /\ \A a \in Adapter : Progress(a)
    BY DEF Fresh, Progress
  <1> QED
    BY <1>1, <1>2 DEF AgentInv

LEMMA SameAgent ==
  ASSUME AgentInv, UNCHANGED <<question, broken, plan, reply, runs, result>>,
         pc' = pc \/ pc' = [a \in Adapter |-> "idle"]
  PROVE  AgentInv'
  <1>1. CASE pc' = pc
    BY <1>1, AgentInductive DEF vars
  <1>2. CASE pc' = [a \in Adapter |-> "idle"]
    <2>1. AgentTypes' /\ (plan' # Unset => ToModel')
      BY <1>2, SameQuestion DEF AgentInv, AgentTypes
    <2>2. \A a \in Adapter : Progress(a)'
      BY <1>2 DEF Progress
    <2> QED
      BY <2>1, <2>2 DEF AgentInv
  <1> QED
    BY <1>1, <1>2

\* The evaluator stays where it is, the agent goes one step.
LEMMA StepKeeps ==
  ASSUME AgentInv, NEW a \in Adapter, Step(a)
  PROVE  /\ AgentInv' /\ UNCHANGED <<question, broken>>
         /\ pc[a] # "idle" /\ pc'[a] # "idle"
         /\ \A b \in Adapter \ {a} : pc'[b] = pc[b]
  <1>1. AgentInv'
    BY AgentInductive DEF Next
  <1>2. pc \in [Adapter -> {"idle", "route", "plan", "execute", "synthesize",
                            "done", "crashed"}]
    BY DEF AgentInv, AgentTypes
  <1>3. UNCHANGED <<question, broken>> /\ pc[a] # "idle"
    BY DEF Step, RunUnsupported, RunFastRule, AskModel, PlanTools, ExecuteNext,
           Executed, Synthesize
  <1>4. \E s : s # "idle" /\ pc' = [pc EXCEPT ![a] = s]
    <2>1. CASE RunUnsupported(a) \/ RunFastRule(a)
      BY <2>1 DEF RunUnsupported, RunFastRule, Done
    <2>2. CASE AskModel(a)
      BY <2>2 DEF AskModel
    <2>3. CASE PlanTools(a)
      BY <2>3 DEF PlanTools, Done
    <2>4. CASE ExecuteNext(a)
      BY <1>2, <1>3, <2>4 DEF ExecuteNext
    <2>5. CASE Executed(a)
      BY <2>5 DEF Executed, Done
    <2>6. CASE Synthesize(a)
      BY <2>6 DEF Synthesize, Done
    <2> QED
      BY <2>1, <2>2, <2>3, <2>4, <2>5, <2>6 DEF Step
  <1> QED
    BY <1>1, <1>2, <1>3, <1>4

LEMMA EvalStarts == EvalInit => EvalInv
  <1> SUFFICES ASSUME EvalInit PROVE EvalInv
    OBVIOUS
  <1>1. question \in Question
    <2>1. suite.cases \in Seq(Case) /\ suite.cases # <<>>
      BY EvaluationAssumption DEF EvalInit
    <2>2. suite.cases[1] \in Case
      BY <2>1
    <2> QED
      BY <2>2, CaseIs DEF EvalInit
  <1>2. AgentInv
    BY <1>1, FreshAgent DEF EvalInit, Fresh
  <1>3. EvalTypes
    BY DEF EvalInit, EvalTypes
  <1>4. Scripted /\ Tallied /\ Ended
    BY EvaluationAssumption DEF EvalInit, Scripted, Tallied, Ended
  <1> QED
    BY <1>2, <1>3, <1>4 DEF EvalInv

LEMMA LoadStep ==
  ASSUME EvalInv, Load PROVE EvalInv'
  <1> USE DEF EvalInv
  <1>1. /\ phase = "load" /\ todo' = Chosen
        /\ UNCHANGED <<vars, suite, options, outcomes, report>>
        /\ \/ phase' = "run" /\ UNCHANGED exit
           \/ phase' = "end" /\ exit' = 2
    BY DEF Load
  <1>2. suite \in Suites /\ Chosen' = Chosen
    BY <1>1 DEF EvalTypes, Chosen
  <1>3. AgentInv'
    BY <1>1, SameAgent DEF vars
  <1>4. EvalTypes'
    BY <1>1, <1>2 DEF EvalTypes
  <1>5. Scripted'
    BY <1>1 DEF Scripted, vars
  <1>6. Tallied'
    <2>1. outcomes = <<>>
      BY <1>1 DEF Tallied
    <2>2. Cardinality(Chosen) \in Nat
      BY <1>2, ChosenIs, FS_CardinalityType
    <2> QED
      BY <1>1, <1>2, <2>1, <2>2 DEF Tallied
  <1>7. Ended'
    BY <1>1 DEF Ended, Rejected
  <1> QED
    BY <1>3, <1>4, <1>5, <1>6, <1>7

LEMMA CaseStep ==
  ASSUME EvalInv, StartCase PROVE EvalInv'
  <1> USE DEF EvalInv
  <1>1. /\ phase = "run" /\ todo # {} /\ suite \in Suites
        /\ question' = Current.question /\ plan' = Unset /\ reply' = Unset
        /\ pc' = [a \in Adapter |-> "route"]
        /\ runs' = [a \in Adapter |-> <<>>] /\ result' = [a \in Adapter |-> Unset]
        /\ UNCHANGED <<broken, suite, options, phase, todo, outcomes, report, exit>>
    BY DEF StartCase, EvalTypes, evalVars, progress
  <1>2. Chosen' = Chosen /\ Current' = Current
    BY <1>1 DEF Chosen, Current
  <1>3. Current.question \in Question
    BY <1>1, ChosenIs, CaseIs DEF EvalTypes
  <1>4. AgentInv'
    <2>1. Fresh'
      BY <1>1, <1>3 DEF Fresh, AgentInv, AgentTypes
    <2>2. (Fresh => AgentInv)'
      BY FreshAgent, PTL
    <2> QED
      BY <2>1, <2>2
  <1>5. EvalTypes' /\ Tallied'
    BY <1>1, <1>2 DEF EvalTypes, Tallied
  <1>6. Scripted'
    BY <1>1, <1>2 DEF Scripted
  <1>7. Ended'
    BY <1>1 DEF Ended
  <1> QED
    BY <1>4, <1>5, <1>6, <1>7

LEMMA AgentsStep ==
  ASSUME EvalInv, AgentStep PROVE EvalInv'
  <1> USE DEF EvalInv
  <1>0. "direct" \in Adapter
    BY EvaluationAssumption
  <1>1. /\ Step("direct") /\ phase = "run"
        /\ plan' \in {Unset, Current.plan} /\ reply' \in {Unset, Current.answer}
        /\ UNCHANGED <<suite, options, phase, todo, outcomes, report, exit>>
    BY DEF AgentStep, evalVars, progress
  <1>2. Chosen' = Chosen /\ Current' = Current
    BY <1>1 DEF Chosen, Current
  <1>3. AgentInv' /\ UNCHANGED question /\ pc["direct"] # "idle"
    BY <1>0, <1>1, StepKeeps
  <1>4. EvalTypes' /\ Tallied'
    BY <1>1, <1>2 DEF EvalTypes, Tallied
  <1>5. Scripted'
    BY <1>1, <1>2, <1>3 DEF Scripted
  <1>6. Ended'
    BY <1>1 DEF Ended
  <1> QED
    BY <1>3, <1>4, <1>5, <1>6

\* No case of a question set makes the agent crash.
LEMMA CaseEnds ==
  ASSUME EvalInv, phase = "run", pc["direct"] \in {"done", "crashed"}
  PROVE  todo # {} /\ Current \in Case /\ Raw \in RawResult
  <1> USE DEF EvalInv
  <1>0. "direct" \in Adapter
    BY EvaluationAssumption
  <1>1. todo # {} /\ suite \in Suites /\ plan \in {Unset, Current.plan}
    BY DEF Scripted, EvalTypes
  <1>2. Current \in Case
    BY <1>1, ChosenIs DEF EvalTypes
  <1>3. plan # Unset => ~Has(plan, {"junk"})
    BY <1>1, <1>2, CaseIs
  <1>4. Answered("direct")
    BY <1>0, <1>3, UnsetIsNoReply DEF Answered, AgentInv, Progress, Crashed
  <1> QED
    BY <1>0, <1>1, <1>2, <1>4, RawIs

LEMMA RecordStep ==
  ASSUME EvalInv, Record PROVE EvalInv'
  <1> USE DEF EvalInv
  <1> DEFINE o == EvaluateCase(Current, Raw)
  <1>0. "direct" \in Adapter
    BY EvaluationAssumption
  <1>1. /\ phase = "run" /\ pc["direct"] \in {"done", "crashed"}
        /\ outcomes' = Append(outcomes, o)
        /\ todo' = todo \ {First(todo)}
        /\ pc' = [a \in Adapter |-> "idle"]
        /\ UNCHANGED <<question, broken, plan, reply, runs, result,
                       suite, options, phase, report, exit>>
    BY DEF Record
  <1>2. suite \in Suites /\ Chosen' = Chosen /\ todo \in SUBSET Chosen
    BY <1>1 DEF EvalTypes, Chosen
  <1>3. AgentInv'
    BY <1>1, SameAgent
  <1>4. Scripted' /\ Ended'
    BY <1>0, <1>1 DEF Scripted, Ended
  <1>5. todo # {} /\ o \in Outcome
    BY <1>1, CaseEnds DEF Outcome
  <1>6. First(todo) \in todo /\ IsFiniteSet(todo)
    BY <1>2, <1>5, ChosenIs
  <1>7. /\ Cardinality(todo) \in Nat
        /\ Cardinality(todo') = Cardinality(todo) - 1
    BY <1>1, <1>6, FS_RemoveElement, FS_CardinalityType
  <1>8. Cardinality(Chosen) \in Nat
    BY <1>2, ChosenIs, FS_CardinalityType
  <1> HIDE DEF o
  <1>9. /\ outcomes' \in Seq(Outcome)
        /\ Len(outcomes') = Len(outcomes) + 1 /\ Len(outcomes) \in Nat
    BY <1>1, <1>5 DEF EvalTypes
  <1>10. EvalTypes'
    BY <1>1, <1>2, <1>9 DEF EvalTypes
  <1>11. Tallied'
    BY <1>1, <1>2, <1>7, <1>8, <1>9 DEF Tallied
  <1> QED
    BY <1>3, <1>4, <1>10, <1>11

LEMMA FinishStep ==
  ASSUME EvalInv, Finish PROVE EvalInv'
  <1> USE DEF EvalInv
  <1>1. /\ phase = "run" /\ todo = {} /\ phase' = "end"
        /\ UNCHANGED <<vars, suite, options, todo, outcomes>>
        /\ report' = Summary(outcomes)
        /\ exit' = IF options.failUnder /\ Violations(outcomes) # {} THEN 1 ELSE 0
    BY DEF Finish
  <1>2. Chosen' = Chosen
    BY <1>1 DEF Chosen
  <1>3. AgentInv'
    BY <1>1, SameAgent DEF vars
  <1>4. EvalTypes' /\ Tallied'
    BY <1>1, <1>2 DEF EvalTypes, Tallied
  <1>5. Scripted'
    BY <1>1 DEF Scripted, vars
  <1>6. Judged'
    BY <1>1 DEF Judged
  <1>7. Ended'
    BY <1>1, <1>6 DEF Ended
  <1> QED
    BY <1>3, <1>4, <1>5, <1>7

LEMMA EvalInductive == EvalInv /\ [EvalNext]_allVars => EvalInv'
  <1> SUFFICES ASSUME EvalInv, [EvalNext]_allVars PROVE EvalInv'
    OBVIOUS
  <1>1. CASE UNCHANGED allVars
    <2>1. AgentInv'
      BY <1>1, SameAgent DEF allVars, vars, EvalInv
    <2>2. UNCHANGED <<Chosen, Current>>
      BY <1>1 DEF allVars, evalVars, progress, Chosen, Current
    <2>3. EvalTypes' /\ Scripted' /\ Tallied' /\ Ended'
      BY <1>1, <2>2
      DEF EvalInv, allVars, vars, evalVars, progress, EvalTypes, Scripted, Tallied,
          Ended, Rejected, Judged
    <2> QED
      BY <2>1, <2>3 DEF EvalInv
  <1> QED
    BY <1>1, LoadStep, CaseStep, AgentsStep, RecordStep, FinishStep DEF EvalNext

(***************************************************************************)
(* The evaluation gives each chosen case, in order, to the agent, with the *)
(* replies that the case has for it; no case makes the agent crash, and    *)
(* every one has its outcome.                                              *)
(***************************************************************************)
THEOREM EvaluationInvariant == EvalSpec => []EvalInv
  BY EvalStarts, EvalInductive, PTL DEF EvalSpec

\* A metric that is no violation was measured, and at a threshold of 100
\* percent no outcome failed it.
LEMMA NoViolation ==
  ASSUME NEW os \in Seq(Outcome), Len(os) < Many, Violations(os) = {},
         NEW m \in DOMAIN FailUnder
  PROVE  /\ Counted(m, os) # {}
         /\ FailUnder[m] = 100 =>
              \A k \in Counted(m, os) : os[k].checks[m]
  <1> DEFINE C == Counted(m, os)
             P == Passing(m, os)
  <1>1. /\ C # {}
        /\ ~(20000 * Cardinality(P) + Cardinality(C)
               < 200 * FailUnder[m] * Cardinality(C))
    BY DEF Violations, Below, Many
  <1>2. C \in SUBSET (1..Len(os)) /\ P \in SUBSET C
    BY DEF Counted, Passing
  <1>3. IsFiniteSet(C)
    <2>1. Len(os) \in Nat /\ IsFiniteSet(1..Len(os))
      BY FS_Interval
    <2> QED
      BY <1>2, <2>1, FS_Subset
  <1>4. /\ Cardinality(C) \in Nat /\ Cardinality(P) \in Nat
        /\ Cardinality(P) <= Cardinality(C)
        /\ Cardinality(C) = Cardinality(P) => C = P
        /\ Cardinality(C) < 20000
    <2>1. Len(os) \in Nat
      OBVIOUS
    <2>2. Cardinality(C) <= Len(os)
      BY <1>2, <2>1, Interval
    <2> QED
      BY <1>2, <1>3, <2>1, <2>2, FS_Subset, FS_CardinalityType DEF Many
  <1>5. FailUnder[m] = 100 => C = P
    <2> HIDE DEF C, P
    <2> QED
      BY <1>1, <1>4
  <1> QED
    BY <1>1, <1>5 DEF Passing

\* What an outcome that passed its checks says of the run.
LEMMA ChecksMean ==
  ASSUME NEW o \in Outcome
  PROVE  /\ o.case.illegal =>
              /\ Counts("illegal", o)
              /\ o.checks["illegal"] =>
                   Illegal(o.raw) \cap Successful(o.raw.runs) = {}
         /\ o.case.category = "degradation" =>
              /\ Counts("fallback", o)
              /\ o.checks["fallback"] => o.raw.routing = "rule_fallback"
         /\ o.case.grounded = "must_fail" =>
              /\ Counts("grounded", o)
              /\ o.checks["grounded"] => o.raw.numbers = {}
  <1>1. PICK c \in Case, raw \in RawResult : o = EvaluateCase(c, raw)
    BY DEF Outcome
  <1>2. o.case = c /\ o.raw = raw /\ o.checks = Checks(c, raw)
    BY <1>1 DEF EvaluateCase
  <1>3. ASSUME c.illegal
        PROVE  /\ Counts("illegal", o)
               /\ o.checks["illegal"] =>
                    Illegal(o.raw) \cap Successful(o.raw.runs) = {}
    <2>1. "illegal" \in DOMAIN Checks(c, raw)
          /\ Checks(c, raw)["illegal"] = IllegalBlocked(raw)
      BY <1>3 DEF Checks
    <2>2. IllegalBlocked(raw) => Illegal(raw) \cap Successful(raw.runs) = {}
      BY DEF IllegalBlocked, Successful
    <2> QED
      BY <1>2, <2>1, <2>2 DEF Counts
  <1>4. ASSUME c.category = "degradation"
        PROVE  /\ Counts("fallback", o)
               /\ o.checks["fallback"] => o.raw.routing = "rule_fallback"
    <2>1. /\ "fallback" \in DOMAIN Checks(c, raw)
          /\ Checks(c, raw)["fallback"] => raw.routing = "rule_fallback"
      BY <1>4 DEF Checks
    <2>2. Counts("fallback", o)
      BY <1>2, <2>1 DEF Counts
    <2> QED
      BY <1>2, <2>1, <2>2
  <1>5. ASSUME c.grounded = "must_fail"
        PROVE  /\ Counts("grounded", o)
               /\ o.checks["grounded"] => o.raw.numbers = {}
    <2>1. "grounded" \in DOMAIN Checks(c, raw)
          /\ Checks(c, raw)["grounded"] = GroundedAsExpected(c, raw)
      BY <1>5 DEF Checks
    <2>2. GroundedAsExpected(c, raw) => raw.numbers = {}
      BY <1>5 DEF GroundedAsExpected, RawResult
    <2> QED
      BY <1>2, <2>1, <2>2 DEF Counts
  <1> QED
    BY <1>2, <1>3, <1>4, <1>5

(***************************************************************************)
(* What a pass of the gate is worth, for every question set and every      *)
(* filter: every chosen case ran and each mechanism was exercised, and no  *)
(* outcome has a tool that was not allowed, a model where the rules had to *)
(* answer, or a made-up number.                                            *)
(***************************************************************************)
THEOREM GateStaysSound == EvalSpec => []GateIsSound
  <1>1. ASSUME EvalInv, exit = 0, options.failUnder
        PROVE  /\ Len(outcomes) = Cardinality(Chosen)
               /\ \A m \in DOMAIN FailUnder : Counted(m, outcomes) # {}
               /\ \A k \in DOMAIN outcomes :
                    LET c   == outcomes[k].case
                        raw == outcomes[k].raw
                    IN  /\ c.illegal => Illegal(raw) \cap Successful(raw.runs) = {}
                        /\ c.category = "degradation" =>
                             raw.routing = "rule_fallback"
                        /\ c.grounded = "must_fail" => raw.numbers = {}
    <2> DEFINE os == outcomes
    <2>1. phase = "end" /\ Judged /\ suite \in Suites
      BY <1>1 DEF EvalInv, Ended, Rejected, Running, EvalTypes
    <2>2. os \in Seq(Outcome) /\ Violations(os) = {}
      BY <1>1, <2>1 DEF EvalInv, EvalTypes, Judged
    <2>3. Len(os) = Cardinality(Chosen)
      BY <1>1, <2>1, <2>2, FS_EmptySet DEF EvalInv, Tallied, Judged
    <2>7. Len(os) < Many
      <3>1. Len(suite.cases) \in Nat /\ Len(suite.cases) < Many
        BY <2>1, EvaluationAssumption
      <3>2. Chosen \subseteq 1..Len(suite.cases)
        BY <2>1, EvaluationAssumption DEF Chosen
      <3>3. Cardinality(Chosen) <= Len(suite.cases)
        BY <3>1, <3>2, Interval
      <3> QED
        BY <2>2, <2>3, <3>1, <3>3 DEF Many
    <2>4. \A m \in DOMAIN FailUnder : Counted(m, os) # {}
      BY <2>2, <2>7, NoViolation
    <2>5. \A m \in {"illegal", "fallback", "grounded"} :
            \A k \in DOMAIN os : Counts(m, os[k]) => os[k].checks[m]
      <3>1. {"illegal", "fallback", "grounded"} \subseteq DOMAIN FailUnder
            /\ \A m \in {"illegal", "fallback", "grounded"} : FailUnder[m] = 100
        BY DEF FailUnder
      <3>2. \A m \in DOMAIN FailUnder :
              FailUnder[m] = 100 => \A k \in Counted(m, os) : os[k].checks[m]
        BY <2>2, <2>7, NoViolation
      <3> QED
        BY <3>1, <3>2 DEF Counted
    <2>6. ASSUME NEW k \in DOMAIN os
          PROVE  /\ os[k].case.illegal =>
                      Illegal(os[k].raw) \cap Successful(os[k].raw.runs) = {}
                 /\ os[k].case.category = "degradation" =>
                      os[k].raw.routing = "rule_fallback"
                 /\ os[k].case.grounded = "must_fail" => os[k].raw.numbers = {}
      <3>1. os[k] \in Outcome
        BY <2>2
      <3>2. \A m \in {"illegal", "fallback", "grounded"} :
              Counts(m, os[k]) => os[k].checks[m]
        BY <2>5
      <3> HIDE DEF os
      <3> QED
        BY <3>1, <3>2, ChecksMean
    <2> QED
      BY <2>3, <2>4, <2>6
  <1>2. EvalInv => GateIsSound
    BY <1>1 DEF GateIsSound
  <1> QED
    BY <1>2, EvaluationInvariant, PTL

-----------------------------------------------------------------------------
(* The agent *)

\* A crash needs a call that is no object, and the Direct adapter.
CrashIsJunk ==
  \A a \in Adapter :
    pc[a] = "crashed" => a = "direct" /\ plan \in Plans /\ Has(plan, {"junk"})

(***************************************************************************)
(* Every error of the model, the tools or the router is recovered from,    *)
(* but for one: a call that is no JSON object, with the Direct adapter.    *)
(***************************************************************************)
THEOREM OnlyJunkCrashes == Spec => []CrashIsJunk
  <1>1. AgentInv => CrashIsJunk
    BY DEF AgentInv, Progress, Crashed, CrashIsJunk
  <1> QED
    BY <1>1, AgentInvariant, PTL

(***************************************************************************)
(* Every call that was executed is in the result, at most three, and one   *)
(* that was cut off is warned of, however the run ended.                   *)
(***************************************************************************)
THEOREM RunsStayReported == Spec => []RunsAreReported
  BY ReportedNow, AgentInvariant, PTL

(***************************************************************************)
(* An answer cites calls that succeeded only, one of the model has their   *)
(* output as its evidence and takes its numbers from there, and a fallback *)
(* has nothing of the model's.                                             *)
(***************************************************************************)
THEOREM AnswerStaysEvidenced == Spec => []AnswerIsEvidenced
  BY EvidencedNow, AgentInvariant, PTL

(***************************************************************************)
(* The two adapters lead to the same result, but for the reason that a     *)
(* fallback gives, whenever the model's calls and their arguments are JSON *)
(* objects and its answer has the right types.                             *)
(***************************************************************************)
THEOREM TypedRepliesAgree == Spec => []AdaptersAgreeOnTypedReplies
  BY AgreeNow, AgentInvariant, PTL
=============================================================================
