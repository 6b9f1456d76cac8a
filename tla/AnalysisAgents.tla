---------------------------- MODULE AnalysisAgents ----------------------------
(***************************************************************************)
(* The analysis of one investigation: the rca, the recommendation and the  *)
(* communication agent (agents/rca, agents/recommendation,                 *)
(* agents/communication) and their nodes, one after the other, each a      *)
(* prompt to a model that raises, answers nonsense or answers items, and   *)
(* the guardrails on what it answered.  The agents are shared by the       *)
(* investigations of the process, and remember the model of their last     *)
(* answer: it is written when an answer comes, by whichever run, and read  *)
(* when an output is put together.                                         *)
(***************************************************************************)
EXTENDS InvestigationGraph, ConfidenceGrades, Sequences

CONSTANTS
    Evidence,       \* the ids the citations and the evidence may have
    Invented,       \* ids a model makes up
    StatedGrades,   \* the grades a model states; one that is none is `odd'
    MaxItems,       \* the usable items of one answer (bound)
    MaxAlternatives,\* the usable alternatives of one answer (bound)
    MaxCauses,      \* max_causes
    MaxSteps,       \* max_steps
    MaxAttempts     \* llm_max_attempts

ASSUME AnalysisAssumption ==
    /\ Evidence \cap Invented = {}
    /\ StatedGrades \subseteq Grade \cup {"odd"}
    /\ {MaxItems, MaxAlternatives} \subseteq Nat
    /\ {MaxCauses, MaxSteps, MaxAttempts} \subseteq Nat \ {0}

ASSUME AllWired == Wired = Optional

VARIABLES
    stage,          \* the node that runs, human_review when they are done
    attempt,        \* the answers of its model that did not parse
    answered,       \* complete() has returned and the run is past its await
    provided,       \* the ids of this investigation's citations and evidence
    board,          \* the fields of the blackboard that route the graph
    rca,            \* state["rca"]
    advice,         \* state["recommendations"]
    comms,          \* state["communications"]
    lastModel       \* _last_model_id of the agent of this stage, by whose run

vars == <<stage, attempt, answered, provided, board, rca, advice, comms, lastModel>>

Stages == {"rca", "recommendation", "communication"}

Whose == {"nobody", "ours", "theirs"}

NoRca    == [causes |-> <<>>, alternatives |-> <<>>, overall |-> Unset,
             degraded |-> FALSE, model |-> "nobody"]
NoAdvice == [steps |-> <<>>, degraded |-> FALSE, model |-> "nobody"]
NoComms  == [drafts |-> "none", degraded |-> FALSE, model |-> "nobody"]

\* The superstep before left a triaged investigation; any of the agents may
\* have answered another one before.
Init ==
    /\ stage = "rca" /\ attempt = 0 /\ answered = FALSE
    /\ provided \in SUBSET Evidence
    /\ board = [BlankValues EXCEPT !.incident = TRUE, !.recommended_triage = "full",
                                   !.status = "triaged"]
    /\ rca = NoRca /\ advice = NoAdvice /\ comms = NoComms
    /\ lastModel \in {"nobody", "theirs"}

\* complete() returns, and the agent notes the model of the answer.
LlmAnswers ==
    /\ stage \in Stages /\ ~answered
    /\ answered' = TRUE
    /\ lastModel' = "ours"
    /\ UNCHANGED <<stage, attempt, provided, board, rca, advice, comms>>

\* Mutant of OtherRunAnswers: something is awaited between the answer and the
\* use of what was noted, so that another run comes in between.
OtherRunAnswersAnytime ==
    /\ stage \in Stages
    /\ lastModel' = "theirs"
    /\ UNCHANGED <<stage, attempt, answered, provided, board, rca, advice, comms>>

\* The agent answers another investigation and notes its model; other runs get
\* their turn only while this one awaits.
OtherRunAnswers ==
    /\ stage \in Stages /\ ~answered
    /\ lastModel' = "theirs"
    /\ UNCHANGED <<stage, attempt, answered, provided, board, rca, advice, comms>>

\* Node n leaves the blackboard w, and the graph goes on from there.
Leave(n, w) ==
    /\ board' = w
    /\ stage' \in Edges(n, w)
    /\ attempt' = 0
    /\ answered' = FALSE
    /\ lastModel' \in {"nobody", "theirs"}

----------------------------------------------------------------------------
\* rca
CONF_OR_LOW(g) == IF g \in Grade THEN g ELSE "low"

Item  == [refs : SUBSET (Evidence \cup Invented), conf : StatedGrades]
Cause == [refs : SUBSET (Evidence \cup Invented), conf : Grade]

Items(S, max) == UNION {[1..n -> S] : n \in 0..max}

\* valid_refs filters the references only if there are any.
Refs(item) == IF provided # {} THEN item.refs \cap provided ELSE item.refs

Capped(refs, conf) == IF refs = {} /\ conf \in {"high", "medium"} THEN "low" ELSE conf

\* Mutant of BuiltCause: the confidence is capped by the references as stated.
BuiltCauseEarly(item) ==
    [refs |-> Refs(item), conf |-> Capped(item.refs, CONF_OR_LOW(item.conf))]

BuiltCause(item) ==
    [refs |-> Refs(item), conf |-> Capped(Refs(item), CONF_OR_LOW(item.conf))]

\* _build and the cut; an item that is no dictionary or states nothing is
\* skipped, so that the answers below hold the usable items only.
Causes(items, n) ==
    [i \in 1..(IF Len(items) < n THEN Len(items) ELSE n) |-> BuiltCause(items[i])]

\* Mutant of Overall: the model's own grade, as it came.
OverallStated(stated, causes) == stated

\* The stated grade, but no more than that of the strongest cause.
Overall(stated, causes) ==
    LET strongest == CHOOSE g \in {causes[i].conf : i \in DOMAIN causes} :
                         \A i \in DOMAIN causes : CONF_RANK[causes[i].conf] <= CONF_RANK[g]
    IN  min_conf(CONF_OR_LOW(stated), strongest)

\* The fallback of the agent, and of its node when the agent raises.
RcaFallback ==
    [causes |-> <<[refs |-> {}, conf |-> "speculative"]>>, alternatives |-> <<>>,
     overall |-> "speculative", degraded |-> TRUE, model |-> "nobody"]

\* Mutant of DeliverRca: a degraded analysis says nothing of its confidence.
DeliverRcaSilent(r) ==
    /\ rca' = r
    /\ Leave("rca", IF r.degraded THEN board ELSE [board EXCEPT !.rca_confidence = r.overall])
    /\ UNCHANGED <<provided, advice, comms>>

DeliverRca(r) ==
    /\ rca' = r
    /\ Leave("rca", [board EXCEPT !.rca_confidence = r.overall])
    /\ UNCHANGED <<provided, advice, comms>>

RcaAnswers ==
    /\ stage = "rca" /\ answered
    /\ \E ranked \in Items(Item, MaxItems), others \in Items(Item, MaxAlternatives), stated \in StatedGrades :
           LET causes == Causes(ranked, MaxCauses)
           IN  DeliverRca(IF causes = <<>> THEN RcaFallback
                          ELSE [causes       |-> causes,
                                alternatives |-> Causes(others, MaxAlternatives),
                                overall      |-> Overall(stated, causes),
                                degraded     |-> FALSE,
                                model        |-> lastModel])

----------------------------------------------------------------------------
\* recommendation
Risk     == {"low", "medium", "high"}
Approval == {"none", "human_approval", "human_approval_and_change"}

RawStep == [prod : BOOLEAN, risk : Risk \cup {"odd"}, approval : Approval \cup {"odd"}]
Step    == [prod : BOOLEAN, risk : Risk, approval : Approval]

\* Mutant of Required: a stated approval stands.
RequiredUnlessStated(prod, risk, approval) ==
    IF approval # "none" \/ ~prod THEN approval
    ELSE IF risk = "high" THEN "human_approval_and_change" ELSE "human_approval"

\* The guardrail on production-impacting steps.
Required(prod, risk, approval) ==
    IF prod /\ risk = "high" THEN "human_approval_and_change"
    ELSE IF prod /\ approval = "none" THEN "human_approval"
    ELSE approval

\* _normalize: what the step states, or the default where it states nothing known.
Normalized(raw) ==
    LET risk     == IF raw.risk \in Risk THEN raw.risk ELSE "low"
        approval == IF raw.approval \in Approval THEN raw.approval ELSE "none"
    IN  [prod |-> raw.prod, risk |-> risk, approval |-> Required(raw.prod, risk, approval)]

Steps(items) ==
    [i \in 1..(IF Len(items) < MaxSteps THEN Len(items) ELSE MaxSteps) |-> Normalized(items[i])]

Diagnostics == [prod |-> FALSE, risk |-> "low", approval |-> "none"]

AdviceFallback == [steps |-> <<Diagnostics>>, degraded |-> TRUE, model |-> "nobody"]

\* The delta of the node when the agent raises.
AdviceRaised == [AdviceFallback EXCEPT !.steps = <<>>]

DeliverAdvice(a) ==
    /\ advice' = a
    /\ Leave("recommendation", [board EXCEPT !.recommendations = TRUE])
    /\ UNCHANGED <<provided, rca, comms>>

AdviceAnswers ==
    /\ stage = "recommendation" /\ answered
    /\ \E items \in Items(RawStep, MaxItems) :
           DeliverAdvice(IF items = <<>> THEN AdviceFallback
                         ELSE [steps |-> Steps(items), degraded |-> FALSE,
                               model |-> lastModel])

----------------------------------------------------------------------------
\* communication: the drafts are the model's text or a template's, and name
\* whatever model the agent remembers; the node's own delta, should the agent
\* raise, has none and names nobody.
DeliverComms(drafts, model) ==
    /\ comms' = [drafts |-> drafts, degraded |-> drafts # "model", model |-> model]
    /\ Leave("communication", board)
    /\ UNCHANGED <<provided, rca, advice>>

CommsAnswers == stage = "communication" /\ answered /\ DeliverComms("model", lastModel)

CommsRaised == stage = "communication" /\ DeliverComms("empty", "nobody")

----------------------------------------------------------------------------
\* _synthesize raised: the fallback of the stage's agent.
FallBack ==
    \/ stage = "rca" /\ DeliverRca(RcaFallback)
    \/ stage = "recommendation" /\ DeliverAdvice(AdviceFallback)
    \/ stage = "communication" /\ DeliverComms("template", lastModel)

\* complete() raises; it is not called again.
LlmRaises == ~answered /\ FallBack

\* Mutant of LlmUnparseable: the repair is asked for as long as it takes.
LlmUnparseableAgain ==
    /\ stage \in Stages /\ answered
    /\ attempt' = 1
    /\ answered' = FALSE
    /\ UNCHANGED <<stage, provided, board, rca, advice, comms, lastModel>>

LlmUnparseable ==
    /\ stage \in Stages /\ answered
    /\ IF attempt + 1 < MaxAttempts
       THEN /\ attempt' = attempt + 1
            /\ answered' = FALSE
            /\ UNCHANGED <<stage, provided, board, rca, advice, comms, lastModel>>
       ELSE FallBack

\* One item with a field of an unexpected type makes the whole run raise.
ItemMalformed ==
    /\ answered
    /\ \/ stage = "rca" /\ DeliverRca(RcaFallback)
       \/ stage = "recommendation" /\ DeliverAdvice(AdviceRaised)

\* The analysis rests at the review.
AtReview == stage = "human_review" /\ UNCHANGED vars

AgentStep ==
    \/ LlmAnswers \/ LlmRaises \/ LlmUnparseable \/ ItemMalformed
    \/ RcaAnswers \/ AdviceAnswers \/ CommsAnswers \/ CommsRaised

Next == AgentStep \/ OtherRunAnswers \/ AtReview

\* A call of the model ends, by its answer or its timeout.
Spec == Init /\ [][Next]_vars /\ WF_vars(AgentStep)

----------------------------------------------------------------------------
TypeOK ==
    /\ stage \in Stages \cup {"human_review"}
    /\ attempt \in 0..(MaxAttempts - 1) /\ answered \in BOOLEAN
    /\ provided \subseteq Evidence
    /\ board \in Values
    /\ rca.causes \in Seq(Cause) /\ rca.alternatives \in Seq(Cause)
    /\ rca.overall \in Grade \cup {Unset} /\ rca.degraded \in BOOLEAN
    /\ advice.steps \in Seq(Step) /\ advice.degraded \in BOOLEAN
    /\ {rca.model, advice.model, comms.model, lastModel} \subseteq Whose

(***************************************************************************)
(* A recommendation is asked for only on an analysis that something        *)
(* supports: if the investigation has citations or evidence, a cause of    *)
(* medium or high confidence refers to some of it, whatever references and *)
(* grades the model made up.                                               *)
(***************************************************************************)
Supported ==
    \E i \in DOMAIN rca.causes :
        /\ CONF_RANK[rca.causes[i].conf] >= CONF_RANK["medium"]
        /\ rca.causes[i].refs \cap provided # {}

AdvisedOnEvidence ==
    stage \in {"recommendation", "communication"} /\ provided # {} => Supported

(***************************************************************************)
(* Agents-3-6-Implementation.md: ungrounded references are dropped, and a  *)
(* cause without grounded evidence is capped to low; so also without any   *)
(* evidence.                                                               *)
(***************************************************************************)
AdvisedOnlyOnEvidence ==
    stage \in {"recommendation", "communication"} => Supported

(***************************************************************************)
(* If anything was provided, the rca agent passes on no reference that was *)
(* not, neither with a ranked cause nor with an alternative.  (The         *)
(* references of a recommendation's step are passed on as the model states *)
(* them, and left out here.)                                               *)
(***************************************************************************)
RefsProvided ==
    provided # {} =>
        /\ \A i \in DOMAIN rca.causes : rca.causes[i].refs \subseteq provided
        /\ \A i \in DOMAIN rca.alternatives : rca.alternatives[i].refs \subseteq provided

(***************************************************************************)
(* An analysis that failed in any way escalates: the graph recommends      *)
(* nothing on it.                                                          *)
(***************************************************************************)
DegradedEscalates ==
    rca.degraded => stage = "human_review" /\ advice = NoAdvice /\ comms = NoComms

(***************************************************************************)
(* The structural guardrail of agent 5: whatever the model states, a step  *)
(* that impacts production asks for approval, and one that is also of high *)
(* risk for a change as well.                                              *)
(***************************************************************************)
ProdStepsApproved ==
    \A i \in DOMAIN advice.steps :
        LET s == advice.steps[i]
        IN  s.prod => /\ s.approval # "none"
                      /\ s.risk = "high" => s.approval = "human_approval_and_change"

(***************************************************************************)
(* _last_model_id: an output that is not degraded names the model that     *)
(* answered this investigation, though other investigations use the same   *)
(* agents and write the same attribute while this one awaits its answer.   *)
(***************************************************************************)
ModelAttributed ==
    /\ rca.causes # <<>> /\ ~rca.degraded => rca.model = "ours"
    /\ advice.steps # <<>> /\ ~advice.degraded => advice.model = "ours"
    /\ comms.drafts = "model" => comms.model = "ours"

(***************************************************************************)
(* What the agents really do to the blackboard is what InvestigationGraph  *)
(* says of their nodes: every completed stage is one of its steps.         *)
(***************************************************************************)
ImplementsGraph ==
    [][stage' # stage => board' \in After(stage, board) /\ stage' \in Edges(stage, board')]_vars

(***************************************************************************)
(* Whatever the models do, the analysis reaches the human review.          *)
(***************************************************************************)
AnalysisEnds == <>(stage = "human_review")

(***************************************************************************)
(* The two guardrails on the items of an answer, whatever the model        *)
(* states: with evidence an analysis refers to nothing else, and steps on  *)
(* production are approved.                                                *)
(***************************************************************************)
AnswersGuarded == RefsProvided /\ ProdStepsApproved
===============================================================================
