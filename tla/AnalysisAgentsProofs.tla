------------------------- MODULE AnalysisAgentsProofs -------------------------
(***************************************************************************)
(* Proofs about AnalysisAgents for any evidence, any references a model    *)
(* makes up, any grades it states and any bounds of the configuration.     *)
(***************************************************************************)
EXTENDS AnalysisAgents, SequenceTheorems, TLAPS

(***************************************************************************)
(* What an output must be for the guardrails to hold, whichever path of    *)
(* the agent it came from.                                                 *)
(***************************************************************************)
ProvidedOnly(causes) == \A i \in DOMAIN causes : causes[i].refs \subseteq provided

Grounded(causes) ==
    \E i \in DOMAIN causes :
        /\ CONF_RANK[causes[i].conf] >= CONF_RANK["medium"]
        /\ causes[i].refs \cap provided # {}

GoodRca(r) ==
    /\ r.causes \in Seq(Cause) /\ r.alternatives \in Seq(Cause)
    /\ r.overall \in Grade /\ r.degraded \in BOOLEAN /\ r.model \in Whose
    /\ r.degraded => r.overall = "speculative"
    /\ ~r.degraded => r.model = "ours"
    /\ provided # {} => ProvidedOnly(r.causes) /\ ProvidedOnly(r.alternatives)
    /\ provided # {} /\ r.overall \in {"medium", "high"} => Grounded(r.causes)

Approved(s) ==
    s.prod => /\ s.approval # "none"
              /\ s.risk = "high" => s.approval = "human_approval_and_change"

GoodAdvice(a) ==
    /\ a.steps \in Seq(Step) /\ a.degraded \in BOOLEAN /\ a.model \in Whose
    /\ ~a.degraded => a.model = "ours"
    /\ \A i \in DOMAIN a.steps : Approved(a.steps[i])

----------------------------------------------------------------------------
\* Items are sequences of at most max elements.
LEMMA ItemsAreSequences ==
    ASSUME NEW S, NEW max \in Nat, NEW items \in Items(S, max)
    PROVE  /\ items \in Seq(S) /\ Len(items) \in 0..max
           /\ \A i \in 1..Len(items) : items[i] \in S
<1>1. PICK n \in 0..max : items \in [1..n -> S]
    BY DEF Items
<1>2. n \in Nat /\ items \in Seq(S)
    BY <1>1, SeqDef
<1>3. Len(items) = n
    BY <1>1, <1>2, LenProperties
<1> QED
    BY <1>1, <1>2, <1>3

\* The bounds are numbers.
LEMMA Bounds ==
    /\ MaxItems \in Nat /\ MaxAlternatives \in Nat
    /\ MaxCauses \in Nat /\ MaxSteps \in Nat /\ MaxAttempts \in Nat \ {0}
BY AnalysisAssumption

\* A cause the guardrails have built is typed, refers to nothing that was not
\* provided if anything was, and is of more than low confidence only with a
\* reference.
LEMMA BuiltCauseGood ==
    ASSUME NEW item \in Item, provided \subseteq Evidence
    PROVE  /\ BuiltCause(item) \in Cause
           /\ provided # {} => BuiltCause(item).refs \subseteq provided
           /\ BuiltCause(item).conf \in {"medium", "high"} => BuiltCause(item).refs # {}
<1>1. CONF_OR_LOW(item.conf) \in Grade
    BY DEF CONF_OR_LOW, Grade
<1>2. Refs(item) \subseteq Evidence \cup Invented
    BY DEF Refs, Item
<1>3. provided # {} => Refs(item) \subseteq provided
    BY DEF Refs
<1>4. Capped(Refs(item), CONF_OR_LOW(item.conf)) \in Grade
    BY <1>1 DEF Capped, Grade
<1>5. Capped(Refs(item), CONF_OR_LOW(item.conf)) \in {"medium", "high"} => Refs(item) # {}
    BY DEF Capped
<1> QED
    BY <1>2, <1>3, <1>4, <1>5 DEF BuiltCause, Cause

\* So is each of a list of causes.
LEMMA CausesGood ==
    ASSUME NEW items \in Seq(Item), NEW n \in Nat, provided \subseteq Evidence
    PROVE  /\ Causes(items, n) \in Seq(Cause)
           /\ provided # {} => ProvidedOnly(Causes(items, n))
           /\ \A i \in DOMAIN Causes(items, n) :
                  Causes(items, n)[i].conf \in {"medium", "high"}
                      => Causes(items, n)[i].refs # {}
<1> DEFINE m == IF Len(items) < n THEN Len(items) ELSE n
<1>1. m \in Nat /\ m <= Len(items)
    BY LenProperties
<1>2. \A i \in 1..m : items[i] \in Item
    BY <1>1, ElementOfSeq
<1>3. Causes(items, n) = [i \in 1..m |-> BuiltCause(items[i])]
    BY DEF Causes
<1>4. Causes(items, n) \in [1..m -> Cause]
    <2>1. \A i \in 1..m : BuiltCause(items[i]) \in Cause
        BY <1>2, BuiltCauseGood
    <2> QED
        BY <2>1, <1>3
<1>5. Causes(items, n) \in Seq(Cause)
    BY <1>1, <1>4, SeqDef
<1>6. \A i \in DOMAIN Causes(items, n) :
          i \in 1..m /\ Causes(items, n)[i] = BuiltCause(items[i])
    BY <1>3
<1> HIDE DEF m
<1> QED
    BY <1>2, <1>5, <1>6, BuiltCauseGood DEF ProvidedOnly

\* Among some grades one is the strongest.
LEMMA StrongestExists ==
    ASSUME NEW G \in SUBSET Grade, G # {}
    PROVE  \E g \in G : \A h \in G : CONF_RANK[h] <= CONF_RANK[g]
<1>1. /\ CONF_RANK["speculative"] = 0 /\ CONF_RANK["low"] = 1
      /\ CONF_RANK["medium"] = 2 /\ CONF_RANK["high"] = 3
    BY DEF CONF_RANK
<1>2. \A h \in G : h \in {"speculative", "low", "medium", "high"}
    BY DEF Grade
<1>3. CASE "high" \in G
    BY <1>1, <1>2, <1>3
<1>4. CASE "high" \notin G /\ "medium" \in G
    BY <1>1, <1>2, <1>4
<1>5. CASE "high" \notin G /\ "medium" \notin G /\ "low" \in G
    BY <1>1, <1>2, <1>5
<1>6. CASE G = {"speculative"}
    BY <1>1, <1>6
<1> QED
    BY <1>2, <1>3, <1>4, <1>5, <1>6

\* The overall grade is a grade, and no higher than that of some cause.
LEMMA OverallGood ==
    ASSUME NEW stated, NEW causes \in Seq(Cause), causes # <<>>
    PROVE  /\ Overall(stated, causes) \in Grade
           /\ \E i \in DOMAIN causes :
                  CONF_RANK[Overall(stated, causes)] <= CONF_RANK[causes[i].conf]
<1> DEFINE G == {causes[i].conf : i \in DOMAIN causes}
<1> DEFINE IsStrongest(g) == \A i \in DOMAIN causes : CONF_RANK[causes[i].conf] <= CONF_RANK[g]
<1>1. \A i \in DOMAIN causes : causes[i] \in Cause
    BY LenProperties, ElementOfSeq
<1>2. G \subseteq Grade
    BY <1>1 DEF Cause
<1>3. G # {}
    <2>1. DOMAIN causes = 1..Len(causes) /\ Len(causes) \in Nat \ {0}
        BY LenProperties, EmptySeq
    <2>2. 1 \in DOMAIN causes
        BY <2>1
    <2> QED
        BY <2>2
<1>4. \E g \in G : IsStrongest(g)
    <2>1. \A i \in DOMAIN causes : causes[i].conf \in G
        OBVIOUS
    <2> HIDE DEF G
    <2> QED
        BY <1>2, <1>3, <2>1, StrongestExists
<1>5. PICK g \in G : g = CHOOSE x \in G : IsStrongest(x)
    BY <1>4
<1>6. Overall(stated, causes) = min_conf(CONF_OR_LOW(stated), g)
    BY <1>5 DEF Overall
<1>7. CONF_OR_LOW(stated) \in Grade
    BY DEF CONF_OR_LOW, Grade
<1>8. PICK i \in DOMAIN causes : g = causes[i].conf
    BY <1>5
<1>9. g \in Grade
    BY <1>2, <1>5
<1>10. /\ min_conf(CONF_OR_LOW(stated), g) \in Grade
       /\ CONF_RANK[min_conf(CONF_OR_LOW(stated), g)] <= CONF_RANK[g]
    BY <1>7, <1>9 DEF min_conf, Grade, CONF_RANK
<1> QED
    BY <1>6, <1>8, <1>10

\* Whatever the model answers, what the rca agent delivers is good.
LEMMA AnsweredRcaGood ==
    ASSUME provided \subseteq Evidence, lastModel = "ours",
           NEW ranked \in Items(Item, MaxItems), NEW others \in Items(Item, MaxAlternatives),
           NEW stated, Causes(ranked, MaxCauses) # <<>>
    PROVE  GoodRca([causes       |-> Causes(ranked, MaxCauses),
                    alternatives |-> Causes(others, MaxAlternatives),
                    overall      |-> Overall(stated, Causes(ranked, MaxCauses)),
                    degraded     |-> FALSE,
                    model        |-> lastModel])
<1> DEFINE causes == Causes(ranked, MaxCauses)
<1> DEFINE alternatives == Causes(others, MaxAlternatives)
<1> DEFINE overall == Overall(stated, causes)
<1>1. ranked \in Seq(Item) /\ others \in Seq(Item)
    BY Bounds, ItemsAreSequences
<1>2. /\ causes \in Seq(Cause) /\ alternatives \in Seq(Cause)
      /\ provided # {} => ProvidedOnly(causes) /\ ProvidedOnly(alternatives)
      /\ \A i \in DOMAIN causes : causes[i].conf \in {"medium", "high"} => causes[i].refs # {}
    BY <1>1, Bounds, CausesGood
<1>3. /\ overall \in Grade
      /\ \E i \in DOMAIN causes : CONF_RANK[overall] <= CONF_RANK[causes[i].conf]
    BY <1>2, OverallGood
<1> HIDE DEF causes, alternatives, overall
<1>4. ASSUME provided # {}, overall \in {"medium", "high"}
      PROVE  Grounded(causes)
    <2>1. PICK i \in DOMAIN causes : CONF_RANK[overall] <= CONF_RANK[causes[i].conf]
        BY <1>3
    <2>2. causes[i] \in Cause
        BY <1>2, LenProperties, ElementOfSeq
    <2>3. causes[i].conf \in Grade /\ causes[i].refs \subseteq provided
        BY <2>2, <1>2, <1>4 DEF Cause, ProvidedOnly
    <2>4. causes[i].conf \in {"medium", "high"}
        BY <2>1, <2>3, <1>4 DEF Grade, CONF_RANK
    <2>5. causes[i].refs # {}
        BY <2>4, <1>2
    <2>6. CONF_RANK[causes[i].conf] >= CONF_RANK["medium"]
        BY <2>4 DEF CONF_RANK
    <2> QED
        BY <2>3, <2>5, <2>6 DEF Grounded
<1> QED
    BY <1>2, <1>3, <1>4 DEF GoodRca, Whose, causes, alternatives, overall

LEMMA FallbackRcaGood == GoodRca(RcaFallback)
<1>1. [refs |-> {}, conf |-> "speculative"] \in Cause
    BY DEF Cause, Grade
<1>2. RcaFallback.causes \in Seq(Cause) /\ RcaFallback.alternatives \in Seq(Cause)
    BY <1>1 DEF RcaFallback
<1>3. ProvidedOnly(RcaFallback.causes) /\ ProvidedOnly(RcaFallback.alternatives)
    BY DEF ProvidedOnly, RcaFallback
<1> QED
    BY <1>2, <1>3 DEF GoodRca, RcaFallback, Grade, Whose

\* Whatever a step states, once normalized it asks for the approval it needs.
LEMMA NormalizedApproved ==
    ASSUME NEW raw \in RawStep
    PROVE  Normalized(raw) \in Step /\ Approved(Normalized(raw))
<1> DEFINE risk == IF raw.risk \in Risk THEN raw.risk ELSE "low"
<1> DEFINE approval == IF raw.approval \in Approval THEN raw.approval ELSE "none"
<1>1. raw.prod \in BOOLEAN /\ risk \in Risk /\ approval \in Approval
    BY DEF RawStep, Risk, Approval
<1>2. Normalized(raw) = [prod |-> raw.prod, risk |-> risk,
                         approval |-> Required(raw.prod, risk, approval)]
    BY DEF Normalized
<1> HIDE DEF risk, approval
<1>3. Required(raw.prod, risk, approval) \in Approval
    BY <1>1 DEF Required, Approval
<1>4. raw.prod => /\ Required(raw.prod, risk, approval) # "none"
                  /\ risk = "high" =>
                         Required(raw.prod, risk, approval) = "human_approval_and_change"
    BY <1>1 DEF Required
<1> QED
    BY <1>1, <1>2, <1>3, <1>4 DEF Step, Approved

LEMMA AnsweredAdviceGood ==
    ASSUME lastModel = "ours", NEW items \in Items(RawStep, MaxItems)
    PROVE  GoodAdvice([steps |-> Steps(items), degraded |-> FALSE, model |-> lastModel])
<1> DEFINE m == IF Len(items) < MaxSteps THEN Len(items) ELSE MaxSteps
<1>1. Len(items) \in Nat /\ \A i \in 1..Len(items) : items[i] \in RawStep
    BY Bounds, ItemsAreSequences
<1>2. m \in Nat /\ m <= Len(items)
    BY <1>1, Bounds
<1>3. Steps(items) = [i \in 1..m |-> Normalized(items[i])]
    BY DEF Steps
<1>4. \A i \in 1..m : items[i] \in RawStep
    BY <1>1, <1>2
<1> HIDE DEF m
<1>5. Steps(items) \in [1..m -> Step]
    BY <1>3, <1>4, NormalizedApproved
<1>6. Steps(items) \in Seq(Step)
    BY <1>2, <1>5, SeqDef
<1>7. \A i \in DOMAIN Steps(items) : Approved(Steps(items)[i])
    BY <1>3, <1>4, NormalizedApproved
<1> QED
    BY <1>6, <1>7 DEF GoodAdvice, Whose

LEMMA FallbackAdviceGood == GoodAdvice(AdviceFallback) /\ GoodAdvice(AdviceRaised)
<1>1. Diagnostics \in Step /\ Approved(Diagnostics)
    BY DEF Diagnostics, Step, Risk, Approval, Approved
<1>2. GoodAdvice(AdviceFallback)
    <2>1. AdviceFallback.steps = <<Diagnostics>> /\ AdviceFallback.degraded = TRUE
          /\ AdviceFallback.model = "nobody"
        BY DEF AdviceFallback
    <2>2. <<Diagnostics>> \in Seq(Step)
        BY <1>1
    <2>3. \A i \in DOMAIN <<Diagnostics>> : Approved(<<Diagnostics>>[i])
        BY <1>1
    <2> QED
        BY <2>1, <2>2, <2>3 DEF GoodAdvice, Whose
<1>3. AdviceRaised.steps = <<>> /\ AdviceRaised.degraded = TRUE
      /\ AdviceRaised.model = "nobody"
    BY DEF AdviceRaised, AdviceFallback
<1>4. GoodAdvice(AdviceRaised)
    <2>1. <<>> \in Seq(Step) /\ DOMAIN <<>> = {}
        OBVIOUS
    <2>2. \A i \in DOMAIN AdviceRaised.steps : Approved(AdviceRaised.steps[i])
        BY <1>3, <2>1
    <2> QED
        BY <1>3, <2>1, <2>2 DEF GoodAdvice, Whose
<1> QED
    BY <1>2, <1>4

----------------------------------------------------------------------------
(***************************************************************************)
(* Past its await, an agent remembers the model that answered this run.    *)
(***************************************************************************)
Noted == answered => lastModel = "ours"

(***************************************************************************)
(* The things a step of an agent can be.                                   *)
(***************************************************************************)
RcaStep == \E r : stage = "rca" /\ GoodRca(r) /\ DeliverRca(r)

AdviceStep == \E a : stage = "recommendation" /\ GoodAdvice(a) /\ DeliverAdvice(a)

CommsStep ==
    \E drafts \in {"empty", "template", "model"}, model \in Whose :
        /\ stage = "communication" /\ (drafts = "model" => model = "ours")
        /\ DeliverComms(drafts, model)

\* Only what the run asks and has heard changes.
Talk ==
    /\ UNCHANGED <<stage, provided, board, rca, advice, comms>>
    /\ attempt' \in 0..(MaxAttempts - 1) /\ answered' \in BOOLEAN
    /\ lastModel' \in Whose /\ (answered' => lastModel' = "ours")

LEMMA FallBackCases ==
    ASSUME lastModel \in Whose, FallBack
    PROVE  RcaStep \/ AdviceStep \/ CommsStep
<1>1. CASE stage = "rca" /\ DeliverRca(RcaFallback)
    BY <1>1, FallbackRcaGood DEF RcaStep
<1>2. CASE stage = "recommendation" /\ DeliverAdvice(AdviceFallback)
    BY <1>2, FallbackAdviceGood DEF AdviceStep
<1>3. CASE stage = "communication" /\ DeliverComms("template", lastModel)
    BY <1>3 DEF CommsStep
<1> QED
    BY <1>1, <1>2, <1>3 DEF FallBack

LEMMA StepCases ==
    ASSUME TypeOK, Noted, AgentStep
    PROVE  RcaStep \/ AdviceStep \/ CommsStep \/ Talk
<1>1. CASE RcaAnswers
    <2>1. PICK ranked \in Items(Item, MaxItems), others \in Items(Item, MaxAlternatives),
               stated \in StatedGrades :
              LET causes == Causes(ranked, MaxCauses)
              IN  DeliverRca(IF causes = <<>> THEN RcaFallback
                             ELSE [causes       |-> causes,
                                   alternatives |-> Causes(others, MaxAlternatives),
                                   overall      |-> Overall(stated, causes),
                                   degraded     |-> FALSE,
                                   model        |-> lastModel])
        BY <1>1 DEF RcaAnswers
    <2>2. stage = "rca" /\ provided \subseteq Evidence /\ lastModel = "ours"
        BY <1>1 DEF RcaAnswers, TypeOK, Noted
    <2>3. CASE Causes(ranked, MaxCauses) = <<>>
        BY <2>1, <2>2, <2>3, FallbackRcaGood DEF RcaStep
    <2>4. CASE Causes(ranked, MaxCauses) # <<>>
        BY <2>1, <2>2, <2>4, AnsweredRcaGood DEF RcaStep
    <2> QED
        BY <2>3, <2>4
<1>2. CASE AdviceAnswers
    <2>1. PICK items \in Items(RawStep, MaxItems) :
              DeliverAdvice(IF items = <<>> THEN AdviceFallback
                            ELSE [steps |-> Steps(items), degraded |-> FALSE,
                                  model |-> lastModel])
        BY <1>2 DEF AdviceAnswers
    <2>2. stage = "recommendation" /\ lastModel = "ours"
        BY <1>2 DEF AdviceAnswers, Noted
    <2>3. CASE items = <<>>
        BY <2>1, <2>2, <2>3, FallbackAdviceGood DEF AdviceStep
    <2>4. CASE items # <<>>
        BY <2>1, <2>2, <2>4, AnsweredAdviceGood DEF AdviceStep
    <2> QED
        BY <2>3, <2>4
<1>3. CASE CommsAnswers
    BY <1>3 DEF CommsAnswers, CommsStep, Noted, Whose
<1>4. CASE CommsRaised
    BY <1>4 DEF CommsRaised, CommsStep, Whose
<1>5. CASE LlmRaises
    <2>1. lastModel \in Whose
        BY DEF TypeOK
    <2> QED
        BY <1>5, <2>1, FallBackCases DEF LlmRaises
<1>6. CASE LlmUnparseable
    <2>1. CASE attempt + 1 < MaxAttempts
        <3>1. /\ attempt' = attempt + 1 /\ answered' = FALSE
              /\ UNCHANGED <<stage, provided, board, rca, advice, comms, lastModel>>
            BY <1>6, <2>1 DEF LlmUnparseable
        <3>2. attempt + 1 \in 0..(MaxAttempts - 1)
            BY <2>1, Bounds DEF TypeOK
        <3> QED
            BY <3>1, <3>2 DEF Talk, TypeOK
    <2>2. CASE ~(attempt + 1 < MaxAttempts)
        <3>1. lastModel \in Whose /\ FallBack
            BY <1>6, <2>2 DEF LlmUnparseable, TypeOK
        <3> QED
            BY <3>1, FallBackCases
    <2> QED
        BY <2>1, <2>2
<1>7. CASE ItemMalformed
    BY <1>7, FallbackRcaGood, FallbackAdviceGood DEF ItemMalformed, RcaStep, AdviceStep
<1>8. CASE LlmAnswers
    BY <1>8 DEF LlmAnswers, Talk, TypeOK, Whose
<1> QED
    BY <1>1, <1>2, <1>3, <1>4, <1>5, <1>6, <1>7, <1>8 DEF AgentStep

\* Where the graph goes after each of the three nodes.
LEMMA Routes ==
    ASSUME NEW v
    PROVE  /\ Edges("rca", v) = IF v.rca_confidence \in {"low", "speculative"}
                                THEN {"human_review"} ELSE {"recommendation"}
           /\ Edges("recommendation", v) = {"communication"}
           /\ Edges("communication", v) = {"human_review"}
<1>1. "recommendation" \in Wired /\ "communication" \in Wired
    BY AllWired DEF Optional
<1> QED
    BY <1>1 DEF Edges, AfterRca, AfterRecommendation

\* What the analysis leaves on the blackboard for each stage is what
\* InvestigationGraph says of its node.
LEMMA BoardAfter ==
    ASSUME board \in Values
    PROVE  /\ \A g \in Grade :
                  /\ [board EXCEPT !.rca_confidence = g] \in Values
                  /\ [board EXCEPT !.rca_confidence = g].rca_confidence = g
                  /\ [board EXCEPT !.rca_confidence = g] \in After("rca", board)
           /\ [board EXCEPT !.recommendations = TRUE] \in Values
           /\ [board EXCEPT !.recommendations = TRUE] \in After("recommendation", board)
           /\ board \in After("communication", board)
<1>1. Grade = Confidence
    BY DEF Grade, Confidence
<1>2. \A g \in Grade : [board EXCEPT !.rca_confidence = g] \in Values
    BY <1>1 DEF Values
<1>3. \A g \in Grade : [board EXCEPT !.rca_confidence = g].rca_confidence = g
    BY DEF Values
<1>4. [board EXCEPT !.recommendations = TRUE] \in Values
    BY DEF Values
<1>5. After("rca", board) = RcaNode(board)
    BY DEF After
<1>6. After("recommendation", board) = RecommendationNode(board)
    BY DEF After
<1>7. After("communication", board) = {board}
    BY DEF After
<1> QED
    BY <1>1, <1>2, <1>3, <1>4, <1>5, <1>6, <1>7 DEF RcaNode, RecommendationNode

----------------------------------------------------------------------------
(***************************************************************************)
(* The inductive invariant.  Its parts hold one another up: nothing is     *)
(* advised while the rca agent runs, so that a degraded analysis leaves    *)
(* nothing behind.                                                         *)
(***************************************************************************)
NothingAdvisedYet == stage = "rca" => advice = NoAdvice /\ comms = NoComms

IInv ==
    /\ TypeOK
    /\ Noted
    /\ NothingAdvisedYet
    /\ DegradedEscalates
    /\ ProdStepsApproved
    /\ RefsProvided
    /\ AdvisedOnEvidence
    /\ ModelAttributed

LEMMA InitInv == Init => IInv
<1> SUFFICES ASSUME Init PROVE IInv
    OBVIOUS
<1> USE DEF Init, NoRca, NoAdvice, NoComms
<1>1. board \in Values
    BY DEF Values, BlankValues, Triage, Confidence, Outcome, Decision, Unset
<1>2. TypeOK
    <2>1. attempt \in 0..(MaxAttempts - 1)
        BY Bounds
    <2>2. answered \in BOOLEAN
        OBVIOUS
    <2>3. /\ rca.causes \in Seq(Cause) /\ rca.alternatives \in Seq(Cause)
          /\ rca.overall \in Grade \cup {Unset} /\ rca.degraded \in BOOLEAN
          /\ advice.steps \in Seq(Step) /\ advice.degraded \in BOOLEAN
        BY DEF Unset
    <2>4. {rca.model, advice.model, comms.model, lastModel} \subseteq Whose
        BY DEF Whose
    <2>5. stage \in Stages \cup {"human_review"} /\ provided \subseteq Evidence
        BY DEF Stages
    <2> QED
        BY <1>1, <2>1, <2>2, <2>3, <2>4, <2>5 DEF TypeOK
<1>3. NothingAdvisedYet
    BY DEF NothingAdvisedYet
<1>4. DegradedEscalates
    BY DEF DegradedEscalates
<1>5. ProdStepsApproved
    BY DEF ProdStepsApproved
<1>6. RefsProvided
    BY DEF RefsProvided
<1>7. AdvisedOnEvidence
    BY DEF AdvisedOnEvidence
<1>8. ModelAttributed /\ Noted
    BY DEF ModelAttributed, Noted
<1> QED
    BY <1>2, <1>3, <1>4, <1>5, <1>6, <1>7, <1>8 DEF IInv

LEMMA RcaStepInv ==
    ASSUME IInv, RcaStep
    PROVE  IInv'
<1>1. PICK r : stage = "rca" /\ GoodRca(r) /\ DeliverRca(r)
    BY DEF RcaStep
<1>2. /\ rca' = r /\ provided' = provided /\ advice' = advice /\ comms' = comms
      /\ board' = [board EXCEPT !.rca_confidence = r.overall]
      /\ stage' \in Edges("rca", board') /\ attempt' = 0 /\ answered' = FALSE
      /\ lastModel' \in {"nobody", "theirs"}
    BY <1>1 DEF DeliverRca, Leave
<1>3. /\ board' \in Values /\ board'.rca_confidence = r.overall
    BY <1>1, <1>2, BoardAfter DEF GoodRca, IInv, TypeOK
<1>4. /\ stage' \in {"recommendation", "human_review"}
      /\ stage' = "recommendation" => r.overall \notin {"low", "speculative"}
      /\ r.overall \in {"low", "speculative"} => stage' = "human_review"
    BY <1>2, <1>3, Routes
<1>5. advice = NoAdvice /\ comms = NoComms
    BY <1>1 DEF IInv, NothingAdvisedYet
<1>6. TypeOK'
    <2>1. attempt' \in 0..(MaxAttempts - 1)
        BY <1>2, Bounds
    <2> QED
        BY <1>1, <1>2, <1>3, <1>4, <2>1 DEF IInv, TypeOK, GoodRca, Stages, Whose
<1>7. NothingAdvisedYet'
    BY <1>4 DEF NothingAdvisedYet
<1>8. DegradedEscalates'
    BY <1>1, <1>2, <1>4, <1>5 DEF DegradedEscalates, GoodRca
<1>9. ProdStepsApproved'
    BY <1>2 DEF IInv, ProdStepsApproved
<1>10. RefsProvided'
    BY <1>1, <1>2 DEF RefsProvided, GoodRca, ProvidedOnly
<1>11. AdvisedOnEvidence'
    <2>1. SUFFICES ASSUME stage' = "recommendation", provided # {} PROVE Supported'
        BY <1>2, <1>4 DEF AdvisedOnEvidence
    <2>2. r.overall \in {"medium", "high"}
        BY <1>1, <1>4, <2>1 DEF GoodRca, Grade
    <2>3. Grounded(r.causes)
        BY <1>1, <2>1, <2>2 DEF GoodRca
    <2> QED
        BY <1>2, <2>3 DEF Grounded, Supported
<1>12. ModelAttributed' /\ Noted'
    BY <1>1, <1>2 DEF ModelAttributed, Noted, GoodRca, IInv
<1> QED
    BY <1>6, <1>7, <1>8, <1>9, <1>10, <1>11, <1>12 DEF IInv

LEMMA AdviceStepInv ==
    ASSUME IInv, AdviceStep
    PROVE  IInv'
<1>1. PICK a : stage = "recommendation" /\ GoodAdvice(a) /\ DeliverAdvice(a)
    BY DEF AdviceStep
<1>2. /\ advice' = a /\ provided' = provided /\ rca' = rca /\ comms' = comms
      /\ board' = [board EXCEPT !.recommendations = TRUE]
      /\ stage' \in Edges("recommendation", board') /\ attempt' = 0 /\ answered' = FALSE
      /\ lastModel' \in {"nobody", "theirs"}
    BY <1>1 DEF DeliverAdvice, Leave
<1>3. board' \in Values
    BY <1>2, BoardAfter DEF IInv, TypeOK
<1>4. stage' = "communication"
    BY <1>2, Routes
<1>5. ~rca.degraded
    BY <1>1 DEF IInv, DegradedEscalates
<1>6. TypeOK'
    <2>1. attempt' \in 0..(MaxAttempts - 1)
        BY <1>2, Bounds
    <2> QED
        BY <1>1, <1>2, <1>3, <1>4, <2>1 DEF IInv, TypeOK, GoodAdvice, Stages, Whose
<1>7. NothingAdvisedYet'
    BY <1>4 DEF NothingAdvisedYet
<1>8. DegradedEscalates'
    BY <1>2, <1>5 DEF DegradedEscalates
<1>9. ProdStepsApproved'
    BY <1>1, <1>2 DEF ProdStepsApproved, GoodAdvice, Approved
<1>10. RefsProvided'
    BY <1>2 DEF RefsProvided, IInv
<1>11. AdvisedOnEvidence'
    BY <1>1, <1>2 DEF AdvisedOnEvidence, Supported, IInv
<1>12. ModelAttributed' /\ Noted'
    BY <1>1, <1>2 DEF ModelAttributed, Noted, GoodAdvice, IInv
<1> QED
    BY <1>6, <1>7, <1>8, <1>9, <1>10, <1>11, <1>12 DEF IInv

LEMMA CommsStepInv ==
    ASSUME IInv, CommsStep
    PROVE  IInv'
<1>1. PICK drafts \in {"empty", "template", "model"}, model \in Whose :
          /\ stage = "communication" /\ (drafts = "model" => model = "ours")
          /\ DeliverComms(drafts, model)
    BY DEF CommsStep
<1>2. /\ comms' = [drafts |-> drafts, degraded |-> drafts # "model", model |-> model]
      /\ provided' = provided /\ rca' = rca /\ advice' = advice /\ board' = board
      /\ stage' \in Edges("communication", board') /\ attempt' = 0 /\ answered' = FALSE
      /\ lastModel' \in {"nobody", "theirs"}
    BY <1>1 DEF DeliverComms, Leave
<1>3. stage' = "human_review"
    BY <1>2, Routes
<1>4. ~rca.degraded
    BY <1>1 DEF IInv, DegradedEscalates
<1>5. TypeOK'
    <2>1. attempt' \in 0..(MaxAttempts - 1)
        BY <1>2, Bounds
    <2> QED
        BY <1>1, <1>2, <1>3, <2>1 DEF IInv, TypeOK, Stages, Whose
<1>6. NothingAdvisedYet' /\ AdvisedOnEvidence'
    BY <1>3 DEF NothingAdvisedYet, AdvisedOnEvidence
<1>7. DegradedEscalates'
    BY <1>2, <1>4 DEF DegradedEscalates
<1>8. ProdStepsApproved' /\ RefsProvided'
    BY <1>2 DEF ProdStepsApproved, RefsProvided, IInv
<1>9. ModelAttributed' /\ Noted'
    BY <1>1, <1>2 DEF ModelAttributed, Noted, IInv
<1> QED
    BY <1>5, <1>6, <1>7, <1>8, <1>9 DEF IInv

\* Talk with the model, or another run's answer while this one awaits its own,
\* changes nothing that was delivered.
LEMMA TalkInv ==
    ASSUME IInv, Talk
    PROVE  IInv'
<1> USE DEF Talk
<1>1. TypeOK' /\ Noted'
    BY DEF IInv, TypeOK, Noted
<1>2. NothingAdvisedYet' /\ DegradedEscalates' /\ ProdStepsApproved' /\ RefsProvided'
    BY DEF IInv, NothingAdvisedYet, DegradedEscalates, ProdStepsApproved, RefsProvided
<1>3. AdvisedOnEvidence' /\ ModelAttributed'
    BY DEF IInv, AdvisedOnEvidence, Supported, ModelAttributed
<1> QED
    BY <1>1, <1>2, <1>3 DEF IInv

LEMMA NextInv == IInv /\ [Next]_vars => IInv'
<1> SUFFICES ASSUME IInv, [Next]_vars PROVE IInv'
    OBVIOUS
<1>1. CASE AgentStep
    <2>1. RcaStep \/ AdviceStep \/ CommsStep \/ Talk
        BY <1>1, StepCases DEF IInv
    <2> QED
        BY <2>1, TalkInv, RcaStepInv, AdviceStepInv, CommsStepInv
<1>2. CASE OtherRunAnswers
    BY <1>2, TalkInv DEF OtherRunAnswers, Talk, IInv, TypeOK, Whose
<1>3. CASE AtReview \/ UNCHANGED vars
    <2>1. UNCHANGED vars
        BY <1>3 DEF AtReview
    <2> QED
        BY <2>1, TalkInv DEF vars, Talk, IInv, TypeOK, Noted
<1> QED
    BY <1>1, <1>2, <1>3 DEF Next

(***************************************************************************)
(* The invariant holds in every reachable state.                           *)
(***************************************************************************)
THEOREM AnalysisInvariant == Spec => []IInv
BY InitInv, NextInv, PTL DEF Spec

(***************************************************************************)
(* Every reachable state of the analysis is well typed.                    *)
(***************************************************************************)
THEOREM AnalysisTypeCorrect == Spec => []TypeOK
<1>1. IInv => TypeOK
    BY DEF IInv
<1> QED
    BY <1>1, AnalysisInvariant, PTL

(***************************************************************************)
(* rca/agent.py _build and min_conf together with after_rca: whatever ids  *)
(* and grades the model makes up, an investigation with citations or       *)
(* evidence is advised on only if a cause of medium or high confidence     *)
(* refers to some of them.                                                 *)
(***************************************************************************)
THEOREM AdviceSupported == Spec => []AdvisedOnEvidence
<1>1. IInv => AdvisedOnEvidence
    BY DEF IInv
<1> QED
    BY <1>1, AnalysisInvariant, PTL

(***************************************************************************)
(* rca/agent.py valid_refs: an invented reference is never passed on, by a *)
(* cause or an alternative, once anything was provided.                    *)
(***************************************************************************)
THEOREM ReferencesFiltered == Spec => []RefsProvided
<1>1. IInv => RefsProvided
    BY DEF IInv
<1> QED
    BY <1>1, AnalysisInvariant, PTL

(***************************************************************************)
(* rca/agent.py _degraded and after_rca: a failed analysis of any kind     *)
(* goes to the human review, and nothing is recommended or drafted on it.  *)
(***************************************************************************)
THEOREM FailedAnalysisEscalates == Spec => []DegradedEscalates
<1>1. IInv => DegradedEscalates
    BY DEF IInv
<1> QED
    BY <1>1, AnalysisInvariant, PTL

(***************************************************************************)
(* recommendation/agent.py _normalize: no step that impacts production     *)
(* leaves the agent without the approval its risk asks for.                *)
(***************************************************************************)
THEOREM ProductionGuarded == Spec => []ProdStepsApproved
<1>1. IInv => ProdStepsApproved
    BY DEF IInv
<1> QED
    BY <1>1, AnalysisInvariant, PTL

(***************************************************************************)
(* _last_model_id: an output that is not degraded names the model that     *)
(* answered this investigation, however many others share the agents.  It  *)
(* rests on Noted: from the answer to the use of the attribute nothing is  *)
(* awaited, so that no other run writes it in between.                     *)
(***************************************************************************)
THEOREM AnswersAttributed == Spec => []ModelAttributed
<1>1. IInv => ModelAttributed
    BY DEF IInv
<1> QED
    BY <1>1, AnalysisInvariant, PTL

(***************************************************************************)
(* The agents do to the blackboard what InvestigationGraph says of their   *)
(* nodes, so that what is proved of every outcome of a node there holds    *)
(* of what these agents deliver.                                           *)
(***************************************************************************)
THEOREM AnalysisImplementsGraph == Spec => ImplementsGraph
<1>1. ASSUME IInv, [Next]_vars
      PROVE  [stage' # stage => board' \in After(stage, board)
                                /\ stage' \in Edges(stage, board')]_vars
    <2>1. SUFFICES ASSUME AgentStep, stage' # stage
                   PROVE  board' \in After(stage, board) /\ stage' \in Edges(stage, board')
        BY <1>1 DEF Next, OtherRunAnswers, AtReview, vars
    <2>2. board \in Values
        BY <1>1 DEF IInv, TypeOK
    <2>3. RcaStep \/ AdviceStep \/ CommsStep
        BY <1>1, <2>1, StepCases DEF IInv, Talk
    <2>4. CASE RcaStep
        BY <2>2, <2>4, BoardAfter DEF RcaStep, GoodRca, DeliverRca, Leave
    <2>5. CASE AdviceStep
        BY <2>2, <2>5, BoardAfter DEF AdviceStep, DeliverAdvice, Leave
    <2>6. CASE CommsStep
        BY <2>2, <2>6, BoardAfter DEF CommsStep, DeliverComms, Leave
    <2> QED
        BY <2>3, <2>4, <2>5, <2>6
<1> QED
    BY <1>1, AnalysisInvariant, PTL DEF Spec, ImplementsGraph

(***************************************************************************)
(* valid_refs and _normalize, whatever the model answers: an analysis with *)
(* evidence refers to nothing else, in its causes and its alternatives,    *)
(* and a recommended step on production asks for the approval it needs.    *)
(* (The references of a recommended step are not filtered by the code, and *)
(* nothing is said of them.)                                               *)
(***************************************************************************)
THEOREM AnswersAreGuarded == Spec => []AnswersGuarded
BY ReferencesFiltered, ProductionGuarded, PTL DEF AnswersGuarded
===============================================================================
