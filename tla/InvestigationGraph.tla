-------------------------- MODULE InvestigationGraph --------------------------
(***************************************************************************)
(* The reasoning graph of one investigation (services/orchestrator/graph): *)
(* its nodes, what each may write to the blackboard, the edges between     *)
(* them, and the status the orchestrator derives from a checkpoint.  The   *)
(* module has no variables: InvestigationService runs the graph.           *)
(***************************************************************************)
EXTENDS FiniteSets

CONSTANT Wired      \* the optional agents given to build_orchestrator

Optional == {"architecture", "rca", "recommendation", "communication"}

\* The branch table of triage_gate always names architecture, so that a graph
\* without it does not compile.
ASSUME WiredAssumption == Wired \subseteq Optional /\ "architecture" \in Wired

Node == {"intake", "triage_gate", "knowledge", "human_review"} \cup Wired

Triage     == {"full", "lite", "drop"}
Confidence == {"high", "medium", "low", "speculative"}
Decision   == {"approve", "reject", "needs_changes"}
Outcome    == {"completed", "closed_rejected", "changes_requested"}
Unset      == "unset"

(***************************************************************************)
(* The fields of InvestigationState that decide where the workflow goes    *)
(* and what is reported of it; `recommendations' says that some were       *)
(* drafted.  The other fields are the agents' prose and evidence.          *)
(***************************************************************************)
Values == [incident : BOOLEAN,
           intake_failed : BOOLEAN,
           recommended_triage : Triage \cup {Unset},
           rca_confidence : Confidence \cup {Unset},
           recommendations : BOOLEAN,
           status : Outcome \cup {"triaged", Unset},
           human_decision : Decision \cup {Unset}]

BlankValues == [incident |-> FALSE, intake_failed |-> FALSE,
                recommended_triage |-> Unset, rca_confidence |-> Unset,
                recommendations |-> FALSE, status |-> Unset,
                human_decision |-> Unset]

----------------------------------------------------------------------------
\* The intake node never raises: a failure of any kind, a state without an
\* incident among them, becomes intake_failed.
IntakeNode(v) ==
    {[v EXCEPT !.intake_failed = TRUE]} \cup
    {[v EXCEPT !.intake_failed = FALSE, !.recommended_triage = t] :
        t \in IF v.incident THEN Triage ELSE {}}

TriageGateNode(v) == {[v EXCEPT !.status = "triaged"]}

\* The rca node degrades to a speculative result instead of raising.
RcaNode(v) == {[v EXCEPT !.rca_confidence = c] : c \in Confidence}

RecommendationNode(v) == {[v EXCEPT !.recommendations = TRUE]}

\* A decision other than reject and needs_changes completes the investigation,
\* and so does no decision at all.
OutcomeOf(decision) ==
    CASE decision = "reject"        -> "closed_rejected"
      [] decision = "needs_changes" -> "changes_requested"
      [] OTHER                      -> "completed"

HumanReviewNode(v) == {[v EXCEPT !.status = OutcomeOf(v.human_decision)]}

\* What the blackboard may hold after node n has run on v.
After(n, v) ==
    CASE n = "intake"         -> IntakeNode(v)
      [] n = "triage_gate"    -> TriageGateNode(v)
      [] n = "rca"            -> RcaNode(v)
      [] n = "recommendation" -> RecommendationNode(v)
      [] n = "human_review"   -> HumanReviewNode(v)
      [] OTHER                -> {v}

----------------------------------------------------------------------------
\* The edges.  human_review and a dropped triage lead to END.
AfterIntake(v) == IF v.intake_failed THEN {"human_review"} ELSE {"triage_gate"}

AfterTriage(v) ==
    IF v.recommended_triage = "drop" THEN {} ELSE {"knowledge", "architecture"}

DownstreamEntry == IF "rca" \in Wired THEN {"rca"} ELSE {"human_review"}

\* Mutant of AfterRca: the confidence gate stops speculative analyses only.
AfterRcaLax(v) ==
    IF "recommendation" \notin Wired \/ v.rca_confidence = "speculative"
    THEN {"human_review"}
    ELSE {"recommendation"}

AfterRca(v) ==
    IF "recommendation" \notin Wired \/ v.rca_confidence \in {"low", "speculative"}
    THEN {"human_review"}
    ELSE {"recommendation"}

AfterRecommendation ==
    IF "communication" \in Wired THEN {"communication"} ELSE {"human_review"}

Edges(n, v) ==
    CASE n = "START"                          -> {"intake"}
      [] n = "intake"                         -> AfterIntake(v)
      [] n = "triage_gate"                    -> AfterTriage(v)
      [] n \in {"knowledge", "architecture"}  -> DownstreamEntry
      [] n = "rca"                            -> AfterRca(v)
      [] n = "recommendation"                 -> AfterRecommendation
      [] n = "communication"                  -> {"human_review"}
      [] n = "human_review"                   -> {}

----------------------------------------------------------------------------
(***************************************************************************)
(* A checkpoint of the thread: the blackboard, the nodes of the next       *)
(* superstep and the nodes of the last one.                                *)
(***************************************************************************)
Checkpoint == [values : Values, next : SUBSET Node, last : SUBSET (Node \cup {"START"})]

NoCheckpoint == [values |-> BlankValues, next |-> {}, last |-> {}]

\* The checkpoints that one superstep of the graph may leave after c.
Superstep(c) ==
    {[values |-> w,
      next   |-> UNION {Edges(n, w) : n \in c.next},
      last   |-> c.next] : w \in UNION {After(n, c.values) : n \in c.next}}

\* _status_from_state: the status a caller is told for checkpoint c.
EndStatus(status) ==
    CASE status = Unset     -> "completed"
      [] status = "triaged" -> "running"
      [] status \in Outcome -> status

\* Mutant of StatusOf: a pending human_review is any pending node.
StatusOfUnasked(c) ==
    IF c.values.intake_failed THEN "escalated"
    ELSE IF c.next # {} THEN "running"
    ELSE EndStatus(c.values.status)

StatusOf(c) ==
    IF c.values.intake_failed THEN "escalated"
    ELSE IF "human_review" \in c.next THEN "awaiting_approval"
    ELSE IF c.next # {} THEN "running"
    ELSE EndStatus(c.values.status)

Status == Outcome \cup {"running", "awaiting_approval", "escalated"}
===============================================================================
