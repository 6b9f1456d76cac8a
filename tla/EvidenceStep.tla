----------------------------- MODULE EvidenceStep -----------------------------
(***************************************************************************)
(* The superstep in which the knowledge and the architecture node run      *)
(* concurrently on one blackboard (services/orchestrator/graph).  Each     *)
(* reads the blackboard of the step before; when both have ended, their    *)
(* deltas are merged: keys of one node are taken as they are, `errors',    *)
(* which both may write, by its reducer.                                   *)
(***************************************************************************)
EXTENDS KnowledgeAgent, ArchitectureAgent

VARIABLE board      \* what the blackboard holds of the two, NoBoard before

vars == <<knowVars, archVars, board>>

NoBoard == [merged |-> FALSE, errors |-> <<>>, degraded |-> {}]

Init == KnowledgeInit /\ ArchitectureInit /\ board = NoBoard

\* The entries a node's delta has under `errors': only a degraded delta of a
\* run that raised has one.
NodeErrors(node, raised) == IF raised THEN <<node>> ELSE <<>>

\* operator.add, the reducer of `errors'.
MergedErrors(old, knows, archs) == old \o knows \o archs

Merge ==
    /\ ~board.merged /\ KnowledgeEnded /\ ArchitectureEnded
    /\ board' = [merged   |-> TRUE,
                 errors   |-> MergedErrors(board.errors,
                                  NodeErrors("knowledge", knowledge.raised),
                                  NodeErrors("architecture", astep = "raised")),
                 degraded |-> {n \in {"knowledge", "architecture"} :
                                  IF n = "knowledge" THEN knowledge.degraded
                                                     ELSE Context.degraded}]
    /\ UNCHANGED <<knowVars, archVars>>

KnowledgeStep    == KnowledgeNext /\ UNCHANGED <<archVars, board>>
ArchitectureStep == ArchitectureNext /\ UNCHANGED <<knowVars, board>>

\* After the merge this superstep is over.
Over == board.merged /\ UNCHANGED vars

Next == KnowledgeStep \/ ArchitectureStep \/ Merge \/ Over

\* Every search, tool and model call is awaited with a timeout, so that each
\* agent goes on; the graph waits for both.
Fairness == WF_vars(KnowledgeStep) /\ WF_vars(ArchitectureStep) /\ WF_vars(Merge)

Spec == Init /\ [][Next]_vars /\ Fairness

----------------------------------------------------------------------------
TypeOK ==
    /\ KnowledgeTypeOK /\ ArchitectureTypeOK
    /\ board \in [merged : BOOLEAN, errors : Seq({"knowledge", "architecture"}),
                  degraded : SUBSET {"knowledge", "architecture"}]

(***************************************************************************)
(* Both nodes write `errors' in one superstep: the merged blackboard names *)
(* each that raised, once, and a node named there is degraded as well.     *)
(***************************************************************************)
ErrorsAccounted ==
    board.merged =>
        /\ Range(board.errors) = {n \in {"knowledge", "architecture"} :
                                     IF n = "knowledge"
                                     THEN "malformed" \in {corpus.status, episodic.status}
                                     ELSE astep = "raised"}
        /\ IsInjective(board.errors)
        /\ Range(board.errors) \subseteq board.degraded

(***************************************************************************)
(* Whatever fails in either agent, the superstep ends: rca gets its turn.  *)
(***************************************************************************)
EvidenceGathered == <>board.merged

(***************************************************************************)
(* What fails in either agent, in either order, is told, if only by a      *)
(* warning: a failed search, synthesis or tool call of a run that did not  *)
(* raise by a warning in its node's delta, one that raised by an entry     *)
(* under `errors' and the degraded flag.  That flag is set as well for a   *)
(* failed corpus search or synthesis (DegradedTold), but neither for a     *)
(* failed episodic search nor for failed tool calls once a system is       *)
(* named: architecture_discovery/agent.py:123 leaves a context with nodes  *)
(* undegraded, where Agents-3-6-Implementation.md:54 says that any tool    *)
(* failure returns a degraded one.  No more than the warnings is claimed.  *)
(***************************************************************************)
FailuresAccounted == DegradedTold /\ WarningsTold /\ FailuresTold /\ ErrorsAccounted
===============================================================================
