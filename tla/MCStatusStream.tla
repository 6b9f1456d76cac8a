---------------------------- MODULE MCStatusStream ----------------------------
(***************************************************************************)
(* A small instance of StatusStream for TLC, in two deployments: with all  *)
(* the optional agents, and without an rca agent.  Without it two nodes    *)
(* run in the superstep before the gate, and aupdate_state refuses the     *)
(* update of what they leave.                                              *)
(***************************************************************************)
EXTENDS StatusStream, TLC

\* The optional agents of the two deployments.
AllAgents == {"architecture", "rca", "recommendation", "communication"}

WithoutRca == AllAgents \ {"rca"}

VARIABLE deployed       \* the deployment that serves this investigation

Bare == INSTANCE StatusStream WITH Wired <- WithoutRca

MCInit == StreamInit /\ deployed \in {"all", "without rca"}

MCNext == /\ \/ deployed = "all" /\ StreamNext
             \/ deployed = "without rca" /\ Bare!StreamNext
          /\ UNCHANGED deployed

MCSpec == MCInit /\ [][MCNext]_<<vars, streamVars, deployed>>

StreamSymmetry == Permutations(Approver)
===============================================================================
