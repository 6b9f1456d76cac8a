------------------------ MODULE MCInvestigationService ------------------------
(* Small instances of InvestigationService for TLC. *)
EXTENDS InvestigationService

\* The optional agents a deployment is built with: all of them.
AllAgents == {"architecture", "rca", "recommendation", "communication"}
===============================================================================
