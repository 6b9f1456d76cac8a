--------------------------- MODULE MCAnalysisAgents ---------------------------
EXTENDS AnalysisAgents

AllAgents == {"architecture", "rca", "recommendation", "communication"}
===============================================================================
