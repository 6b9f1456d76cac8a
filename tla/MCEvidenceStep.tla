---------------------------- MODULE MCEvidenceStep ----------------------------
EXTENDS EvidenceStep

ConfirmedRca == [doc |-> "rca1", type |-> "rca", system |-> "confluence",
                 score |-> 2, current |-> TRUE, outcome |-> "confirmed"]
RefutedRca   == [doc |-> "rca2", type |-> "rca", system |-> "confluence",
                 score |-> 2, current |-> TRUE, outcome |-> "refuted"]
StaleRunbook == [doc |-> "book", type |-> "runbook", system |-> "other",
                 score |-> 1, current |-> FALSE, outcome |-> "none"]

CorpusChunks == {ConfirmedRca, RefutedRca, StaleRunbook}

PastIncidents == {[doc |-> "inc1", current |-> FALSE, outcome |-> "confirmed"]}

AffectedLists == {<<"db", "api">>}
===============================================================================
