--------------------------- MODULE ConfidenceGrades ---------------------------
(***************************************************************************)
(* ConfidenceGrade and its order, which the knowledge agent and            *)
(* agents/base/parsing.py both define.                                     *)
(***************************************************************************)
EXTENDS Naturals

Grade == {"speculative", "low", "medium", "high"}

CONF_RANK == [speculative |-> 0, low |-> 1, medium |-> 2, high |-> 3]

\* The more conservative of two grades.
min_conf(a, b) == IF CONF_RANK[a] <= CONF_RANK[b] THEN a ELSE b
===============================================================================
