------------------------------ MODULE ReviewGate ------------------------------
(***************************************************************************)
(* What the human-review interrupt promises: an analysed investigation     *)
(* stops at the gate, leaves it once, and only to the outcome of a         *)
(* decision that was recorded before.  InvestigationService implements it. *)
(***************************************************************************)
CONSTANTS Decisions,        \* what an approver may decide
          Result(_)         \* the outcome a decision leads to

VARIABLES stage,            \* analysing, gate, dropped or decided
          outcome,          \* the outcome, once decided
          recorded          \* the decisions recorded so far

gateVars == <<stage, outcome, recorded>>

GateInit == stage = "analysing" /\ outcome = "none" /\ recorded = {}

\* The agents are done: a human is asked, or triage drops the investigation.
Analysed == /\ stage = "analysing"
            /\ stage' \in {"gate", "dropped"}
            /\ UNCHANGED <<outcome, recorded>>

Record == /\ \E d \in Decisions : recorded' = recorded \cup {d}
          /\ UNCHANGED <<stage, outcome>>

Decide == /\ stage = "gate"
          /\ stage' = "decided"
          /\ \E d \in recorded : outcome' = Result(d)
          /\ UNCHANGED recorded

GateNext == Analysed \/ Record \/ Decide

GateSpec == GateInit /\ [][GateNext]_gateVars
===============================================================================
