----------------------------- MODULE MCIntakeAgent -----------------------------
(* Small instances of IntakeAgent for TLC. *)
EXTENDS IntakeAgent

DefaultTiers == <<"fast", "mid">>
===============================================================================
