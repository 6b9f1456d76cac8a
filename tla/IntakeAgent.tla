------------------------------ MODULE IntakeAgent ------------------------------
(***************************************************************************)
(* One run of the incident intake agent (agents/intake/agent.py), the      *)
(* entry node of the investigation graph: read-only enrichment, the model  *)
(* asked tier by tier with retries and one repair, and the guardrails put  *)
(* on whatever it says.  The model and the gateway are outside: a call may *)
(* raise, return text that does not parse, or return any classification    *)
(* and any affected systems.  The hypothesis is left out.                  *)
(***************************************************************************)
EXTENDS Naturals, Sequences, FiniteSets, ToolContracts

CONSTANTS
    Tiers,              \* the model tiers asked, in order (config)
    MaxAttempts,        \* llm_max_attempts
    MaxToolCalls,       \* max_tool_calls
    DefaultSeverity,    \* default_severity
    MinTriage,          \* min_triage_for_serious
    Reported,           \* the severities a provider reports and a model guesses
    GatewayFails,       \* whether calls through the gateway may fail
    Catalog,            \* what the service catalog may say of a name: "found",
                        \* "unknown", "failed"; {"unknown"} without a catalog
    MaxClaims           \* the affected systems in one answer (bound)

None == "none"

Severity == {"info", "low", "medium", "high", "critical"}

Triage == {"full", "lite", "drop"}

ASSUME IntakeAssumption ==
    /\ Tiers \in Seq({"fast", "mid", "top"}) /\ Len(Tiers) \in {1, 2}
    /\ MaxAttempts \in Nat \ {0}
    /\ MaxToolCalls \in Nat
    /\ DefaultSeverity \in Severity
    /\ MinTriage \in Triage \ {"drop"}
    /\ Reported \subseteq Severity
    /\ GatewayFails \in BOOLEAN
    /\ Catalog \subseteq {"found", "unknown", "failed"}
    /\ MaxClaims \in Nat

\* SEVERITY_RANK, more_severe and is_serious of contracts/enums.py.
Rank == [info |-> 0, low |-> 1, medium |-> 2, high |-> 3, critical |-> 4]

MoreSevere(a, b) ==
    CASE a = None -> b
      [] b = None -> a
      [] a # None /\ b # None -> IF Rank[a] >= Rank[b] THEN a ELSE b

IsSerious(s) == s # None /\ Rank[s] >= Rank["high"]

\* What the model says, once parsed (_LLMIntakeResult).
Result == [severity : Reported \cup {None}, certain : BOOLEAN,
           ambiguous : BOOLEAN, triage : Triage \cup {None}]

NoResult == [severity |-> None, certain |-> FALSE, ambiguous |-> FALSE, triage |-> "unparsed"]

\* A system the model says is affected: whether the incident's text contains the
\* quote given for it, and whether it contains its name.
Claim == [quoted : BOOLEAN, named : BOOLEAN]

NoOutput == [severity |-> None, confidence |-> None, triage |-> None, degraded |-> FALSE,
             systems |-> {}]

VARIABLES
    pc,         \* "pagerduty", "servicenow", "ask", "classified", "done", "failed"
    incident,   \* the provider's severity and the ids the incident carries
    toolCalls,  \* len(tools.calls)
    enriched,   \* the systems whose detail was obtained
    tier,       \* the tier being asked
    repairing,  \* the question carries the repair suffix
    attempt,    \* the failed attempts of this question
    candidate,  \* the ambiguous result kept as a fallback, or NoResult
    answered,   \* last_resp is not None
    chosen,     \* the result the guardrails get, NoResult for the fallback
    lookups,    \* what the catalog said of each claim of that result
    output,     \* the output, once done
    llmCalls,   \* the calls of complete() made (history)
    parsed      \* some answer could be parsed (history)

classifying == <<tier, repairing, attempt, candidate, answered, chosen>>
history == <<llmCalls, parsed>>
vars == <<pc, incident, toolCalls, enriched, classifying, lookups, output, history>>

Init ==
    /\ pc = "pagerduty"
    /\ incident \in [provider : Reported \cup {None},
                     ids : SUBSET {"pagerduty", "servicenow"}]
    /\ toolCalls = 0
    /\ enriched = {}
    /\ tier = 1 /\ repairing = FALSE /\ attempt = 0
    /\ candidate = NoResult /\ answered = FALSE /\ chosen = NoResult
    /\ lookups = [c \in {} |-> "unknown"]
    /\ output = NoOutput
    /\ llmCalls = 0 /\ parsed = FALSE

----------------------------------------------------------------------------
(***************************************************************************)
(* Step 1, enrichment, under the contracts of the connectors' tools.       *)
(***************************************************************************)
Wanted(system) == system \in incident.ids /\ toolCalls < MaxToolCalls

NotWanted(system, next) ==
    /\ pc = system /\ ~Wanted(system)
    /\ pc' = next
    /\ UNCHANGED <<incident, toolCalls, enriched, classifying, lookups, output, history>>

\* The tool answers: with the detail, or with ok = False and a warning.
ToolAnswers(system, next) ==
    /\ pc = system /\ Wanted(system)
    /\ pc' = next
    /\ toolCalls' = toolCalls + 1
    /\ \E ok \in BOOLEAN :
           /\ ok => "answered" \in CallTool(system, "get_incident", IntakeSends[system])
           /\ ~ok => \/ GatewayFails
                     \/ "answered" \notin CallTool(system, "get_incident", IntakeSends[system])
           /\ enriched' = IF ok THEN enriched \cup {system} ELSE enriched
    /\ UNCHANGED <<incident, classifying, lookups, output, history>>

\* The call raises: what is left of the enrichment is skipped.
ToolRaises(system) ==
    /\ pc = system /\ Wanted(system)
    /\ GatewayFails
    /\ pc' = "ask"
    /\ toolCalls' = toolCalls + 1
    /\ UNCHANGED <<incident, enriched, classifying, lookups, output, history>>

Enrich ==
    \/ \/ NotWanted("pagerduty", "servicenow")
       \/ ToolAnswers("pagerduty", "servicenow")
       \/ ToolRaises("pagerduty")
    \/ \/ NotWanted("servicenow", "ask")
       \/ ToolAnswers("servicenow", "ask")
       \/ ToolRaises("servicenow")

----------------------------------------------------------------------------
(***************************************************************************)
(* Step 2, classification.  No tier is left: the ambiguous candidate, else *)
(* a failure if no call was answered, else the deterministic fallback.     *)
(***************************************************************************)
Conclude(kept, heard) ==
    /\ pc' = IF kept = NoResult /\ ~heard THEN "failed" ELSE "classified"
    /\ chosen' = kept
    /\ UNCHANGED <<tier, repairing, attempt>>

\* The loop goes on with the next tier, with `kept' as the candidate and
\* `heard' saying whether a call was ever answered.
NextTier(kept, heard) ==
    /\ candidate' = kept
    /\ answered' = heard
    /\ IF tier < Len(Tiers)
       THEN /\ tier' = tier + 1 /\ repairing' = FALSE /\ attempt' = 0
            /\ UNCHANGED <<pc, chosen>>
       ELSE Conclude(kept, heard)

Ask == /\ pc = "ask"
       /\ llmCalls' = llmCalls + 1
       /\ UNCHANGED <<incident, toolCalls, enriched, lookups, output>>

\* complete() raises: another attempt, or this question is given up.
CallRaises ==
    /\ Ask
    /\ UNCHANGED parsed
    /\ IF attempt + 1 < MaxAttempts
       THEN /\ attempt' = attempt + 1
            /\ UNCHANGED <<pc, tier, repairing, candidate, answered, chosen>>
       ELSE NextTier(candidate, answered)

\* Mutant of Unparseable: every unparseable answer is asked to be repaired.
UnparseableAgain ==
    /\ Ask
    /\ UNCHANGED parsed
    /\ repairing' = TRUE /\ attempt' = 0 /\ answered' = TRUE
    /\ UNCHANGED <<pc, tier, candidate, chosen>>

\* The text does not parse: one repair, then the next tier.
Unparseable ==
    /\ Ask
    /\ UNCHANGED parsed
    /\ IF repairing
       THEN NextTier(candidate, TRUE)
       ELSE /\ repairing' = TRUE /\ attempt' = 0 /\ answered' = TRUE
            /\ UNCHANGED <<pc, tier, candidate, chosen>>

\* Mutant of Keep: an ambiguous result is not kept.
KeepNone(r) == NoResult

Keep(r) == r

\* The text parses: a clear result is final, an ambiguous one a candidate.
Parses ==
    /\ Ask
    /\ parsed' = TRUE
    /\ \E r \in Result :
           IF r.ambiguous
           THEN NextTier(Keep(r), TRUE)
           ELSE /\ chosen' = r /\ pc' = "classified" /\ answered' = TRUE
                /\ UNCHANGED <<tier, repairing, attempt, candidate>>

----------------------------------------------------------------------------
(***************************************************************************)
(* Step 3, the guardrails: the provider's severity is a floor, and a       *)
(* serious incident is not dropped.                                        *)
(***************************************************************************)
Suggested(provider, r) ==
    IF r.severity # None /\ r.certain THEN MoreSevere(provider, r.severity)
    ELSE IF provider # None THEN provider
    ELSE DefaultSeverity

Floored(provider, s) ==
    IF provider # None /\ MoreSevere(provider, s) # s THEN provider ELSE s

SeverityConfidence(provider, r) ==
    IF r.severity # None /\ r.certain THEN "high"
    ELSE IF provider # None THEN "medium"
    ELSE "low"

\* Mutant of Clamped: only the provider's severity counts as serious.
ClampedByProvider(provider, s, triage) ==
    IF triage = "drop" /\ IsSerious(provider) THEN MinTriage ELSE triage

Clamped(provider, s, triage) ==
    IF triage = "drop" /\ IsSerious(s) THEN MinTriage ELSE triage

\* A claimed system is named if the incident's text or the catalog knows it.
Named(c, lookup) == lookup = "found" \/ c.quoted \/ c.named

SystemConfidence(c, lookup) ==
    IF lookup = "found" /\ (c.quoted \/ c.named) THEN "high" ELSE "medium"

\* _validate_systems: one claim after the other.
Systems(found) ==
    {[claim |-> c, confidence |-> SystemConfidence(c, found[c])] :
        c \in {d \in DOMAIN found : Named(d, found[d])}}

Guarded(provider, r, found) ==
    LET s == Floored(provider, Suggested(provider, r)) IN
    [severity   |-> s,
     confidence |-> SeverityConfidence(provider, r),
     triage     |-> Clamped(provider, s, IF r.triage = None THEN "full" ELSE r.triage),
     degraded   |-> FALSE,
     systems    |-> Systems(found)]

Fallback(provider) ==
    LET s == IF provider # None THEN provider ELSE DefaultSeverity IN
    [severity   |-> s,
     confidence |-> "low",
     triage     |-> IF IsSerious(s) THEN "full" ELSE "lite",
     degraded   |-> TRUE,
     systems    |-> {}]

\* The fallback claims nothing and asks no catalog.
ApplyGuardrails ==
    /\ pc = "classified"
    /\ pc' = "done"
    /\ IF chosen = NoResult
       THEN output' = Fallback(incident.provider) /\ UNCHANGED lookups
       ELSE /\ \E claims \in {cs \in SUBSET Claim : Cardinality(cs) <= MaxClaims} :
                   lookups' \in [claims -> Catalog]
            /\ output' = Guarded(incident.provider, chosen, lookups')
    /\ UNCHANGED <<incident, toolCalls, enriched, classifying, history>>

Ended == pc \in {"done", "failed"} /\ UNCHANGED vars

Next == Enrich \/ CallRaises \/ Unparseable \/ Parses \/ ApplyGuardrails \/ Ended

Spec == Init /\ [][Next]_vars

----------------------------------------------------------------------------
TypeOK ==
    /\ pc \in {"pagerduty", "servicenow", "ask", "classified", "done", "failed"}
    /\ incident \in [provider : Reported \cup {None},
                     ids : SUBSET {"pagerduty", "servicenow"}]
    /\ toolCalls \in Nat
    /\ enriched \subseteq incident.ids
    /\ tier \in 1..Len(Tiers)
    /\ repairing \in BOOLEAN
    /\ attempt \in 0..(MaxAttempts - 1)
    /\ candidate \in Result \cup {NoResult}
    /\ answered \in BOOLEAN
    /\ chosen \in Result \cup {NoResult}
    /\ output \in [severity : Severity, confidence : {"low", "medium", "high"},
                   triage : Triage, degraded : BOOLEAN,
                   systems : SUBSET [claim : DOMAIN lookups,
                                     confidence : {"medium", "high"}]] \cup {NoOutput}
    /\ DOMAIN lookups \subseteq Claim
    /\ llmCalls \in Nat
    /\ parsed \in BOOLEAN

(***************************************************************************)
(* Severity is never under-rated, and never invented: it is the more       *)
(* severe of what the provider reported and what the model was certain of, *)
(* and the default if there is neither, after any number of tiers.         *)
(***************************************************************************)
SeverityJustified ==
    pc = "done" =>
        LET certain == IF chosen.certain THEN {chosen.severity} ELSE {}
            grounds == ({incident.provider} \cup certain) \ {None}
        IN  IF grounds = {} THEN output.severity = DefaultSeverity
            ELSE /\ output.severity \in grounds
                 /\ \A s \in grounds : Rank[output.severity] >= Rank[s]

(***************************************************************************)
(* A serious incident is never recommended to be dropped, whoever called   *)
(* it serious and however the classification came about.                   *)
(***************************************************************************)
SeriousNotDropped ==
    pc = "done" /\ IsSerious(output.severity) => output.triage # "drop"

(***************************************************************************)
(* The agent fails, and a person is called, exactly when no call was       *)
(* answered in any tier: one answer, parseable or not, is enough.          *)
(***************************************************************************)
FailsOnlyUnreachable ==
    /\ pc = "failed" => ~answered /\ ~parsed /\ llmCalls = Len(Tiers) * MaxAttempts
    /\ pc = "done" => answered

(***************************************************************************)
(* A classification that was parsed is never lost to a later tier that is  *)
(* unreachable or unparseable.                                             *)
(***************************************************************************)
ParsedIsUsed == pc = "done" /\ parsed => ~output.degraded

(***************************************************************************)
(* Tiers, repairs and retries together stay within the configured budget.  *)
(***************************************************************************)
CallsBudgeted == llmCalls <= Len(Tiers) * 2 * MaxAttempts /\ toolCalls <= MaxToolCalls

(***************************************************************************)
(* No system the incident names is lost because the catalog fails or does  *)
(* not know it, none that neither knows is handed on, and the confidence   *)
(* in one is high only if both know it.                                    *)
(***************************************************************************)
SystemsGrounded ==
    pc = "done" /\ ~output.degraded =>
        \A c \in DOMAIN lookups :
            LET kept == {s \in output.systems : s.claim = c}
                told == c.quoted \/ c.named
            IN  /\ kept # {} <=> told \/ lookups[c] = "found"
                /\ (\E s \in kept : s.confidence = "high") <=> told /\ lookups[c] = "found"

(***************************************************************************)
(* The guardrails hold together, after any number of tiers and whatever    *)
(* the model, the provider and the catalog said: the severity has its      *)
(* grounds, a serious incident is kept, and the systems are those somebody *)
(* knows.                                                                  *)
(***************************************************************************)
GuardrailsHold == SeverityJustified /\ SeriousNotDropped /\ SystemsGrounded

(***************************************************************************)
(* No answer is lost: one that parsed is used, and the agent fails only if *)
(* there was none at all.                                                  *)
(***************************************************************************)
AnswersUsed == FailsOnlyUnreachable /\ ParsedIsUsed
===============================================================================
