--------------------------- MODULE ArchitectureAgent ---------------------------
(***************************************************************************)
(* One run of the architecture discovery agent                             *)
(* (agents/architecture_discovery/agent.py): for each affected system its  *)
(* configuration item and the relationships of that, then the recent       *)
(* changes, each by a read-only tool call that may fail.  The gateway is   *)
(* absent, answers anything, or routes to the connectors of the repository.*)
(***************************************************************************)
EXTENDS Naturals, Sequences, ToolContracts

CONSTANTS
    Affected,           \* the lists of affected systems intake may have named
    Aliases,            \* names a record may carry instead of the one asked for
    Related,            \* what a relationship may point to
    MaxSystems,         \* max_systems
    MaxDependencies,    \* max_dependencies
    MaxRecentChanges,   \* max_recent_changes
    IncludeChanges,     \* include_changes
    MaxItems,           \* the records of one answer (bound)
    Gateways            \* the gateways considered: "none", "any", "connector"

ASSUME ArchitectureAssumption ==
    /\ Affected \subseteq Seq(STRING) /\ Aliases \subseteq STRING
    /\ MaxSystems \in Nat \ {0}
    /\ MaxDependencies \in Nat \ {0}
    /\ MaxRecentChanges \in Nat
    /\ MaxItems \in Nat
    /\ IncludeChanges \in BOOLEAN
    /\ Gateways \subseteq {"none", "any", "connector"}

VARIABLES
    astep,      \* "ci", "relationships", "changes", "done", "raised"
    gateway,    \* the gateway of this run
    systems,    \* request.affected_systems
    impacted,   \* the nodes so far, `known' if they have a ci_id
    deps,       \* the dependency edges so far
    changes,    \* the recent changes found
    warned,     \* the warnings so far
    unanswered  \* the calls made that gave no result (history)

archVars == <<astep, gateway, systems, impacted, deps, changes, warned, unanswered>>

Cut(s, n) == SubSeq(s, 1, IF Len(s) < n THEN Len(s) ELSE n)

Wanted == Cut(systems, MaxSystems)

Changes == IF IncludeChanges THEN "changes" ELSE "done"

ArchitectureInit ==
    /\ gateway \in Gateways
    /\ systems \in Affected
    /\ astep = IF gateway = "none" THEN "done"
               ELSE IF systems = <<>> THEN Changes ELSE "ci"
    /\ impacted = <<>> /\ deps = <<>> /\ changes = 0
    /\ warned = IF gateway = "none" THEN 1 ELSE 0
    /\ unanswered = 0

\* What a call may come to: a result, an exception, a result with ok unset, or
\* a result whose fields have unexpected types.
Outcomes(tool) ==
    IF gateway = "connector" THEN CallTool("servicenow", tool, ArchitectureSends[tool])
    ELSE {"answered", "failed", "refused", "malformed"}

\* Whether the answer to `tool' may hold what the agent looks for.
MayHold(tool) == gateway = "connector" => Readable(tool)

\* The next step when a system has been dealt with.
AfterSystem(nodes) == IF Len(nodes) < Len(Wanted) THEN "ci" ELSE Changes

\* _call: any outcome but a result leaves one warning.
Warnings(outcome) == IF outcome \in {"answered", "malformed"} THEN 0 ELSE 1

Call(tool, outcome) ==
    /\ outcome \in Outcomes(tool)
    /\ unanswered' = IF outcome \in {"answered", "malformed"} THEN unanswered ELSE unanswered + 1
    /\ warned' = warned + Warnings(outcome)
    /\ UNCHANGED <<gateway, systems>>

\* A result of an unexpected type that a schema refuses ends the run.
Malformed ==
    /\ \/ astep = "ci" /\ Call("get_cmdb_ci", "malformed")
       \/ astep = "relationships" /\ Call("get_ci_relationships", "malformed")
       \/ astep = "changes" /\ Call("list_change_requests", "malformed")
    /\ astep' = "raised"
    /\ UNCHANGED <<impacted, deps, changes>>

\* What _as_record may find: nothing, or a record, which need not have a name
\* but has an id (bound).
NoRecord == [alias |-> "unnamed", known |-> FALSE]

Records == {NoRecord} \cup [alias : Aliases \cup {"unnamed"}, known : {TRUE}]

\* The node of an affected system, made also when nothing is known of it.
NodeFor(name, rec) ==
    <<[name |-> IF rec.alias = "unnamed" THEN name ELSE rec.alias, known |-> rec.known]>>

AskConfigItem ==
    /\ astep = "ci"
    /\ \E outcome \in Outcomes("get_cmdb_ci") \ {"malformed"}, rec \in Records :
           /\ Call("get_cmdb_ci", outcome)
           /\ rec # NoRecord => outcome = "answered" /\ MayHold("get_cmdb_ci")
           /\ impacted' = impacted \o NodeFor(Wanted[Len(impacted) + 1], rec)
           /\ astep' = IF rec.known THEN "relationships" ELSE AfterSystem(impacted')
    /\ UNCHANGED <<deps, changes>>

\* Mutant of EdgeFrom: the edges start from the first system of the incident.
EdgeFromFirst(target) == [source |-> Wanted[1], target |-> target]

EdgeFrom(target) == [source |-> impacted[Len(impacted)].name, target |-> target]

AskRelationships ==
    /\ astep = "relationships"
    /\ \E outcome \in Outcomes("get_ci_relationships") \ {"malformed"},
          targets \in UNION {[1..n -> Related] : n \in 0..MaxItems} :
           /\ Call("get_ci_relationships", outcome)
           /\ targets # <<>> => outcome = "answered" /\ MayHold("get_ci_relationships")
           /\ deps' = deps \o [i \in DOMAIN targets |-> EdgeFrom(targets[i])]
    /\ astep' = AfterSystem(impacted)
    /\ UNCHANGED <<impacted, changes>>

AskChanges ==
    /\ astep = "changes"
    /\ \E outcome \in Outcomes("list_change_requests") \ {"malformed"}, n \in 0..MaxItems :
           /\ Call("list_change_requests", outcome)
           /\ n > 0 => outcome = "answered" /\ MayHold("list_change_requests")
           /\ changes' = n
    /\ astep' = "done"
    /\ UNCHANGED <<impacted, deps>>

ArchitectureNext == AskConfigItem \/ AskRelationships \/ AskChanges \/ Malformed

----------------------------------------------------------------------------
\* The node's delta: the context of the run, or the degraded one if it raised.
Context ==
    IF astep = "raised"
    THEN [impacted |-> <<>>, dependencies |-> <<>>, changes |-> 0,
          freshness |-> "unknown", degraded |-> TRUE]
    ELSE [impacted     |-> impacted,
          dependencies |-> Cut(deps, MaxDependencies),
          changes      |-> IF changes < MaxRecentChanges THEN changes ELSE MaxRecentChanges,
          freshness    |-> IF impacted # <<>> THEN "fresh" ELSE "unknown",
          degraded     |-> impacted = <<>> /\ deps = <<>> /\ changes = 0]

ArchitectureEnded == astep \in {"done", "raised"}

ArchitectureTypeOK ==
    /\ astep \in {"ci", "relationships", "changes", "done", "raised"}
    /\ gateway \in Gateways
    /\ systems \in Affected
    /\ impacted \in Seq([name : STRING, known : BOOLEAN])
    /\ Len(impacted) <= MaxSystems
    /\ deps \in Seq([source : STRING, target : Related])
    /\ changes \in 0..MaxItems
    /\ warned \in Nat /\ unanswered \in Nat

(***************************************************************************)
(* Whatever fails, the context of a run that did not raise names every     *)
(* affected system it was asked for, in order: a lookup that fails does    *)
(* not shift or drop the systems behind it.                                *)
(***************************************************************************)
SystemsKept ==
    astep = "done" /\ gateway # "none" =>
        /\ Len(Context.impacted) = Len(Wanted)
        /\ \A i \in DOMAIN Wanted : Context.impacted[i].name \in {Wanted[i]} \cup Aliases

(***************************************************************************)
(* No topology is invented: every edge starts at a node whose              *)
(* configuration item was found, also when other lookups failed.           *)
(***************************************************************************)
EdgesAnchored ==
    \A i \in DOMAIN deps :
        \E j \in DOMAIN impacted : impacted[j].known /\ impacted[j].name = deps[i].source

(***************************************************************************)
(* No failure is silent: a context carries one warning for every call that *)
(* was made and not answered.                                              *)
(***************************************************************************)
FailuresTold == astep = "done" /\ gateway # "none" => warned = unanswered

(***************************************************************************)
(* Agents-3-6-Implementation.md has agent 3 call                           *)
(* servicenow.get_ci_relationships for the dependencies, and               *)
(* ServiceNow-MCP-Integration.md has the connector serve it the topology.  *)
(* So the call made once a configuration item was found can be answered.   *)
(***************************************************************************)
RelationshipsServed ==
    astep = "relationships" => "answered" \in Outcomes("get_ci_relationships")

(***************************************************************************)
(* The topology is sound whichever lookups fail: every system is there, at *)
(* its place, and every edge starts at one that was found.                 *)
(***************************************************************************)
TopologySound == SystemsKept /\ EdgesAnchored
===============================================================================
