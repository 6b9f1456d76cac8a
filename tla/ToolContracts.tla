----------------------------- MODULE ToolContracts -----------------------------
(***************************************************************************)
(* What the read-only connectors accept and answer (mcp_connectors), and   *)
(* what the agents send and read.  The two sides meet only at run time,    *)
(* through a gateway outside the repository that passes parameters and     *)
(* results on as they are.  A value an agent sends is never empty.         *)
(***************************************************************************)

\* The three forms of input model; all of them forbid undeclared parameters.
Needs(required, optional) ==
    [declares |-> required \cup optional, requires |-> required, oneOf |-> {}]

OneOf(identifiers) ==
    [declares |-> identifiers, requires |-> {}, oneOf |-> identifiers]

Filters(optional) == Needs({}, optional)

\* model_validate: the parameters are a valid input of the tool.
Accepts(input, params) ==
    /\ params \subseteq input.declares
    /\ input.requires \subseteq params
    /\ input.oneOf # {} => params \cap input.oneOf # {}

ServiceNowInputs ==
    [get_incident         |-> OneOf({"sys_id", "number"}),
     list_incidents       |-> Filters({"query", "state", "priority", "assignment_group",
                                       "cmdb_ci", "opened_after", "max_items"}),
     get_incident_journal |-> Needs({"sys_id"}, {"max_items"}),
     get_change_request   |-> OneOf({"sys_id", "number"}),
     list_change_requests |-> Filters({"query", "cmdb_ci", "state", "closed_after",
                                       "max_items"}),
     get_knowledge        |-> OneOf({"id", "sys_id", "number"}),
     search_knowledge     |-> Needs({"query"}, {"max_items"}),
     get_cmdb_ci          |-> OneOf({"sys_id", "name"}),
     get_ci_relationships |-> Needs({"ci_sys_id"}, {"max_items"}),
     get_user             |-> Needs({"sys_id"}, {})]

PagerDutyInputs ==
    [get_incident             |-> Needs({"incident_id"}, {}),
     list_incidents           |-> Filters({"statuses", "since", "until", "service_ids",
                                           "team_ids", "urgencies", "max_items"}),
     list_alerts              |-> Needs({"incident_id"}, {"max_items"}),
     get_incident_log_entries |-> Needs({"incident_id"}, {"max_items"}),
     get_incident_notes       |-> Needs({"incident_id"}, {"max_items"}),
     get_service              |-> Needs({"service_id"}, {}),
     list_services            |-> Filters({"query", "team_ids", "max_items"}),
     get_oncalls              |-> Filters({"escalation_policy_ids", "schedule_ids",
                                           "since", "until", "max_items"}),
     get_user                 |-> Needs({"user_id"}, {})]

ConfluenceInputs ==
    [get_page          |-> Needs({"id"}, {"body_format"}),
     get_page_by_title |-> Needs({"space_key", "title"}, {"body_format"}),
     search            |-> [OneOf({"cql", "text"}) EXCEPT !.declares = @ \cup {"max_items"}],
     list_pages        |-> Needs({"space_key"}, {"max_items"}),
     get_child_pages   |-> Needs({"page_id"}, {"max_items"}),
     get_attachments   |-> Needs({"page_id"}, {"max_items"}),
     get_space         |-> Needs({"space_key"}, {})]

Inputs == [servicenow |-> ServiceNowInputs,
           pagerduty  |-> PagerDutyInputs,
           confluence |-> ConfluenceInputs]

\* call_tool of the three servers: what a call may come to.  It never raises.
CallTool(server, tool, params) ==
    IF tool \notin DOMAIN Inputs[server] THEN {"unknown tool"}
    ELSE IF ~Accepts(Inputs[server][tool], params) THEN {"invalid params"}
    ELSE {"answered", "failed"}

----------------------------------------------------------------------------
\* The key under which a ServiceNow handler returns its record or records,
\* and the fields a projection keeps (those an agent of the repository reads).
ServiceNowKey ==
    [get_incident         |-> "incident",
     list_incidents       |-> "incidents",
     get_incident_journal |-> "journal",
     get_change_request   |-> "change_request",
     list_change_requests |-> "change_requests",
     get_knowledge        |-> "article",
     search_knowledge     |-> "articles",
     get_cmdb_ci          |-> "ci",
     get_ci_relationships |-> "relationships",
     get_user             |-> "user"]

ChangeFields == {"sys_id", "number", "short_description", "type", "state",
                 "state_label", "risk", "start_date", "end_date", "cmdb_ci",
                 "cmdb_ci_id", "assignment_group", "close_code"}

ConfigItemFields == {"sys_id", "name", "ci_class", "operational_status",
                     "environment", "owned_by", "support_group"}

RelationshipFields == {"parent", "parent_id", "child", "child_id", "type"}

ServiceNowFields == [list_change_requests |-> ChangeFields,
                     get_cmdb_ci          |-> ConfigItemFields,
                     get_ci_relationships |-> RelationshipFields]

----------------------------------------------------------------------------
\* What the agents send (agents/*/tools.py, architecture_discovery/agent.py).
IntakeSends == [pagerduty |-> {"id"}, servicenow |-> {"sys_id"}]

ProbeSends == {"id"}

ArchitectureSends == [get_cmdb_ci          |-> {"name"},
                      get_ci_relationships |-> {"sys_id"},
                      list_change_requests |-> {"limit"}]

\* What the architecture agent reads: the keys it looks under, and the fields
\* of which it needs one.
ArchitectureKeys == [get_cmdb_ci          |-> {"ci", "record", "result"},
                     get_ci_relationships |-> {"relationships", "results"},
                     list_change_requests |-> {"changes", "results", "records"}]

ArchitectureFields == [get_cmdb_ci          |-> {"sys_id", "ci_id"},
                       get_ci_relationships |-> {"target", "name", "related_ci"},
                       list_change_requests |-> {"number", "sys_id", "change_id"}]

\* The architecture agent finds something in the connector's answer.
Readable(tool) ==
    /\ ServiceNowKey[tool] \in ArchitectureKeys[tool]
    /\ ServiceNowFields[tool] \cap ArchitectureFields[tool] # {}
===============================================================================
