# A TLA+ verification of the RCA platform

The RCA platform investigates incidents: an API creates an investigation, a
LangGraph workflow of LLM agents analyses it and stops at a human-review gate,
an approver's decision lets it finish. Everything it writes goes to one
PostgreSQL database, with a hash-chained audit log beside the business rows.
The modules in this directory model the parts of it whose correctness depends
on order: what interleaves, what fails half way, what waits for whom.

## The system and its parts

| Part | State | Operations | What makes it correct | Modelled in |
|---|---|---|---|---|
| Unit of work and repositories (`db/`) | rows of investigations, approvals, feedback; open transactions | begin, look up, insert, commit, roll back | one investigation per key; a row and its audit entry commit together; nobody waits in a circle | `UnitOfWork` |
| Audit log (`libs/audit/sink.py`) | `audit_log`, the advisory lock, the sequence | record | one intact hash chain, visible in order | `UnitOfWork`, `AuditChain` |
| Investigation graph (`services/orchestrator/graph`) | the blackboard | the nodes and their routing | the confidence gate, the review gate | `InvestigationGraph` |
| Orchestrator client and the investigation endpoints | the thread's checkpoints, the status column | create and start, record a decision and resume | a decision gates the outcome; the column follows the thread; a start comes to the gate, an escalation or the end of a dropped triage | `InvestigationService`, `ReviewGate` |
| Status stream (`GET .../stream`) | its polls and what it told | poll the thread, close | it stops where the workflow rests and tells what was decided | `StatusStream` |
| API shell (auth, team scope, cursors) | none of its own | authorise, page | a caller sees its teams' rows through two filters; pages neither skip nor repeat | `InvestigationAccess` |
| Intake agent | none between runs | enrich, classify by tiers, guardrails | severity is never lowered, a serious incident never dropped, an answer never lost, systems grounded | `IntakeAgent` |
| Knowledge retrieval agent | none between runs | search twice at once, rank, cite, synthesize, filter | findings are grounded, confidence is earned, what failed is told | `KnowledgeAgent`, `EvidenceStep` |
| Architecture discovery agent | none between runs | look systems up one by one | no system lost, edges start where they were found, failures are told | `ArchitectureAgent`, `EvidenceStep` |
| RCA, recommendation and communication agents | the model of the last answer, shared by all investigations | ask, repair, filter, fall back | claims are grounded, confidence is capped, failure escalates, production steps need approval | `AnalysisAgents` |
| LLM client, redaction (`libs/`) | a pool of threads, attempts, placeholders | complete, redact | bounded retries, answers to their own calls, nothing sensitive leaves | `LlmClient`, `Redaction` |
| MCP connectors | attempts, pages | get, list | bounded, complete up to the bound; what the agents send is accepted | `ConnectorClient`, `ToolContracts` |
| Webhook ingress, contracts, tools | none | parse | | not modelled: stateless data types and parsers |

They interact as follows. A request opens a unit of work, changes rows and
records an audit entry in the same transaction. After the commit it calls the
orchestrator client, which runs the graph of the investigation's thread in the
request's own coroutine and saves a checkpoint after every superstep. When the
run stops the request reads the thread's status and writes it to the row in a
second transaction. Two requests on one investigation share the thread and the
row and nothing else; there is no lock between them.

## The modules

### AuditChain

What the audit log promises: a sequence of entries that grows at its end by one
new entry at a time.

### UnitOfWork

Requests run one transaction each. `pc[r]` is the statement a request executes
next; `rows` and `log` are committed, `pending` and `unlogged` are flushed by an
open transaction and invisible to the others (READ COMMITTED). One action is
one statement: `Begin` is `__aenter__`; `LookupMiss`, `LookupHit`, `GetFound`
and `GetMissing` are the queries and their early returns; `InsertInvestigation`,
`InsertConflict` and `InsertReview` the flushes, where the UNIQUE index on
`idempotency_key` makes a request wait for an uncommitted equal key;
`AcquireLock`, `ReadHead` and `FlushEntry` are `PostgresAuditSink.record`;
`Commit` and `Fail` are the two ends of `__aexit__`, `Fail` also a lost process
or connection. `audit_log.seq` is drawn at the flush and never given back.

A hash is the list of the entries it was computed from: SHA-256 is taken to be
free of collisions, which is exactly what the chain relies on. A row's other
columns are left out. An Idempotency-Key is a non-empty string; an empty one is
not looked up by the code (see the hazards).

### InvestigationGraph

The blackboard's control fields, what each node may write to them, the edges,
and `StatusOf`, the status `_status_from_state` derives from a checkpoint. Each
node is the set of outcomes its wrapper can return: intake fails or recommends
any triage, rca returns any confidence. The knowledge, architecture and
communication nodes write only fields nothing here depends on. What the agents
behind the nodes do is in modules of their own: `AnalysisAgents` implements the
last three nodes, `EvidenceStep` is the superstep of the two before.

A graph built without the architecture node does not compile, because the
branch table of `triage_gate` names it; `WiredAssumption` says so.

### InvestigationService and ReviewGate

The handlers of one investigation: `Starter` is `POST /investigations`, the
`Approver`s are `POST .../approvals`. `thread` is the latest checkpoint, `mem[h]`
the checkpoint handler h works on, `row` the status column, `decided` the
approvals table. LangGraph itself is external; the model has what `client.py`
relies on, each a definition of its own: a checkpoint per superstep
(`RunStep`; saved when the superstep ends, as the compiled graph does by
default), the interrupt (`Interrupted`), an `aupdate_state` that loads, then
saves on behalf of the last node (`LoadForUpdate`, then `UpdateState`: `SaveUpdate`,
or `RefuseUpdate` when two nodes ran last), and `ainvoke(None)` that passes the
pending interrupt (`Resume`). `Review` fixes what the callers do, since the API
checks nothing (`review.py:37` takes a decision in any status): approvals at any
time, only when the status asks for them, or one after the other as well. What holds
under a narrower `Review` is a promise to callers who keep to it, and the theorem
says which.

A dropped triage ends the thread with the row at running: `StartSettles` and
`RestsInAgreement` name the case, `client.py:23` and `USAGE.md` another status for it
(see below).

`ReviewGate` is the promise: the analysis comes to the gate, and leaves it once,
to the outcome of a decision recorded before. `Stage` and the `INSTANCE` in
`InvestigationService` are the refinement mapping.

### StatusStream

One client of `GET .../stream` next to all the handlers of
`InvestigationService`, which it extends: `OpenStream` is the visibility check,
possible from the commit of the create transaction on; `Poll` one round of
`_events`, which reads the thread's latest checkpoint and closes at the statuses
`Resting` names; `GiveUp` the end of its loop. It reads the thread and never the
row. It promises what it promises only if approvers wait to be asked: an approval
sent while the start is running can make the thread look finished, see finding 1.
Even then a thread that has no checkpoint yet is told as `completed`, and the stream
closes; `TellsBackedOutcomes` names that as the one outcome told without a decision.

### ConnectorClient

One listing call of a connector. `RejectCall` and `AcceptCall` are the head of
`call_tool`; in "sending" a request of `_get` is out, and the vendor's answer is
a page (`PagerDutyPage`, `ServiceNowPage`, `ConfluencePage`, which differ in how
the client knows the last page), an error that is not retried (`GiveUpAtOnce`),
a 429 (`Throttled`) or a 5xx or lost connection (`Unavailable`); `WakeUp` ends the
sleep before a retry. `Grow` is the vendor's users, adding an item anywhere in the
listing between two pages. Items are numbers; time is counted in the unit of the
backoff. The vendor is taken to honour `limit` and `offset`. That items may also
leave a listing, and are then skipped, is in the nature of offsets and not
modelled.

### ToolContracts

What the agents send to the connectors and what these accept and answer:
parameters by name (`Inputs`, all models forbid others), the keys and fields of
the results as far as an agent reads them, and `CallTool`, which never raises.
The gateway between the two is outside the repository; it is taken to pass
parameters and results on unchanged.

### IntakeAgent

One run of the agent. `pc` follows `run`: the two tools of `_enrich` (`NotWanted`,
`ToolAnswers`, `ToolRaises`), the calls of `_classify` (in "ask" one `complete()`
is out, which raises, or answers text that does not parse or does: `CallRaises`,
`Unparseable`, `Parses`; `NextTier` and `Conclude` are its loop and what follows
it), and `ApplyGuardrails`. A severity the model or the provider may name is
taken from `Reported`. `MinTriage` is assumed not to be drop, which the type of
`min_triage_for_serious` would allow and its comment does not mean. A claimed
system is what the code looks at: whether its quote and its name are in the
incident's text, and what the catalog says of it. Left out: the hypothesis,
metadata and audit events.

### KnowledgeAgent, ArchitectureAgent and EvidenceStep

`EvidenceStep` is the superstep in which both nodes run on the same blackboard,
interleaved at their awaits; `Merge` is LangGraph's end of the superstep, where
each key takes the delta of its node and `errors`, which both may write, its
reducer.

`KnowledgeAgent`: the two searches of `gather` end in either order
(`CorpusAnswers`, `EpisodicAnswers`; a search that raises is caught on its own, a
hit of an unexpected shape raises later and costs the run), `BuildCitations`
ranks, cuts and numbers (`Ranked` is Python's stable sort, as the hit at each place:
`Place` counts those before it), `Probe` is the freshness probe, then tiers with retries
and one repair, and `KnowledgeParses` with the guardrails on what was stated. A
citation is its place in the list; reference 0 is one that was made up. Findings
and conflicts are filtered one by one, so one of either is enough. `kwarnings` are the
warnings of what failed (`Warned`): a failed episodic search leaves nothing else.

`ArchitectureAgent`: for each system its configuration item and, if it has one,
its relationships, then the changes, in the order of the code. `Outcomes` is what
a call may come to; behind gateway "connector" that is `CallTool`, with "any" it
is anything, a malformed answer included (`Malformed`).

### AnalysisAgents

The three agents and their nodes in a row, on the blackboard of
`InvestigationGraph`, which it extends: at the end of each stage `board'` and
`stage'` must be a step of the graph (`ImplementsGraph`). `RcaAnswers`,
`AdviceAnswers` and `CommsAnswers` are an answer that parses, with the guardrails;
`LlmRaises`, `LlmUnparseable` and `ItemMalformed` the ways to the fallbacks.
`OtherRunAnswers` is another investigation using the same agent objects, which
remember the model of the last answer (`lastModel`): it may write it while this one
awaits its own answer (`LlmAnswers`), and not between that answer and its use, because
there is no `await` in between. `CommsRaised` is the delta the communication node
returns when its agent raises, without drafts.

`ConfidenceGrades` holds the grades and `min_conf`, which the knowledge agent and
`agents/base/parsing.py` both define.

### LlmClient and Redaction

`pc[a]` is where a question of an agent stands: calling `complete()`, waiting for
its request, in backoff. A request is submitted to `asyncio.to_thread`'s pool
(`queue`, then `running` on one of `Workers` threads: `Invoke`) under
`asyncio.wait_for`: `Timeout` cancels what is still queued and leaves behind what
runs, whose end (`Return`) then concerns nobody. `Retry` is the client's loop,
`CallFails` the agent's around it; a timeout and an error of the configuration
are not retried by the client, every other exception is. The pool is the default
executor of the process; nothing else is taken to use it.

`Redact` is the detectors one after the other (`Sub`), each over a text of tokens
from left to right (`Substitute`); a token is a value, with the set of detectors that
match it, or a placeholder. `placeholder_for` keeps a value's placeholder. A prompt
before the redaction is values only (`PlainTexts`, which `LlmAssumption` asks of the
prompts). What is sent is remembered in `wire`.

### InvestigationAccess

Callers with the roles and teams of their tokens create, decide and list
investigations. `TeamClause` is the repository's filter; `Settings` and
`InTeamScope` are the other one, the policy in the database, which splits the
setting that `apply_scope` joined. A team id is the sequence of its parts between
commas, of which most have one and `net,db` two. `Create` is the transaction before
its insert, which the policy may refuse (`RefuseCreate`); `CommitCreate` is its end,
so that an investigation with an earlier `created_at` may appear later; every
`ReadPage` is a transaction of its own, between which anything else happens.
`stayed` are the rows that were there, and matched the filter, from the first page
on: these a listing owes its caller.

## The runs

| Run | What it asks | Bounds |
|---|---|---|
| `UnitOfWork.cfg` | the audit chain is intact and read in order, in step with the rows; a key is used once, and a retry of a committed create does not conflict; no circle of waits, and every begun request ends; `AuditChain` is implemented | three requests, two teams, one key; every request chooses among keyed creates by three callers, a keyless create and reviews by a caller who sees the investigation and one who does not |
| `ServiceSerial.cfg` | the thread implements `ReviewGate`; the start settles and a decision takes effect unless its handler dies | two approvers, one after the other, crashes anywhere |
| `StatusStream.cfg` | no outcome on the thread or the row, and none told by the stream, without a decision that asks for it, but for `completed` of an unstarted thread; recommendations pass the confidence gate; once all handlers are done the thread rests where it may, and the row agrees unless two approvals may have raced (`RestsInAgreement`); the stream closes early only where the workflow rests | two deployments: all agents, and one without an rca agent, whose updates may be refused; two approvers at once, crashes anywhere, three polls |
| `InvestigationAccess.cfg` | a caller sees the rows of its teams; accepted creates are stored; approvals are seen with their investigation; pages neither repeat nor skip; a team id with a comma only ever hides rows | three callers (a member of one team, an administrator of none, a member of the team with a comma), two teams, three investigations at two instants, pages of one |
| `ConnectorClient.cfg` | requests, items and waits are bounded; the list is the vendor's list; nothing that was there is skipped while items are added; every call is answered | the three vendors; up to 7 items and 2 more, pages of 2, at most 3 pages, one retry, caps below, between and above |
| `LlmClient.cfg` | answers belong to the call that waits; requests are budgeted; nothing is sent in vain or unredacted; correlation is kept; every question ends | three questions, one of a tier without a model, one thread, one retry under two attempts, every prompt of two values and some of three, three detectors |
| `IntakeAgent.cfg` | severity is justified, serious is not dropped, a parsed answer is used, failure means unreachable, calls are bounded, systems are grounded | two tiers, two attempts, two severities, one tool call, two claimed systems, a catalog that knows or fails (not knowing a system comes to the same) |
| `EvidenceStep.cfg` | findings are grounded, confidence is earned, similar incidents are linked, the best chunks kept; no system lost, edges anchored; what failed has its warning, and the deltas are merged once; the superstep ends | three chunks (confirmed, refuted, stale), two hits of which one fits the context, one past incident, two tiers, two attempts; two systems, no gateway or any |
| `AnalysisAgents.cfg` | advice rests on evidence; with evidence the rca agent passes on no other reference; production steps ask for approval; an output names the model that answered this run; failure escalates; `InvestigationGraph` is implemented, the review is reached | with and without evidence, two items of which one is kept, one alternative, grades that are none, two attempts |
| `FindEarlyApproval.cfg`, `FindUngrounded.cfg`, `FindNoTopology.cfg` | each states what a document or a comment says and finds the code violating it | one approver; one item of an answer; one run against the connectors |

A run's properties are conjunctions where several parts make up one promise:
`ScopeKept`, `PagesExact`, `ListFaithful`, `RedactionKept`, `GuardrailsHold`,
`AnswersUsed`, `KnowledgeSupported`, `TopologySound`, `FailuresAccounted`,
`AnswersGuarded` and `RestsInAgreement` name their parts, each stated in its
module. The type invariants (`TypeOK`) are theorems; the run of `ConnectorClient`
checks its own as well.

Three requests are enough for the transactions: a lock holder, one that waits
for it and one that overtakes, or a key's holder, its waiter and the audit
lock's holder, are three. Two approvers are enough for the thread: what a third
would do to a checkpoint, the second can do. Three polls let a stream see a thread
before, during and after what it waits for. A listing of up to nine items against
pages of two and a bound of three pages has full, short and empty last pages and
lists that end before, at and after both bounds. Two tiers are all the agent has;
of the severities one is below serious and one above the default, which is serious
itself. One thread and two questions that need it make a request wait behind one
that nobody waits for, and time out there; a prompt of three tokens repeats a value
behind another, and the card number is matched by two detectors. Three
investigations, pages of one and two instants give ties of `created_at`, a middle
page and a late commit behind the cursor. Two hits and room for one chunk make the
cut matter, and the past incident then follows a chunk; two systems let the first
fail and the second have relationships. A claim, a conflict and an alternative are
judged alone by the code, so that one of each is enough; two steps or causes are
judged alone too, and a second one is there for the cut.

A finished system stutters through an action (`Idle`, `Answered`, `Ended`, `Over`,
`AtReview`, `AllEnded`) whose guard says that nothing is under way. Only
`InvestigationAccess.cfg` turns the deadlock check off, because callers may have
used up the ids, the approvals and the time that bound the instance, and
`FindNoTopology.cfg`, where a single run of an agent simply ends.

## Fairness

`UnitOfWork!FairSpec` is weak fairness of each begun request's next statement:
the event loop resumes a coroutine whose statement has been answered, and
PostgreSQL grants a free advisory lock and a decided key. No client has to send
a request and no failure has to happen. Weak fairness is enough for the lock
because each holder releases it for good and there are finitely many requests.

`InvestigationService!FairSpec` is weak fairness of the steps of a called
handler; callers and crashes are not owed.

`ConnectorClient!FairSpec` is weak fairness of the call's own steps taken
together: the transport answers or times out (`request_timeout_s`), `asyncio.sleep`
ends, the server replies. Which answer comes is left open, so a vendor that
throttles for ever is included. `Grow` is not owed.

`LlmClient!Fairness` is weak fairness of the event loop and of time: a call is made,
a sleep ends, a timeout fires. Nothing is owed by the provider or its threads, which
may run for ever; `EveryQuestionEnds` holds all the same.

`EvidenceStep!Fairness` is weak fairness of each agent's next step and of the merge:
every search, tool and model call is awaited with a timeout or ends by itself in the
clients above. `AnalysisAgents!Spec` is weak fairness of the stage's own steps, for
the same reason; other investigations are owed nothing and may come between for
ever. `IntakeAgent` and `InvestigationAccess` state no fairness and check no
liveness.

## What the checks find

1. An approval sent while the start is running can be overwritten by the start's
   next checkpoint; the workflow is then completed without a decision, whatever
   was decided. (`FindEarlyApproval.cfg`)
2. References are compared with the evidence only if there is some. When retrieval
   found nothing, a reference the model invented keeps its cause at high
   confidence, and the graph recommends on it, although
   `Agents-3-6-Implementation.md` says that such a cause is capped to low.
   (`FindUngrounded.cfg`; `AdvisedOnEvidence` is what does hold.)
3. The architecture agent asks for relationships with a parameter the ServiceNow
   connector forbids, and would look for fields the answer does not have: no
   topology is ever found. (`FindNoTopology.cfg`)

Noticed while modelling, without a run of its own. In the workflow and the API:

- A dropped triage ends the thread with the row at running for ever
  (`client.py:53`), where `client.py:23` and `USAGE.md:74` name a status `dropped`; a
  low-confidence analysis waits at the gate as `awaiting_approval`, where `USAGE.md`
  speaks of `escalated`.
- With an architecture agent and no rca agent every approval is recorded and its
  update then refused: two nodes ran last (`RefuseUpdate`).
- A stream opened before the thread's first checkpoint tells `completed` and
  closes; the stream does not close at `changes_requested`, which `USAGE.md`
  counts among the terminal statuses (`Resting`).
- Nothing calls `set_state`, so the findings the detail endpoint reads from the
  row are always empty.
- A second create with an empty Idempotency-Key is refused by the database: the
  empty key is stored but not looked up. A key is unique over all teams and looked
  up in the caller's.
- The policy splits a team id with a comma, so that members of that team neither see
  its rows nor create one (`OwnTeamsSeen`, `AcceptedIsStored`). A create that commits
  late, with an earlier `created_at`, is not in the pages read after it.

In the agents:

- Intake's call of `pagerduty.get_incident` names its parameter `id`, the connector
  requires `incident_id`: that enrichment is always refused.
- An ambiguous classification whose model was certain keeps high confidence,
  although the agent warns of a lower one (`SeverityConfidence`).
- The knowledge agent goes to the second tier also when the first is unreachable;
  its configuration speaks of parse failures only. A failed episodic search is not
  told as degraded; a stale confirmed analysis still gives high coverage; the
  freshness probe changes nothing; the same reference twice makes a conflict.
- When the knowledge agent fails altogether the rca agent has no ids to compare
  with, which is finding 2 again.
- The architecture agent is never degraded once it was to look at a system, because
  it makes a node for each (`agent.py:123`); its warnings are what tells the failures,
  although `Agents-3-6-Implementation.md:54` says that a tool failure returns a
  degraded context.
- A recommendation's references are not filtered (`recommendation/agent.py:90`) and
  not modelled: nothing is claimed of them. A step whose risk is unknown
  counts as low. A degraded communication names the model of whatever run answered
  last.

In the libraries:

- A numeric `Retry-After` is not limited by `backoff_max_s`, although
  `PagerDuty-MCP-Integration.md` says that all bounds come from config
  (`Throttled`).
- The LLM client retries every exception but timeouts and its own, where
  `LLM-and-Redaction-Implementation.md` lets everything but throttling fail fast.
- The system and the user prompt are redacted by separate calls, which number their
  placeholders independently.

## Proofs

`UnitOfWorkProofs` proves for any requests, teams, keys and workload, from
`UowAssumption` alone, the safety the run `UnitOfWork.cfg` checks, and its types:
`TypeCorrect`, `ChainCorrect`, `VisibleInOrder`, `AuditCorrect`, `KeyCorrect`,
`DeadlockFree`, `RetryAnswered` and `ImplementsAuditChain`.

`RetryAnswered` is `RetryNeverConflicts`. It speaks of two moments, a request that
begins when its key is visible and the same request later: `Answerable` says that
its key is committed, seen by its caller, and that it has not got past its lookup
empty-handed; that is kept for good (`StaysAnswerable`), and excludes the conflict.

None of the others is inductive. The chain is intact because only one request is
between `AcquireLock` and the end of its transaction, because the hash it read
is still the head, and because the `seq` it drew is greater than every committed
one; these facts, with those that tie `pc` to what a request has flushed, make up
`IInv`. `Inductive` proves it: one step per action, and under it one per
conjunct. The others follow from `IInv` and its preservation, the action
properties from a single step; `KeyCorrect` takes a second invariant on top,
that an open transaction's key is nobody else's.

`InvestigationServiceProofs` proves for any number of approvers, any set of
wired agents that compiles, and with or without crashes:

- `ServiceTypeCorrect` and `ConfidenceGate`, from the invariant `CInv`: every
  checkpoint, saved or in some handler's hands, is *sound*. What the nodes of its
  last superstep leave behind (`Behind`) is what the routing needs to let the next
  ones rely on (`Ahead`). `RecommendationsGated` alone is not inductive: a handler
  may resume an old checkpoint, so the invariant must speak of all of them.
  `NodeStep` and `Routing` are the two halves of a superstep; `SuperstepSound` and
  `UpdateSound` put them together for the two ways a checkpoint is made.
- `ReleaseGate`, under `Review # "anytime"` (which callers have to see to, as for
  all that follow), from `BInv` on top: approvers call only after the start is done,
  what they resume carries a recorded decision, and every outcome on its way to the
  thread or the row is backed by one. Without the assumption it is false, as
  `FindEarlyApproval.cfg` shows.
- `RowAndThreadAgree`, under `Review # "anytime"`, for approvers that race as well,
  from three more: `RInv`, what is pending in a checkpoint is what its last nodes
  lead to, and nothing follows an outcome; `PInv`, once the start has returned no
  checkpoint is left between two agents; `OInv`, unless two approvals may have
  raced, one handler is busy at a time, works on the thread as it is and answers
  what it is, and the row says so unless a run has moved on. Of a row that two
  approvals raced for it says nothing, since nothing in the code orders their
  writes; the thread's half holds all the same.
- `ServiceImplementsGate`, under `Review = "one_by_one"`, which nothing in the code
  enforces: the refinement follows step by step (`GateStep`), every step of the code
  is a step of `ReviewGate` or none, crashes included. Racing approvers may leave
  the gate twice.
- `StreamTellsBacked` and `StreamClosesAtRest`, of `StreamSpec` under
  `Review # "anytime"`: the stream's steps leave the handlers alone, so that the service's
  invariants hold of what it polls (`StreamKeepsService`). The first excepts what
  the code tells of a thread without a checkpoint.

`AnalysisAgentsProofs` proves every safety property of `AnalysisAgents.cfg` for any
evidence, any answers and any limits, `ImplementsGraph` included. The properties
hold one another up: that a degraded analysis left nothing behind needs
`NothingAdvisedYet`, so that `IInv` is their conjunction with it. `Noted`
is what `AnswersAttributed` needs: between an answer and its use, the shared
attribute names the model of this investigation. `AnsweredRcaGood`
and `FallbackRcaGood` are what the guardrails make of any answer; the three step
lemmas put them on the blackboard.

`IntakeAgentProofs` proves every property of `IntakeAgent.cfg`. The budget is the
work: `CInv` says that the calls made so far are at most those of the tiers,
questions and attempts behind, exactly so while none was answered, which is what
makes `FailsOnlyUnreachable` come out. `FlooredIsJustified` and
`SystemsAreGrounded` are the guardrails, for any result.

`ConnectorClientProofs` proves `Bounded`, `NothingSkipped` and `ListExact` for any
vendors, caps, pages and retries, from three invariants on one another: `BInv`
(what was sent is paid for by pages and attempts), `SInv` (what was there at first
has been collected or is ahead of the offset, since items are only added) and
`EInv` (while nothing is added, what was collected is what lies in front of the
offset). `CallTyped` is the type invariant, with the bound of a wait: the backoff's
cap, or what a `Retry-After` asked for. That a power of two is a natural number, which
the provers do not know, `PowerOfTwo` gets from the number of subsets of a set.

`InvestigationAccessProofs` proves the properties of `InvestigationAccess.cfg`
for any callers, team ids, finite set of ids and page size. `SeenOf` is what the two
filters let through together: `PolicyOfTeam` shows that the policy lets no row of a
team with a comma through and no less than the clause otherwise, and what it lets
through more the clause holds back. `TableInv` types the rows and gives an approval its
row's team. `ListInv` says that what was shown is not
beyond the cursor, and that what must be shown was shown or is beyond it.
`PageIs` is what a page is: it lies beyond the cursor, and what is beyond the
cursor and not on it is beyond its last row, or there is no other page. It rests on
`HasNewest` and `HasOldest`, that a finite set of rows has a first and a last, by
the well-foundedness of inclusion on finite sets.

`LlmClientProofs` proves `TypeOK`, `AnswersOwnCall`, `RequestsBudgeted` and
`NothingSentInVain`. The invariant knows that a request is queued once and only
while it is waited for (`QueueInv`), that nothing that runs is about to be
submitted again (`RunInv`, since a call that is submitted again is a new one or has
lost its thread), and the account of what was sent (`BudgetInv`).

`RedactionIsKept` is `RedactionKept`, for any texts of values and any detectors.
`MInv` is what the redaction of a text keeps at every place: a token is as it was or
the placeholder of its value, placeholders are distinct, and the counters count
exactly those given out. `SubstituteMasks` proves it of one detector at one place,
`SubMasks` of one detector, `RedactMasks` of all, with the fact that no match comes
back; `RedactedIs` and `TotalIs` (a bijection between values and placeholders) read
the property off. `WireInv` says that the wire holds the payload of a prompt that
never changes. The two recursive functions are reasoned about by `Least`: if the
claim failed at some place there would be a first one. The library has induction
only as a theorem about an operator, which the provers do not instantiate; that the
naturals are well founded it states about sets.

`EvidenceStepProofs` proves every safety property of `EvidenceStep.cfg`, each agent's
while the other runs beside it, and the types (`EvidenceTyped`):

- `TopologyIsSound` and `FailuresAreTold`, of the architecture agent, from
  `ArchInv`, which follows the list of nodes system by system (`Progress`,
  `InPlace`).
- `KnowledgeIsSupported`, of the knowledge agent. `EveryPlaceTaken` shows that the
  places of the ranking are a permutation, and `RankedIs` that it is sorted and holds
  every hit; `AnswersAre`, `GradesAre` and `CitedAre` are what the guardrails make of
  any answer. `KInv` carries the hits, the citations and the answer from
  `gather` to the result.
- `FailuresAreAccounted`, with `WInv` (each failure of the knowledge agent has left
  its warning) and `BInv`: what each node left is on the blackboard after the merge,
  and nothing else is.

Only model-checked is what no safety proof can be about: liveness under fairness,
`EveryRequestEnds` and its like in every run that states fairness. Every invariant
and every safety action property that a passing run checks is a theorem.

## Not modelled

- The webhook ingress, `tools/check_imports.py` and the data types of `contracts/`
  keep no state and take no steps.
- The verification of tokens, the encoding of cursors, error bodies, settings and
  the wiring of the application: formats and framework.
- `set_state`, `ApprovalRepository.list` and `InMemoryAuditSink`, which nothing in
  the application calls.
- The agents' prose (hypothesis, statements, drafts, templates), prompts, metadata
  and audit events. An audit event is recorded after the result and never fails it.
- The query strings and projections of the connectors, field by field; their
  outcome is in `ToolContracts` where an agent reads it.
- Items that leave a vendor's listing while it is paged; matches of a detector on
  part of a token, and texts that hold a placeholder.

## What could come next

1. `InvestigationAccess` with `UnitOfWork`'s transactions in place of its two-step
   create.
2. `ServiceImplementsGate` for approvers that race, against a gate that several
   decisions may leave.
