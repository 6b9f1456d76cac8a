------------------------- MODULE InvestigationService -------------------------
(***************************************************************************)
(* One investigation served by the API: the request that creates it and    *)
(* starts its workflow (POST /investigations), the requests that record a  *)
(* decision and resume it (POST .../approvals), the LangGraph thread they  *)
(* run (services/orchestrator/client.py) and the status column of the      *)
(* investigation's row.  Every handler is a process of its own: handlers   *)
(* interleave at every await, each runs the graph on the checkpoint it     *)
(* loaded, and the last checkpoint saved is the one the next caller loads. *)
(*                                                                         *)
(* LangGraph is outside the repository.  What is modelled of it is what    *)
(* client.py relies on: a checkpoint after every superstep, the interrupt  *)
(* before human_review, resuming with ainvoke(None), and aupdate_state     *)
(* attributing the update to the last node that ran.  The transactions are *)
(* single steps here; UnitOfWork looks inside them.                        *)
(***************************************************************************)
EXTENDS InvestigationGraph

CONSTANTS
    Starter,    \* the request that creates the investigation
    Approver,   \* the requests that record a decision
    Review,     \* when approvers send their decision; the API does not check:
                \*   "anytime"    once the investigation exists
                \*   "when_asked" while its status asks for review
                \*   "one_by_one" also, while no other approval is under way
    MayCrash    \* whether a handler may die or fail between two steps

ASSUME ServiceAssumption ==
    /\ Starter \notin Approver
    /\ Review \in {"anytime", "when_asked", "one_by_one"}
    /\ MayCrash \in BOOLEAN

Handler == Approver \cup {Starter}

VARIABLES
    at,         \* at[h]: how far handler h has come
    thread,     \* the latest checkpoint saved for the investigation
    mem,        \* mem[h]: the checkpoint h works on
    fresh,      \* fresh[h]: h has just resumed, the interrupt does not stop it
    said,       \* said[h]: the status h read from the thread
    decided,    \* decided[a]: the decision committed to the approvals table
    row         \* the status column of the investigation, or "absent"

vars == <<at, thread, mem, fresh, said, decided, row>>

Busy == {"committed", "updating", "updated", "running", "answered"}
Over == {"done", "refused", "crashed"}

Init ==
    /\ at = [h \in Handler |-> "idle"]
    /\ thread = NoCheckpoint
    /\ mem = [h \in Handler |-> NoCheckpoint]
    /\ fresh = [h \in Handler |-> FALSE]
    /\ said = [h \in Handler |-> "running"]
    /\ decided = [a \in Approver |-> Unset]
    /\ row = "absent"

Goto(h, from, to) == /\ at[h] = from
                     /\ at' = [at EXCEPT ![h] = to]

\* The first transaction of create_investigation has committed.
CreateInvestigation ==
    /\ Goto(Starter, "idle", "committed")
    /\ row' = "running"
    /\ UNCHANGED <<thread, mem, fresh, said, decided>>

\* start: ainvoke(initial) saves the input; what was pending is discarded.
StartWorkflow ==
    /\ Goto(Starter, "committed", "running")
    /\ thread' = [values |-> [thread.values EXCEPT !.incident = TRUE],
                  next |-> {"intake"}, last |-> {"START"}]
    /\ mem' = [mem EXCEPT ![Starter] = thread']
    /\ UNCHANGED <<fresh, said, decided, row>>

\* When an approver sends a decision is up to the approver (see Review).
Asked ==
    \/ Review = "anytime"
    \/ /\ row \in {"awaiting_approval", "escalated"}
       /\ Review = "one_by_one" => \A a \in Approver : at[a] \notin Busy

\* The first transaction of record_approval has committed.
RecordApproval(a) ==
    /\ row # "absent"
    /\ Asked
    /\ Goto(a, "idle", "committed")
    /\ \E d \in Decision : decided' = [decided EXCEPT ![a] = d]
    /\ UNCHANGED <<thread, mem, fresh, said, row>>

\* resume_after_approval: aupdate_state loads the latest checkpoint.
LoadForUpdate(a) ==
    /\ Goto(a, "committed", "updating")
    /\ mem' = [mem EXCEPT ![a] = thread]
    /\ UNCHANGED <<thread, fresh, said, decided, row>>

\* The node an update is attributed to: the one that ran last, or the entry
\* of a thread that has not run.
AsNode(c) == IF c.last = {} THEN "START" ELSE CHOOSE n \in c.last : TRUE

Ambiguous(c) == \E m, n \in c.last : m # n

\* Mutant of SaveUpdate: the decision is not injected.
SaveUpdateBlind(a) ==
    /\ Goto(a, "updating", "updated")
    /\ thread' = [mem[a] EXCEPT !.next = Edges(AsNode(mem[a]), mem[a].values)]
    /\ UNCHANGED <<mem, fresh, said, decided, row>>

\* ... and saves it with the decision on top, routed as that node routes.
SaveUpdate(a) ==
    /\ Goto(a, "updating", "updated")
    /\ LET v == [mem[a].values EXCEPT !.human_decision = decided[a]]
       IN  thread' = [values |-> v, next |-> Edges(AsNode(mem[a]), v),
                      last |-> mem[a].last]
    /\ UNCHANGED <<mem, fresh, said, decided, row>>

\* The superstep before had two nodes: aupdate_state raises, the approver gets
\* a server error although the decision is in the table.
RefuseUpdate(a) ==
    /\ Goto(a, "updating", "refused")
    /\ UNCHANGED <<thread, mem, fresh, said, decided, row>>

UpdateState(a) == IF Ambiguous(mem[a]) THEN RefuseUpdate(a) ELSE SaveUpdate(a)

\* Mutant of Resume: ainvoke with an input, which starts over.
ResumeFromStart(a) ==
    /\ Goto(a, "updated", "running")
    /\ thread' = [thread EXCEPT !.next = {"intake"}, !.last = {"START"}]
    /\ mem' = [mem EXCEPT ![a] = thread']
    /\ UNCHANGED <<fresh, said, decided, row>>

\* resume_after_approval: ainvoke(None) continues from the latest checkpoint,
\* past an interrupt that is pending there.
Resume(a) ==
    /\ Goto(a, "updated", "running")
    /\ mem' = [mem EXCEPT ![a] = thread]
    /\ fresh' = [fresh EXCEPT ![a] = TRUE]
    /\ UNCHANGED <<thread, said, decided, row>>

\* Mutant of Interrupted: compiled without interrupt_before.
NotInterrupted(h) == FALSE

Interrupted(h) == "human_review" \in mem[h].next /\ ~fresh[h]

RunOver(h) == mem[h].next = {} \/ Interrupted(h)

\* One superstep of h's run: its nodes run, a checkpoint is saved.
RunStep(h) ==
    /\ at[h] = "running"
    /\ ~RunOver(h)
    /\ \E c \in Superstep(mem[h]) :
           /\ thread' = c
           /\ mem' = [mem EXCEPT ![h] = c]
    /\ fresh' = [fresh EXCEPT ![h] = FALSE]
    /\ UNCHANGED <<at, said, decided, row>>

\* ainvoke has returned; aget_state reads the latest checkpoint.
GetState(h) ==
    /\ RunOver(h)
    /\ Goto(h, "running", "answered")
    /\ said' = [said EXCEPT ![h] = StatusOf(thread)]
    /\ UNCHANGED <<thread, mem, fresh, decided, row>>

\* Mutant of SetStatus: only a running investigation is updated.
SetStatusOnce(h) ==
    /\ Goto(h, "answered", "done")
    /\ row' = IF row = "running" THEN said[h] ELSE row
    /\ UNCHANGED <<thread, mem, fresh, said, decided>>

\* The second transaction: set_status overwrites the column.
SetStatus(h) ==
    /\ Goto(h, "answered", "done")
    /\ row' = said[h]
    /\ UNCHANGED <<thread, mem, fresh, said, decided>>

\* The process dies, or a call to the database or the checkpointer raises.
Crash(h) ==
    /\ MayCrash
    /\ at[h] \in Busy
    /\ at' = [at EXCEPT ![h] = "crashed"]
    /\ UNCHANGED <<thread, mem, fresh, said, decided, row>>

----------------------------------------------------------------------------
\* What a handler does on its own once its request has been accepted.
Progress(h) == RunStep(h) \/ GetState(h) \/ SetStatus(h)

ApproverStep(a) == LoadForUpdate(a) \/ UpdateState(a) \/ Resume(a)

Quiet == \A h \in Handler : at[h] \notin Busy

\* No request is being served, and none need arrive.
Idle == Quiet /\ UNCHANGED vars

Next ==
    \/ CreateInvestigation
    \/ StartWorkflow
    \/ \E a \in Approver : RecordApproval(a) \/ ApproverStep(a)
    \/ \E h \in Handler : Progress(h) \/ Crash(h)
    \/ Idle

Spec == Init /\ [][Next]_vars

\* A handler that has been called runs; callers and crashes are not owed.
FairSpec ==
    /\ Spec
    /\ WF_vars(StartWorkflow)
    /\ \A a \in Approver : WF_vars(ApproverStep(a))
    /\ \A h \in Handler : WF_vars(Progress(h))

----------------------------------------------------------------------------
TypeOK ==
    /\ at \in [Handler -> {"idle"} \cup Busy \cup Over]
    /\ thread \in Checkpoint
    /\ mem \in [Handler -> Checkpoint]
    /\ fresh \in [Handler -> BOOLEAN]
    /\ said \in [Handler -> Status]
    /\ decided \in [Approver -> Decision \cup {Unset}]
    /\ row \in Status \cup {"absent"}

\* Some approval committed to the table leads to outcome s.
Backed(s) == \E a \in Approver : decided[a] # Unset /\ OutcomeOf(decided[a]) = s

(***************************************************************************)
(* The decision gates the release: whatever approvals race, crash or are   *)
(* retried, neither the workflow nor the row has an outcome that no        *)
(* recorded decision asks for.                                             *)
(***************************************************************************)
OutcomeBacked ==
    /\ thread.values.status \in Outcome => Backed(thread.values.status)
    /\ row \in Outcome => Backed(row)

(***************************************************************************)
(* The confidence gate: recommendations exist only for an investigation    *)
(* whose intake succeeded, that was not dropped, and whose root cause has  *)
(* high or medium confidence.                                              *)
(***************************************************************************)
RecommendationsGated ==
    thread.values.recommendations =>
        /\ thread.values.rca_confidence \in {"high", "medium"}
        /\ thread.values.recommended_triage # "drop"
        /\ ~thread.values.intake_failed

(***************************************************************************)
(* What the handlers leave behind when every one that was called is done   *)
(* and none died or was refused.  The workflow is not left between two     *)
(* agents, however approvals race: it waits at the gate, has been decided, *)
(* or was dropped by triage.  And the row says what get_status says of the *)
(* thread, unless two approvals were recorded that nothing kept apart:     *)
(* each handler writes the status it read, the later writer wins, and no   *)
(* check in review.py or set_status prevents that.  Agreement is all that  *)
(* is said of a dropped workflow: both call it `running'.                  *)
(***************************************************************************)
AllDone == /\ at[Starter] = "done"
           /\ \A a \in Approver : at[a] \in {"idle", "done"}

MayHaveRaced ==
    /\ Review # "one_by_one"
    /\ \E a, b \in Approver : a # b /\ decided[a] # Unset /\ decided[b] # Unset

RowAgrees == AllDone => row = StatusOf(thread) \/ MayHaveRaced

RestsAtGate ==
    AllDone =>
        \/ thread.next = {"human_review"}
        \/ /\ thread.next = {}
           /\ \/ thread.values.status \in Outcome
              \/ thread.values.recommended_triage = "drop"

RestsInAgreement == RowAgrees /\ RestsAtGate

(***************************************************************************)
(* What becomes of a created investigation whose handler does not die: its *)
(* row comes to ask for review or to say it was escalated; or triage has   *)
(* dropped it, its workflow has ended, and its row still says `running'    *)
(* when the handler is done.  That row is never changed again, although    *)
(* the comment in client.py and the usage guide know a status `dropped'.   *)
(***************************************************************************)
LeftRunning ==
    /\ at[Starter] = "done"
    /\ row = "running"
    /\ thread.next = {}
    /\ thread.values.recommended_triage = "drop"

StartSettles ==
    at[Starter] = "committed" ~>
        \/ row \in {"awaiting_approval", "escalated"}
        \/ LeftRunning
        \/ at[Starter] = "crashed"

(***************************************************************************)
(* A decision recorded for a workflow that is not decided yet is acted     *)
(* upon, unless its handler dies: the workflow passes the gate with that   *)
(* decision's outcome, and the row shows it (or still shows the failed     *)
(* intake it was escalated for), whatever a handler that died before left. *)
(***************************************************************************)
DecisionTakesEffect ==
    \A a \in Approver : \A d \in Decision :
        decided[a] = d /\ thread.values.status \notin Outcome ~>
            \/ /\ thread.values.status = OutcomeOf(d)
               /\ row \in {OutcomeOf(d), "escalated"}
            \/ at[a] = "crashed"

(***************************************************************************)
(* The review gate of ReviewGate is implemented: decided once, by a        *)
(* decision recorded before, and never reopened.                           *)
(***************************************************************************)
Stage ==
    CASE thread.values.status \in Outcome  -> "decided"
      [] thread.next = {"human_review"}
         /\ thread.values.status \notin Outcome -> "gate"
      [] thread.next = {} /\ thread.values.status = "triaged" -> "dropped"
      [] OTHER -> "analysing"

Gate == INSTANCE ReviewGate WITH
            Decisions <- Decision,
            Result <- OutcomeOf,
            stage <- Stage,
            outcome <- IF thread.values.status \in Outcome
                       THEN thread.values.status ELSE "none",
            recorded <- {decided[a] : a \in Approver} \ {Unset}

ImplementsGate == Gate!GateSpec

----------------------------------------------------------------------------
(* What a comment says and the code does not do; a run of its own finds    *)
(* the violation.                                                          *)

(***************************************************************************)
(* build.py on _human_review: reached only after the interrupt is resumed  *)
(* with a recorded decision.                                               *)
(***************************************************************************)
ReviewSeesDecision ==
    thread.values.status \in Outcome => thread.values.human_decision # Unset
===============================================================================
