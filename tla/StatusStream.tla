----------------------------- MODULE StatusStream -----------------------------
(***************************************************************************)
(* A client that watches an investigation over GET .../stream while other  *)
(* requests start it, decide it and resume it.  The stream polls the       *)
(* status of the thread, not the row, and closes at the first status it    *)
(* takes for a resting one or when its polls are used up.                  *)
(***************************************************************************)
EXTENDS InvestigationService, Naturals

CONSTANT MaxPolls       \* settings.sse_max_polls

ASSUME StreamAssumption == MaxPolls \in Nat \ {0}

VARIABLES
    stream,     \* "unopened", "open" or "closed"
    polls,      \* the polls made
    told        \* the status told last, or "none"

streamVars == <<stream, polls, told>>

StreamInit == Init /\ stream = "unopened" /\ polls = 0 /\ told = "none"

\* The investigation is visible: its first transaction has committed.
OpenStream ==
    /\ stream = "unopened"
    /\ row # "absent"
    /\ stream' = "open"
    /\ UNCHANGED <<vars, polls, told>>

\* Mutant of Resting: the stream returns after its first event.
RestingAlways(status) == TRUE

\* `terminal' of _events, and the gate.
Resting(status) ==
    status \in {"completed", "failed", "escalated", "dropped", "closed_rejected",
                "awaiting_approval"}

\* get_status, the event with its answer, and the decision to go on.
Poll ==
    /\ stream = "open"
    /\ polls < MaxPolls
    /\ polls' = polls + 1
    /\ told' = StatusOf(thread)
    /\ stream' = IF Resting(told') THEN "closed" ELSE "open"
    /\ UNCHANGED vars

\* The polls are used up.
GiveUp ==
    /\ stream = "open"
    /\ polls = MaxPolls
    /\ stream' = "closed"
    /\ UNCHANGED <<vars, polls, told>>

StreamNext == (Next /\ UNCHANGED streamVars) \/ OpenStream \/ Poll \/ GiveUp

StreamSpec == StreamInit /\ [][StreamNext]_<<vars, streamVars>>

----------------------------------------------------------------------------
(***************************************************************************)
(* A stream that closes before its polls are used up leaves the client     *)
(* with a workflow that waits for a person or has ended, whoever is        *)
(* running it: the resting statuses of _status_from_state are resting      *)
(* places of the graph.  (A thread that has not started has nothing        *)
(* pending either, and is told as completed.)                              *)
(***************************************************************************)
ClosesAtRest ==
    [][/\ stream = "open" /\ stream' = "closed"
       /\ polls' < MaxPolls
       /\ thread.last # {}
       => thread.next \in {{}, {"human_review"}}]_streamVars

(***************************************************************************)
(* An outcome is told only if a recorded decision leads to it, whatever    *)
(* approvals race on the thread that is polled, with one exception: while  *)
(* the request that creates the investigation has not saved the first      *)
(* checkpoint, get_status finds nothing pending and no status, and the     *)
(* client is told `completed' of a workflow that has not begun.            *)
(***************************************************************************)
TellsBackedOutcomes ==
    [][Poll /\ told' \in Outcome =>
           \/ Backed(told')
           \/ told' = "completed" /\ thread = NoCheckpoint]_streamVars
===============================================================================
