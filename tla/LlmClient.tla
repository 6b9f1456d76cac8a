------------------------------- MODULE LlmClient -------------------------------
(***************************************************************************)
(* The model client (libs/llm/client.py) between the agents that ask it    *)
(* and the provider.  complete() runs each request on a thread of a pool   *)
(* of limited size, retries it, and gives up on it after a timeout: a      *)
(* request still queued is then cancelled, one that runs goes on and its   *)
(* answer is dropped.  The agent calls complete() again when it raises.    *)
(***************************************************************************)
EXTENDS Naturals, Sequences, FiniteSets, Redaction

CONSTANTS
    Askers,         \* the agents' questions
    Unmapped,       \* those of a tier without a model
    Prompts,        \* the user prompts that each may have
    System,         \* the system prompt
    MaxRetries,     \* max_retries
    AgentAttempts,  \* llm_max_attempts of the agents
    Workers         \* the threads of the pool

ASSUME LlmAssumption ==
    /\ Unmapped \subseteq Askers
    /\ MaxRetries \in Nat
    /\ {AgentAttempts, Workers} \subseteq Nat \ {0}
    /\ System \in PlainTexts
    /\ \A a \in Askers : Prompts[a] \subseteq PlainTexts

VARIABLES
    pc,         \* "call", "waiting", "backoff", "answered", "failed"
    round,      \* the call of complete() the agent is at
    try,        \* the retry that call is at
    prompt,     \* the user prompt
    queue,      \* the requests submitted and not started
    running,    \* the requests on a thread, also those nobody waits for
    wire,       \* what was sent of each question, <<>> before
    requests,   \* the requests sent per question (history)
    answer      \* the call whose answer the agent got

vars == <<pc, round, try, prompt, queue, running, wire, requests, answer>>

Init ==
    /\ pc = [a \in Askers |-> "call"]
    /\ round = [a \in Askers |-> 1] /\ try = [a \in Askers |-> 0]
    /\ prompt \in {p \in [Askers -> UNION {Prompts[a] : a \in Askers}] :
                      \A a \in Askers : p[a] \in Prompts[a]}
    /\ queue = <<>> /\ running = {}
    /\ wire = [a \in Askers |-> <<>>]
    /\ requests = [a \in Askers |-> 0]
    /\ answer = [a \in Askers |-> 0]

Request(a) == [who |-> a, round |-> round[a]]

\* complete() raises: the agent's loop calls it again, or fails.
CallFails(a) ==
    /\ try' = [try EXCEPT ![a] = 0]
    /\ IF round[a] < AgentAttempts
       THEN pc' = [pc EXCEPT ![a] = "call"] /\ round' = [round EXCEPT ![a] = @ + 1]
       ELSE pc' = [pc EXCEPT ![a] = "failed"] /\ UNCHANGED round
    /\ UNCHANGED <<prompt, answer>>

Submit(a) ==
    /\ pc' = [pc EXCEPT ![a] = "waiting"]
    /\ queue' = Append(queue, Request(a))
    /\ UNCHANGED <<round, try, prompt, running, wire, requests, answer>>

\* complete: a tier without a model raises before anything is sent.
Complete(a) ==
    /\ pc[a] = "call"
    /\ IF a \in Unmapped
       THEN CallFails(a) /\ UNCHANGED <<queue, running, wire, requests>>
       ELSE Submit(a)

\* asyncio.sleep(backoff) is over: the same payload is submitted again.
Wake(a) == pc[a] = "backoff" /\ Submit(a)

\* The request body: system and user prompt, each redacted on its own.
Payload(a) == Redact(System).out \o Redact(prompt[a]).out

\* A free thread takes the first request and sends it.
Invoke ==
    /\ queue # <<>> /\ Cardinality(running) < Workers
    /\ running' = running \cup {Head(queue)}
    /\ queue' = Tail(queue)
    /\ wire' = [wire EXCEPT ![Head(queue).who] = Payload(Head(queue).who)]
    /\ requests' = [requests EXCEPT ![Head(queue).who] = @ + 1]
    /\ UNCHANGED <<pc, round, try, prompt, answer>>

\* Mutant of Awaited: whatever comes for a question is taken.
AwaitedAny(r) == pc[r.who] = "waiting"

\* Somebody still waits for this request.
Awaited(r) == pc[r.who] = "waiting" /\ r = Request(r.who)

\* Mutant of Retry: the retries are never used up.
RetryOnce(a) ==
    /\ pc' = [pc EXCEPT ![a] = "backoff"]
    /\ try' = [try EXCEPT ![a] = 1]
    /\ UNCHANGED <<round, prompt, answer>>

\* Throttling, an unreadable body and any other exception are all retried.
Retry(a) ==
    IF try[a] < MaxRetries
    THEN /\ pc' = [pc EXCEPT ![a] = "backoff"]
         /\ try' = [try EXCEPT ![a] = @ + 1]
         /\ UNCHANGED <<round, prompt, answer>>
    ELSE CallFails(a)

Answered(r) ==
    /\ pc' = [pc EXCEPT ![r.who] = "answered"]
    /\ answer' = [answer EXCEPT ![r.who] = r.round]
    /\ UNCHANGED <<round, try, prompt>>

\* A thread ends, with an answer, an exception to retry, or one that is not:
\* no region configured, or an answer _parse cannot read.
Return(r) ==
    /\ r \in running
    /\ running' = running \ {r}
    /\ IF Awaited(r)
       THEN Answered(r) \/ Retry(r.who) \/ CallFails(r.who)
       ELSE UNCHANGED <<pc, round, try, prompt, answer>>
    /\ UNCHANGED <<queue, wire, requests>>

\* Mutant of Uncancelled: a request given up on stays in the queue.
UncancelledAll(a) == queue

\* What is left of the queue when a's request is cancelled.
Uncancelled(a) ==
    LET places == {i \in 1..Len(queue) : queue[i] = Request(a)}
    IN  IF places = {} THEN queue ELSE RemoveAt(queue, CHOOSE i \in places : TRUE)

\* Mutant of Timeout: the time in the queue does not count.
TimeoutRunning(a) ==
    /\ pc[a] = "waiting" /\ Request(a) \in running
    /\ queue' = Uncancelled(a)
    /\ CallFails(a)
    /\ UNCHANGED <<running, wire, requests>>

\* asyncio.wait_for: also a request that waits for a thread runs out of time.
Timeout(a) ==
    /\ pc[a] = "waiting"
    /\ queue' = Uncancelled(a)
    /\ CallFails(a)
    /\ UNCHANGED <<running, wire, requests>>

Ended(a) == pc[a] \in {"answered", "failed"}

\* All questions are over; threads nobody waits for may still run.
AllEnded == (\A a \in Askers : Ended(a)) /\ UNCHANGED vars

Next ==
    \/ \E a \in Askers : Complete(a) \/ Wake(a) \/ Timeout(a)
    \/ Invoke
    \/ \E r \in running : Return(r)
    \/ AllEnded

\* The event loop goes on, and time passes.  Nothing is assumed of the
\* provider, nor of the threads: a request may run for ever.
Fairness == \A a \in Askers : WF_vars(Complete(a)) /\ WF_vars(Wake(a)) /\ WF_vars(Timeout(a))

Spec == Init /\ [][Next]_vars /\ Fairness

----------------------------------------------------------------------------
Requests == [who : Askers, round : 1..AgentAttempts]

TypeOK ==
    /\ pc \in [Askers -> {"call", "waiting", "backoff", "answered", "failed"}]
    /\ round \in [Askers -> 1..AgentAttempts]
    /\ try \in [Askers -> 0..MaxRetries]
    /\ \A a \in Askers : prompt[a] \in Prompts[a]
    /\ queue \in Seq(Requests)
    /\ running \subseteq Requests
    /\ requests \in [Askers -> Nat]
    /\ answer \in [Askers -> 0..AgentAttempts]

(***************************************************************************)
(* An answer the agent works with belongs to the call it made last, never  *)
(* to one that timed out before: the threads of those still run.           *)
(***************************************************************************)
AnswersOwnCall == \A a \in Askers : pc[a] = "answered" => answer[a] = round[a]

(***************************************************************************)
(* Retries upon retries are bounded: no question costs more requests than  *)
(* the agent's attempts times the client's, nor are there more at a time   *)
(* than threads.                                                           *)
(***************************************************************************)
RequestsBudgeted ==
    /\ \A a \in Askers : requests[a] <= AgentAttempts * (MaxRetries + 1)
    /\ Cardinality(running) <= Workers

(***************************************************************************)
(* Nothing is sent for a call that was given up on: a request sent belongs *)
(* to a question somebody waits for.                                       *)
(***************************************************************************)
NothingSentInVain ==
    [][\A a \in Askers : requests'[a] # requests[a] =>
           pc[a] = "waiting" /\ Request(a) \in running']_vars

(***************************************************************************)
(* No value a detector matches leaves the process, in either prompt and on *)
(* any retry, and what none matches arrives as it was written.             *)
(***************************************************************************)
SentRedacted ==
    \A a \in Askers : wire[a] # <<>> =>
        /\ Len(wire[a]) = Len(System \o prompt[a])
        /\ \A i \in DOMAIN wire[a] :
               LET token == (System \o prompt[a])[i]
               IN  IF Matching[token.value] # {} THEN wire[a][i].value = "none"
                                                 ELSE wire[a][i] = token

(***************************************************************************)
(* Correlation survives: within the user prompt two tokens are equal after *)
(* the redaction exactly if they were before, and the count that is logged *)
(* is that of the distinct values masked.                                  *)
(***************************************************************************)
CorrelationKept ==
    \A a \in Askers : wire[a] # <<>> =>
        LET p == prompt[a]
            sent == SubSeq(wire[a], Len(System) + 1, Len(wire[a]))
        IN  /\ \A i, j \in DOMAIN p : (p[i] = p[j]) <=> (sent[i] = sent[j])
            /\ Total(Redact(p)) =
                   Cardinality({p[i].value : i \in {k \in DOMAIN p : Matching[p[k].value] # {}}})

(***************************************************************************)
(* Every question ends, though requests nobody waits for may hold all      *)
(* threads for ever.                                                       *)
(***************************************************************************)
EveryQuestionEnds == \A a \in Askers : <>Ended(a)

(***************************************************************************)
(* What is sent is redacted as a whole and correlates as the prompt did,   *)
(* on every retry.                                                         *)
(***************************************************************************)
RedactionKept == SentRedacted /\ CorrelationKept
===============================================================================
