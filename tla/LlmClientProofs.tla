---------------------------- MODULE LlmClientProofs ----------------------------
(***************************************************************************)
(* Proofs about LlmClient for any number of questions, threads and retries *)
(* and any prompts, whatever the provider does and however late.           *)
(***************************************************************************)
EXTENDS LlmClient, Integers, FiniteSetTheorems, SequenceTheorems, WellFoundedInduction, TLAPS

K == MaxRetries + 1

----------------------------------------------------------------------------
(***************************************************************************)
(* The queue.                                                              *)
(***************************************************************************)

\* A sequence without its item at k.
LEMMA RemoveAtIs ==
    ASSUME NEW S, NEW s \in Seq(S), NEW k \in 1..Len(s)
    PROVE  /\ RemoveAt(s, k) \in Seq(S) /\ Len(RemoveAt(s, k)) = Len(s) - 1
           /\ \A i \in 1..(Len(s) - 1) :
                  RemoveAt(s, k)[i] = IF i < k THEN s[i] ELSE s[i + 1]
<1> DEFINE front == SubSeq(s, 1, k - 1)
<1> DEFINE back == SubSeq(s, k + 1, Len(s))
<1>1. Len(s) \in Nat /\ k \in Nat /\ 1 <= k /\ k <= Len(s)
    BY LenProperties
<1>2. \A i \in 1..Len(s) : s[i] \in S
    BY ElementOfSeq
<1>3. /\ front \in Seq(S) /\ Len(front) = k - 1
      /\ \A i \in 1..(k - 1) : front[i] = s[i]
    <2>1. \A i \in 1..(k - 1) : s[i] \in S
        BY <1>1, <1>2
    <2>2. /\ front \in Seq(S)
          /\ Len(front) = IF 1 <= k - 1 THEN (k - 1) - 1 + 1 ELSE 0
          /\ \A i \in 1..((k - 1) - 1 + 1) : front[i] = s[1 + i - 1]
        BY <1>1, <2>1, SubSeqProperties
    <2> QED
        BY <1>1, <2>2
<1>4. /\ back \in Seq(S) /\ Len(back) = Len(s) - k
      /\ \A i \in 1..(Len(s) - k) : back[i] = s[k + i]
    <2>1. \A i \in (k + 1)..Len(s) : s[i] \in S
        BY <1>1, <1>2
    <2>2. /\ back \in Seq(S)
          /\ Len(back) = IF k + 1 <= Len(s) THEN Len(s) - (k + 1) + 1 ELSE 0
          /\ \A i \in 1..(Len(s) - (k + 1) + 1) : back[i] = s[(k + 1) + i - 1]
        BY <1>1, <2>1, SubSeqProperties
    <2> QED
        BY <1>1, <2>2
<1>5. RemoveAt(s, k) = front \o back
    BY DEF RemoveAt
<1> HIDE DEF front, back
<1>6. /\ front \o back \in Seq(S) /\ Len(front \o back) = Len(front) + Len(back)
      /\ \A i \in 1..(Len(front) + Len(back)) :
             (front \o back)[i] = IF i <= Len(front) THEN front[i] ELSE back[i - Len(front)]
    BY <1>3, <1>4, ConcatProperties
<1>7. Len(front) + Len(back) = Len(s) - 1
    BY <1>1, <1>3, <1>4
<1>8. ASSUME NEW i \in 1..(Len(s) - 1)
      PROVE  (front \o back)[i] = IF i < k THEN s[i] ELSE s[i + 1]
    <2>1. CASE i < k
        <3>1. i \in 1..(k - 1)
            BY <1>1, <2>1
        <3> QED
            BY <1>1, <1>3, <1>6, <1>7, <2>1, <3>1
    <2>2. CASE ~(i < k)
        <3>1. /\ i - (k - 1) \in 1..(Len(s) - k) /\ k + (i - (k - 1)) = i + 1
              /\ ~(i <= k - 1)
            BY <1>1, <2>2
        <3> QED
            BY <1>3, <1>4, <1>6, <1>7, <2>2, <3>1
    <2> QED
        BY <2>1, <2>2
<1> QED
    BY <1>5, <1>6, <1>7, <1>8

----------------------------------------------------------------------------
(***************************************************************************)
(* The inductive invariant.                                                *)
(***************************************************************************)
Typed ==
    /\ pc \in [Askers -> {"call", "waiting", "backoff", "answered", "failed"}]
    /\ round \in [Askers -> 1..AgentAttempts]
    /\ try \in [Askers -> 0..MaxRetries]
    /\ \A a \in Askers : prompt[a] \in Prompts[a]
    /\ queue \in Seq(Requests)
    /\ running \in SUBSET Requests
    /\ requests \in [Askers -> Nat]
    /\ answer \in [Askers -> 0..AgentAttempts]

\* There are no more threads than workers.
Threads == IsFiniteSet(running) /\ Cardinality(running) <= Workers

\* What is queued is waited for, and queued once.
QueueInv ==
    /\ \A i \in 1..Len(queue) :
           pc[queue[i].who] = "waiting" /\ queue[i] = Request(queue[i].who)
    /\ \A i, j \in 1..Len(queue) : queue[i] = queue[j] => i = j

\* What runs was asked for before, and is not what is about to be submitted.
RunInv ==
    \A r \in running :
        /\ r.round <= round[r.who]
        /\ pc[r.who] \in {"call", "backoff"} => r.round # round[r.who]
        /\ \A i \in 1..Len(queue) : queue[i] # r

Queued(a) == \E i \in 1..Len(queue) : queue[i] = Request(a)

\* Each call before this one sent K requests at most, and this one a request
\* for each retry and the one it waits for, unless that is still queued.
BudgetInv ==
    \A a \in Askers :
        /\ pc[a] \in {"call", "backoff"} \/ Queued(a) =>
               requests[a] <= (round[a] - 1) * K + try[a]
        /\ pc[a] \in {"waiting", "answered"} =>
               requests[a] <= (round[a] - 1) * K + try[a] + 1
        /\ pc[a] = "failed" => requests[a] <= round[a] * K

IInv == Typed /\ Threads /\ QueueInv /\ RunInv /\ BudgetInv /\ AnswersOwnCall

LEMMA Config ==
    MaxRetries \in Nat /\ AgentAttempts \in Nat \ {0} /\ Workers \in Nat \ {0} /\ K \in Nat
BY LlmAssumption DEF K

\* What n calls may send, and the call after them.
LEMMA OneMoreCall ==
    ASSUME NEW n \in Nat, NEW m \in Nat, n <= m
    PROVE  /\ n * K \in Nat /\ (n + 1) * K = n * K + K
           /\ n * K <= m * K /\ m * K \in Nat
<1>1. K \in Nat
    BY Config
<1>2. n * K \in Nat /\ m * K \in Nat /\ (n + 1) * K = n * K + K
    BY <1>1
<1>3. PICK d \in Nat : m = n + d
    <2>1. m - n \in Nat /\ m = n + (m - n)
        OBVIOUS
    <2> QED
        BY <2>1
<1>4. m * K = n * K + d * K /\ d * K \in Nat
    BY <1>1, <1>3
<1> QED
    BY <1>2, <1>4

LEMMA InitInv == Init => IInv
<1> SUFFICES ASSUME Init PROVE IInv
    OBVIOUS
<1>1. Typed
    BY Config DEF Init, Typed
<1>2. Threads
    BY Config, FS_EmptySet DEF Init, Threads
<1>3. QueueInv /\ RunInv
    BY DEF Init, QueueInv, RunInv
<1>4. BudgetInv
    <2> SUFFICES ASSUME NEW a \in Askers PROVE requests[a] <= (round[a] - 1) * K + try[a]
        BY DEF Init, BudgetInv
    <2>1. 0 * K = 0
        BY Config
    <2> QED
        BY <2>1 DEF Init
<1>5. AnswersOwnCall
    BY DEF Init, AnswersOwnCall
<1> QED
    BY <1>1, <1>2, <1>3, <1>4, <1>5 DEF IInv

(***************************************************************************)
(* The pieces that the actions share.                                      *)
(***************************************************************************)

\* The queue without a's request holds what it held, and nothing of a's.
LEMMA UncancelledIs ==
    ASSUME Typed, QueueInv, NEW a \in Askers
    PROVE  LET q == Uncancelled(a)
           IN  /\ q \in Seq(Requests)
               /\ \A i \in 1..Len(q) : q[i].who # a /\ \E j \in 1..Len(queue) : q[i] = queue[j]
               /\ \A i, j \in 1..Len(q) : q[i] = q[j] => i = j
<1> DEFINE places == {i \in 1..Len(queue) : queue[i] = Request(a)}
<1>1. queue \in Seq(Requests) /\ Len(queue) \in Nat
    BY LenProperties DEF Typed
<1>2. \A i \in 1..Len(queue) : queue[i].who = a => queue[i] = Request(a)
    BY DEF QueueInv
<1>3. CASE places = {}
    <2>1. Uncancelled(a) = queue
        BY <1>3 DEF Uncancelled
    <2>2. \A i \in 1..Len(queue) : queue[i].who # a
        BY <1>2, <1>3
    <2> QED
        BY <1>1, <2>1, <2>2 DEF QueueInv
<1>4. CASE places # {}
    <2> DEFINE k == CHOOSE i \in places : TRUE
    <2>1. Uncancelled(a) = RemoveAt(queue, k)
        BY <1>4 DEF Uncancelled
    <2>2. k \in 1..Len(queue) /\ queue[k] = Request(a)
        BY <1>4
    <2> HIDE DEF k
    <2> DEFINE q == RemoveAt(queue, k)
    <2>3. /\ q \in Seq(Requests) /\ Len(q) = Len(queue) - 1
          /\ \A i \in 1..(Len(queue) - 1) : q[i] = IF i < k THEN queue[i] ELSE queue[i + 1]
        BY <1>1, <2>2, RemoveAtIs
    <2> HIDE DEF q
    <2> DEFINE from(i) == IF i < k THEN i ELSE i + 1
    <2>4. \A i \in 1..Len(q) :
              from(i) \in 1..Len(queue) /\ from(i) # k /\ q[i] = queue[from(i)]
        BY <1>1, <2>2, <2>3
    <2>5. \A i, j \in 1..Len(q) : from(i) = from(j) => i = j
        BY <1>1, <2>2, <2>3
    <2> HIDE DEF from
    <2>6. \A i, j \in 1..Len(queue) : queue[i] = queue[j] => i = j
        BY DEF QueueInv
    <2>7. \A i \in 1..Len(q) : q[i].who # a
        BY <1>2, <2>2, <2>4, <2>6
    <2>8. \A i, j \in 1..Len(q) : q[i] = q[j] => i = j
        BY <2>4, <2>5, <2>6
    <2> QED
        BY <2>1, <2>3, <2>4, <2>7, <2>8 DEF q
<1> QED
    BY <1>3, <1>4

\* A call that fails, when nothing of it is queued any more.
LEMMA CallFailsInv ==
    ASSUME IInv, NEW a \in Askers, CallFails(a), pc[a] \in {"call", "waiting"},
           queue' \in Seq(Requests),
           \A i \in 1..Len(queue') :
               queue'[i].who # a /\ \E j \in 1..Len(queue) : queue'[i] = queue[j],
           \A i, j \in 1..Len(queue') : queue'[i] = queue'[j] => i = j,
           running' \subseteq running, Threads', requests' = requests
    PROVE  IInv'
<1> USE DEF IInv
<1>1. /\ try' = [try EXCEPT ![a] = 0]
      /\ prompt' = prompt /\ answer' = answer
      /\ \/ /\ round[a] < AgentAttempts
            /\ pc' = [pc EXCEPT ![a] = "call"]
            /\ round' = [round EXCEPT ![a] = round[a] + 1]
         \/ pc' = [pc EXCEPT ![a] = "failed"] /\ round' = round
    BY DEF CallFails
<1>2. Typed'
    <2>1. round' \in [Askers -> 1..AgentAttempts]
        <3>1. round[a] \in 1..AgentAttempts /\ AgentAttempts \in Nat
            BY Config DEF Typed
        <3>2. round[a] < AgentAttempts => round[a] + 1 \in 1..AgentAttempts
            BY <3>1
        <3> QED
            BY <1>1, <3>2 DEF Typed
    <2>2. try' \in [Askers -> 0..MaxRetries]
        BY <1>1, Config DEF Typed
    <2>3. pc' \in [Askers -> {"call", "waiting", "backoff", "answered", "failed"}]
        BY <1>1 DEF Typed
    <2> QED
        BY <1>1, <2>1, <2>2, <2>3 DEF Typed
<1>3. /\ \A b \in Askers \ {a} : pc'[b] = pc[b] /\ round'[b] = round[b] /\ try'[b] = try[b]
      /\ try'[a] = 0
      /\ \/ pc'[a] = "call" /\ round'[a] = round[a] + 1
         \/ pc'[a] = "failed" /\ round'[a] = round[a]
      /\ round[a] \in Nat
    BY <1>1, Config DEF Typed
<1>4. \A i \in 1..Len(queue') : queue'[i].who \in Askers \ {a}
    <2>1. \A i \in 1..Len(queue') : queue'[i] \in Requests
        BY ElementOfSeq
    <2> QED
        BY <2>1 DEF Requests
<1>5. QueueInv'
    BY <1>3, <1>4 DEF QueueInv, Request
<1>6. RunInv'
    <2> SUFFICES ASSUME NEW r \in running'
                 PROVE  /\ r.round <= round'[r.who]
                        /\ pc'[r.who] \in {"call", "backoff"} => r.round # round'[r.who]
                        /\ \A i \in 1..Len(queue') : queue'[i] # r
        BY DEF RunInv
    <2>1. r \in running /\ r.who \in Askers /\ r.round \in Nat
        BY Config DEF Typed, Requests
    <2>2. \A i \in 1..Len(queue') : queue'[i] # r
        BY <2>1 DEF RunInv
    <2>3. r.round <= round[r.who]
        BY <2>1 DEF RunInv
    <2>4. CASE r.who # a
        BY <1>3, <2>1, <2>2, <2>4 DEF RunInv
    <2>5. CASE r.who = a
        BY <1>3, <2>1, <2>2, <2>3, <2>5
    <2> QED
        BY <2>4, <2>5
<1>7. BudgetInv'
    <2>1. ASSUME NEW b \in Askers \ {a}, Queued(b)' PROVE Queued(b)
        BY <1>3, <2>1 DEF Queued, Request
    <2>2. ~Queued(a)'
        BY DEF Queued, Request
    <2>3. requests[a] <= round[a] * K
        <3>1. round[a] - 1 \in Nat /\ try[a] \in 0..MaxRetries /\ requests[a] \in Nat
            BY Config DEF Typed
        <3>2. round[a] * K = (round[a] - 1) * K + K /\ (round[a] - 1) * K \in Nat
            <4>1. (round[a] - 1) + 1 = round[a]
                BY <1>3
            <4> DEFINE n == round[a] - 1
            <4>2. n \in Nat /\ n <= n
                BY <3>1
            <4> HIDE DEF n
            <4>3. (n + 1) * K = n * K + K /\ n * K \in Nat
                BY <4>2, OneMoreCall
            <4> QED
                BY <4>1, <4>3 DEF n
        <3>3. requests[a] <= (round[a] - 1) * K + try[a] + 1
            BY <3>1, <3>2 DEF BudgetInv
        <3>4. K = MaxRetries + 1 /\ MaxRetries \in Nat
            BY Config DEF K
        <3> HIDE DEF K
        <3> QED
            BY <3>1, <3>2, <3>3, <3>4
    <2>4. round'[a] = round[a] + 1 => (round'[a] - 1) * K + try'[a] = round[a] * K
        <3>1. round[a] * K \in Nat
            BY <1>3, Config
        <3>2. round'[a] = round[a] + 1 => round'[a] - 1 = round[a]
            BY <1>3
        <3> QED
            BY <1>3, <3>1, <3>2
    <2> QED
        BY <1>3, <2>1, <2>2, <2>3, <2>4 DEF BudgetInv
<1>8. AnswersOwnCall'
    BY <1>1, <1>3 DEF AnswersOwnCall
<1> QED
    BY <1>2, <1>5, <1>6, <1>7, <1>8

\* A request is submitted.
LEMMA SubmitInv ==
    ASSUME IInv, NEW a \in Askers, pc[a] \in {"call", "backoff"}, Submit(a)
    PROVE  IInv'
<1> USE DEF IInv
<1>1. /\ pc' = [pc EXCEPT ![a] = "waiting"] /\ queue' = Append(queue, Request(a))
      /\ UNCHANGED <<round, try, prompt, running, requests, answer>>
    BY DEF Submit
<1>2. /\ queue \in Seq(Requests) /\ Len(queue) \in Nat /\ Request(a) \in Requests
      /\ pc \in [Askers -> {"call", "waiting", "backoff", "answered", "failed"}]
    BY LenProperties DEF Typed, Requests, Request
<1>3. /\ queue' \in Seq(Requests) /\ Len(queue') = Len(queue) + 1
      /\ \A i \in 1..Len(queue) : queue'[i] = queue[i]
      /\ queue'[Len(queue) + 1] = Request(a)
    BY <1>1, <1>2, AppendProperties
<1>4. /\ pc'[a] = "waiting" /\ \A b \in Askers \ {a} : pc'[b] = pc[b]
      /\ \A b \in Askers : Request(b)' = Request(b)
    BY <1>1, <1>2 DEF Request
<1>5. \A i \in 1..Len(queue) : queue[i].who \in Askers \ {a}
    <2>1. \A i \in 1..Len(queue) : queue[i] \in Requests
        BY <1>2, ElementOfSeq
    <2> QED
        BY <2>1 DEF QueueInv, Requests
<1>6. Request(a).who = a
    BY DEF Request
<1>7. \A i \in 1..Len(queue') :
          \/ i \in 1..Len(queue) /\ queue'[i] = queue[i]
          \/ i = Len(queue) + 1 /\ queue'[i] = Request(a)
    <2>1. \A i \in 1..Len(queue') : i \in 1..Len(queue) \/ i = Len(queue) + 1
        BY <1>2, <1>3
    <2> QED
        BY <1>3, <2>1
<1>8. Typed'
    BY <1>1, <1>2, <1>3 DEF Typed
<1>9. QueueInv'
    <2>1. ASSUME NEW i \in 1..Len(queue')
          PROVE  pc'[queue'[i].who] = "waiting" /\ queue'[i] = Request(queue'[i].who)
        BY <1>4, <1>5, <1>6, <1>7 DEF QueueInv
    <2>2. ASSUME NEW i \in 1..Len(queue'), NEW j \in 1..Len(queue'), queue'[i] = queue'[j]
          PROVE  i = j
        BY <1>5, <1>6, <1>7, <2>2 DEF QueueInv
    <2> QED
        BY <1>1, <2>1, <2>2 DEF QueueInv, Request
<1>10. RunInv'
    <2> SUFFICES ASSUME NEW r \in running
                 PROVE  /\ r.round <= round[r.who]
                        /\ pc'[r.who] \in {"call", "backoff"} => r.round # round[r.who]
                        /\ \A i \in 1..Len(queue') : queue'[i] # r
        BY <1>1 DEF RunInv
    <2>1. r.who \in Askers
        BY DEF Typed, Requests
    <2>2. r # Request(a)
        BY DEF RunInv, Request
    <2> QED
        BY <1>4, <1>7, <2>1, <2>2 DEF RunInv
<1>11. BudgetInv'
    <2>1. ASSUME NEW b \in Askers \ {a}, Queued(b)' PROVE Queued(b)
        <3>1. PICK i \in 1..Len(queue') : queue'[i] = Request(b)'
            BY <2>1 DEF Queued
        <3>2. queue'[i].who = b
            BY <3>1 DEF Request
        <3> QED
            BY <1>4, <1>6, <1>7, <3>1, <3>2 DEF Queued
    <2>2. requests[a] <= (round[a] - 1) * K + try[a]
        BY DEF BudgetInv
    <2>3. /\ (round[a] - 1) * K + try[a] <= (round[a] - 1) * K + try[a] + 1
          /\ (round[a] - 1) * K + try[a] \in Nat /\ requests[a] \in Nat
        <3>1. round[a] - 1 \in Nat /\ try[a] \in Nat /\ requests[a] \in Nat
            BY Config DEF Typed
        <3> QED
            BY <3>1, Config
    <2>4. requests[a] <= (round[a] - 1) * K + try[a] + 1
        BY <2>2, <2>3
    <2> QED
        BY <1>1, <1>4, <2>1, <2>2, <2>4 DEF BudgetInv
<1>12. AnswersOwnCall' /\ Threads'
    BY <1>1, <1>4 DEF AnswersOwnCall, Threads
<1> QED
    BY <1>8, <1>9, <1>10, <1>11, <1>12

\* A thread takes a request and sends it.
LEMMA InvokeInv ==
    ASSUME IInv, Invoke
    PROVE  IInv' /\ pc[Head(queue).who] = "waiting" /\ Head(queue) = Request(Head(queue).who)
<1> USE DEF IInv
<1> DEFINE r == Head(queue)
<1> DEFINE a == r.who
<1>1. /\ queue # <<>> /\ Cardinality(running) < Workers
      /\ running' = running \cup {r} /\ queue' = Tail(queue)
      /\ requests' = [requests EXCEPT ![a] = requests[a] + 1]
      /\ UNCHANGED <<pc, round, try, prompt, answer>>
    BY DEF Invoke
<1>2. /\ queue \in Seq(Requests) /\ Len(queue) \in Nat /\ Len(queue) # 0
      /\ r = queue[1] /\ Len(queue') = Len(queue) - 1 /\ queue' \in Seq(Requests)
      /\ \A i \in 1..Len(queue') : queue'[i] = queue[i + 1]
    BY <1>1, LenProperties, HeadTailProperties, EmptySeq DEF Typed
<1>3. /\ 1 \in 1..Len(queue) /\ r \in Requests /\ a \in Askers
      /\ \A i \in 1..Len(queue') : i + 1 \in 1..Len(queue) /\ i + 1 # 1
    <2>1. 1 \in 1..Len(queue) /\ \A i \in 1..Len(queue') : i + 1 \in 1..Len(queue) /\ i + 1 # 1
        BY <1>2
    <2>2. queue[1] \in Requests
        BY <1>2, <2>1, ElementOfSeq
    <2> QED
        BY <1>2, <2>1, <2>2 DEF Requests
<1>4. pc[a] = "waiting" /\ r = Request(a)
    BY <1>2, <1>3 DEF QueueInv
<1> HIDE DEF r, a
<1>5. \A i \in 1..Len(queue') : queue'[i] # r
    BY <1>2, <1>3 DEF QueueInv
<1>6. Typed'
    <2>1. requests' \in [Askers -> Nat]
        BY <1>1, <1>3 DEF Typed
    <2> QED
        BY <1>1, <1>2, <1>3, <2>1 DEF Typed
<1>7. Threads'
    <2>1. r \notin running
        BY <1>2, <1>3 DEF RunInv
    <2>2. IsFiniteSet(running) /\ Cardinality(running) \in Nat
        BY FS_CardinalityType DEF Threads
    <2>3. IsFiniteSet(running \cup {r}) /\ Cardinality(running \cup {r}) = Cardinality(running) + 1
        BY <2>1, <2>2, FS_AddElement
    <2> QED
        BY <1>1, <2>2, <2>3, Config DEF Threads
<1>8. QueueInv'
    <2>1. \A i \in 1..Len(queue') :
              pc[queue'[i].who] = "waiting" /\ queue'[i] = Request(queue'[i].who)
        BY <1>2, <1>3 DEF QueueInv
    <2>2. \A i, j \in 1..Len(queue') : queue'[i] = queue'[j] => i = j
        BY <1>2, <1>3 DEF QueueInv
    <2> QED
        BY <1>1, <2>1, <2>2 DEF QueueInv, Request
<1>9. RunInv'
    <2>1. ASSUME NEW s \in running, NEW i \in 1..Len(queue') PROVE queue'[i] # s
        BY <1>2, <1>3 DEF RunInv
    <2>2. r.round = round[r.who] /\ pc[r.who] = "waiting" /\ round[r.who] \in Nat
        BY <1>3, <1>4, Config DEF Request, a, Typed
    <2>3. r.round <= round[r.who]
        BY <2>2
    <2> QED
        BY <1>1, <1>5, <2>1, <2>2, <2>3 DEF RunInv
<1>10. BudgetInv'
    <2>1. ASSUME NEW b \in Askers, Queued(b)' PROVE b # a /\ Queued(b)
        <3>1. PICK i \in 1..Len(queue') : queue'[i] = Request(b)
            BY <1>1, <2>1 DEF Queued, Request
        <3>2. b # a
            BY <1>4, <1>5, <3>1
        <3> QED
            BY <1>2, <1>3, <3>1, <3>2 DEF Queued
    <2>2. Queued(a)
        BY <1>2, <1>3, <1>4 DEF Queued
    <2>3. requests[a] <= (round[a] - 1) * K + try[a]
        BY <1>3, <2>2 DEF BudgetInv
    <2>4. requests'[a] <= (round[a] - 1) * K + try[a] + 1
        <3>1. round[a] - 1 \in Nat /\ try[a] \in Nat /\ requests[a] \in Nat
            BY <1>3, Config DEF Typed
        <3>2. (round[a] - 1) * K \in Nat
            BY <3>1, Config
        <3>3. requests'[a] = requests[a] + 1
            BY <1>1, <1>3 DEF Typed
        <3> QED
            BY <2>3, <3>1, <3>2, <3>3
    <2>5. \A b \in Askers \ {a} : requests'[b] = requests[b]
        BY <1>1 DEF Typed
    <2> QED
        BY <1>1, <1>3, <1>4, <2>1, <2>4, <2>5 DEF BudgetInv
<1>11. AnswersOwnCall'
    BY <1>1 DEF AnswersOwnCall
<1> QED
    BY <1>4, <1>6, <1>7, <1>8, <1>9, <1>10, <1>11 DEF r, a

\* A thread ends, with an answer or an exception, which may be awaited or not.
LEMMA ReturnInv ==
    ASSUME IInv, NEW r \in running, Return(r)
    PROVE  IInv'
<1> USE DEF IInv
<1> DEFINE a == r.who
<1>1. /\ running' = running \ {r} /\ UNCHANGED <<queue, requests>>
      /\ IF Awaited(r) THEN Answered(r) \/ Retry(a) \/ CallFails(a)
                       ELSE UNCHANGED <<pc, round, try, prompt, answer>>
    BY DEF Return
<1>2. a \in Askers /\ r \in Requests
    BY DEF Typed, Requests
<1>3. Threads'
    <2>1. running' \in SUBSET running /\ IsFiniteSet(running)
        BY <1>1 DEF Threads
    <2>2. IsFiniteSet(running') /\ Cardinality(running') <= Cardinality(running)
        BY <2>1, FS_Subset
    <2>3. Cardinality(running) \in Nat /\ Cardinality(running') \in Nat
        BY <2>1, <2>2, FS_CardinalityType
    <2> QED
        BY <2>2, <2>3, Config DEF Threads
<1>4. \A i \in 1..Len(queue) : queue[i] \in Requests
    BY ElementOfSeq DEF Typed
<1>5. CASE ~Awaited(r)
    <2>1. UNCHANGED <<pc, round, try, prompt, answer>>
        BY <1>1, <1>5
    <2>2. Typed' /\ RunInv'
        BY <1>1, <2>1 DEF Typed, RunInv
    <2>3. QueueInv' /\ BudgetInv' /\ AnswersOwnCall'
        BY <1>1, <2>1 DEF QueueInv, BudgetInv, Queued, Request, AnswersOwnCall
    <2> QED
        BY <1>3, <2>2, <2>3
<1>6. CASE Awaited(r)
    <2>1. pc[a] = "waiting" /\ r = Request(a)
        BY <1>6 DEF Awaited
    <2>2. ~Queued(a) /\ \A i \in 1..Len(queue) : queue[i].who # a /\ queue[i].who \in Askers
        BY <1>4, <2>1 DEF RunInv, QueueInv, Queued, Requests
    <2> HIDE DEF a
    <2>3. CASE CallFails(a)
        <3>1. \A i, j \in 1..Len(queue) : queue[i] = queue[j] => i = j
            BY DEF QueueInv
        <3>2. queue \in Seq(Requests)
            BY DEF Typed
        <3> QED
            BY <1>1, <1>2, <1>3, <2>1, <2>2, <2>3, <3>1, <3>2, CallFailsInv
    <2>4. CASE Answered(r)
        <3>1. /\ pc' = [pc EXCEPT ![a] = "answered"] /\ answer' = [answer EXCEPT ![a] = r.round]
              /\ UNCHANGED <<round, try, prompt>>
            BY <2>4 DEF Answered, a
        <3>2. /\ pc'[a] = "answered" /\ \A b \in Askers \ {a} : pc'[b] = pc[b]
              /\ answer'[a] = round[a] /\ \A b \in Askers \ {a} : answer'[b] = answer[b]
            BY <1>2, <2>1, <3>1 DEF Typed, Request
        <3>3. Typed'
            <4>1. r.round \in 0..AgentAttempts
                BY <1>2, Config DEF Requests
            <4> QED
                BY <1>1, <1>2, <3>1, <4>1 DEF Typed
        <3>4. QueueInv'
            BY <1>1, <2>2, <3>1, <3>2 DEF QueueInv, Request
        <3>5. RunInv'
            BY <1>1, <3>1, <3>2 DEF RunInv, Typed, Requests
        <3>6. BudgetInv'
            BY <1>1, <2>1, <2>2, <3>1, <3>2 DEF BudgetInv, Queued, Request
        <3>7. AnswersOwnCall'
            BY <3>1, <3>2 DEF AnswersOwnCall
        <3> QED
            BY <1>3, <3>3, <3>4, <3>5, <3>6, <3>7
    <2>5. CASE Retry(a) /\ try[a] < MaxRetries
        <3>1. /\ pc' = [pc EXCEPT ![a] = "backoff"] /\ try' = [try EXCEPT ![a] = try[a] + 1]
              /\ UNCHANGED <<round, prompt, answer>>
            BY <2>5 DEF Retry
        <3>2. /\ pc'[a] = "backoff" /\ \A b \in Askers \ {a} : pc'[b] = pc[b]
              /\ try'[a] = try[a] + 1 /\ \A b \in Askers \ {a} : try'[b] = try[b]
            BY <1>2, <3>1 DEF Typed
        <3>3. Typed'
            <4>1. try[a] + 1 \in 0..MaxRetries
                BY <1>2, <2>5, Config DEF Typed
            <4> QED
                BY <1>1, <1>2, <3>1, <4>1 DEF Typed
        <3>4. QueueInv'
            BY <1>1, <2>2, <3>1, <3>2 DEF QueueInv, Request
        <3>5. RunInv'
            <4> SUFFICES ASSUME NEW s \in running'
                         PROVE  /\ s.round <= round[s.who]
                                /\ pc'[s.who] \in {"call", "backoff"} => s.round # round[s.who]
                                /\ \A i \in 1..Len(queue) : queue[i] # s
                BY <1>1, <3>1 DEF RunInv
            <4>1. s \in running /\ s # r /\ s.who \in Askers
                BY <1>1 DEF Typed, Requests
            <4>2. s.who = a => s.round # round[a]
                BY <1>2, <2>1, <4>1 DEF Typed, Requests, Request
            <4> QED
                BY <3>2, <4>1, <4>2 DEF RunInv
        <3>6. BudgetInv'
            <4>1. requests[a] <= (round[a] - 1) * K + try[a] + 1
                BY <1>2, <2>1 DEF BudgetInv
            <4>2. (round[a] - 1) * K + (try[a] + 1) = (round[a] - 1) * K + try[a] + 1
                <5>1. round[a] - 1 \in Nat /\ try[a] \in Nat
                    BY <1>2, Config DEF Typed
                <5>2. (round[a] - 1) * K \in Nat
                    BY <5>1, Config
                <5> QED
                    BY <5>1, <5>2
            <4> QED
                BY <1>1, <2>2, <3>1, <3>2, <4>1, <4>2 DEF BudgetInv, Queued, Request
        <3>7. AnswersOwnCall'
            BY <3>1, <3>2 DEF AnswersOwnCall
        <3> QED
            BY <1>3, <3>3, <3>4, <3>5, <3>6, <3>7
    <2> QED
        BY <1>1, <1>6, <2>3, <2>4, <2>5 DEF Retry, a
<1> QED
    BY <1>5, <1>6

LEMMA NextInv == IInv /\ [Next]_vars => IInv'
<1> SUFFICES ASSUME IInv, [Next]_vars PROVE IInv'
    OBVIOUS
<1>1. ASSUME NEW a \in Askers, Complete(a) PROVE IInv'
    <2>1. CASE a \in Unmapped
        <3>1. /\ pc[a] = "call" /\ CallFails(a)
              /\ queue' = queue /\ running' = running /\ requests' = requests
            BY <1>1, <2>1 DEF Complete
        <3>2. \A i \in 1..Len(queue) : queue[i].who # a
            BY <3>1 DEF IInv, QueueInv
        <3>3. queue \in Seq(Requests) /\ \A i, j \in 1..Len(queue) : queue[i] = queue[j] => i = j
            BY DEF IInv, Typed, QueueInv
        <3>4. Threads'
            BY <3>1 DEF IInv, Threads
        <3> QED
            BY <3>1, <3>2, <3>3, <3>4, CallFailsInv
    <2>2. CASE a \notin Unmapped
        BY <1>1, <2>2, SubmitInv DEF Complete
    <2> QED
        BY <2>1, <2>2
<1>2. ASSUME NEW a \in Askers, Wake(a) PROVE IInv'
    BY <1>2, SubmitInv DEF Wake
<1>3. ASSUME NEW a \in Askers, Timeout(a) PROVE IInv'
    <2>1. /\ pc[a] = "waiting" /\ CallFails(a) /\ queue' = Uncancelled(a)
          /\ running' = running /\ requests' = requests
        BY <1>3 DEF Timeout
    <2>2. Typed /\ QueueInv
        BY DEF IInv
    <2>3. /\ queue' \in Seq(Requests)
          /\ \A i \in 1..Len(queue') :
                 queue'[i].who # a /\ \E j \in 1..Len(queue) : queue'[i] = queue[j]
          /\ \A i, j \in 1..Len(queue') : queue'[i] = queue'[j] => i = j
        BY <2>1, <2>2, UncancelledIs
    <2>4. Threads'
        BY <2>1 DEF IInv, Threads
    <2> QED
        BY <2>1, <2>3, <2>4, CallFailsInv
<1>4. CASE Invoke
    BY <1>4, InvokeInv
<1>5. ASSUME NEW r \in running, Return(r) PROVE IInv'
    BY <1>5, ReturnInv
<1>6. CASE AllEnded \/ UNCHANGED vars
    <2>1. UNCHANGED <<pc, round, try, prompt, queue, running, requests, answer>>
        BY <1>6 DEF AllEnded, vars
    <2> QED
        BY <2>1 DEF IInv, Typed, Threads, QueueInv, RunInv, BudgetInv, Queued, Request,
            AnswersOwnCall
<1> QED
    BY <1>1, <1>2, <1>3, <1>4, <1>5, <1>6 DEF Next

(***************************************************************************)
(* The inductive invariant: what is queued is waited for and queued once,  *)
(* what runs is not submitted again, and every question's requests are     *)
(* counted by its calls and retries.                                       *)
(***************************************************************************)
THEOREM LlmInvariant == Spec => []IInv
BY InitInv, NextInv, PTL DEF Spec

(***************************************************************************)
(* The types of the questions, the queue and the threads.                  *)
(***************************************************************************)
THEOREM LlmTypeCorrect == Spec => []TypeOK
<1>1. IInv => TypeOK
    BY DEF IInv, Typed, TypeOK
<1> QED
    BY <1>1, LlmInvariant, PTL

(***************************************************************************)
(* complete(): an answer belongs to the call that waits for it; the late   *)
(* one of a call that timed out is dropped.                                *)
(***************************************************************************)
THEOREM AnswersMatch == Spec => []AnswersOwnCall
<1>1. IInv => AnswersOwnCall
    BY DEF IInv
<1> QED
    BY <1>1, LlmInvariant, PTL

(***************************************************************************)
(* The agents' retries around those of complete(): no question costs more  *)
(* than their product, and the pool is never exceeded.                     *)
(***************************************************************************)
THEOREM WithinBudget == Spec => []RequestsBudgeted
<1>1. IInv => RequestsBudgeted
    <2> SUFFICES ASSUME IInv, NEW a \in Askers
                 PROVE  requests[a] <= AgentAttempts * (MaxRetries + 1)
        BY DEF IInv, Threads, RequestsBudgeted
    <2> DEFINE n == round[a] - 1
    <2>1. /\ n \in Nat /\ n + 1 = round[a] /\ n + 1 \in Nat /\ AgentAttempts \in Nat
          /\ n + 1 <= AgentAttempts /\ try[a] \in 0..MaxRetries /\ requests[a] \in Nat
          /\ pc[a] \in {"call", "waiting", "backoff", "answered", "failed"}
        BY Config DEF IInv, Typed
    <2>2. /\ pc[a] \in {"call", "backoff"} => requests[a] <= n * K + try[a]
          /\ pc[a] \in {"waiting", "answered"} => requests[a] <= n * K + try[a] + 1
          /\ pc[a] = "failed" => requests[a] <= (n + 1) * K
        BY <2>1 DEF IInv, BudgetInv
    <2> HIDE DEF n
    <2>3. (n + 1) * K = n * K + K /\ n * K \in Nat
        <3>1. n <= n
            BY <2>1
        <3> QED
            BY <2>1, <3>1, OneMoreCall
    <2>4. (n + 1) * K <= AgentAttempts * K /\ AgentAttempts * K \in Nat
        BY <2>1, OneMoreCall
    <2>5. K = MaxRetries + 1 /\ MaxRetries \in Nat
        BY Config DEF K
    <2>6. requests[a] <= (n + 1) * K
        <3> HIDE DEF K
        <3> QED
            BY <2>1, <2>2, <2>3, <2>5
    <2>7. requests[a] <= AgentAttempts * K
        <3> DEFINE lo == (n + 1) * K
        <3>1. lo \in Nat
            BY <2>1, Config
        <3> HIDE DEF lo
        <3>2. requests[a] <= lo /\ lo <= AgentAttempts * K
            BY <2>4, <2>6 DEF lo
        <3> QED
            BY <2>1, <2>4, <3>1, <3>2
    <2> QED
        BY <2>5, <2>7
<1> QED
    BY <1>1, LlmInvariant, PTL

(***************************************************************************)
(* to_thread under wait_for: a request is sent only for a question that    *)
(* waits for it; what was given up on while it was queued never is.        *)
(***************************************************************************)
THEOREM SentForSomebody == Spec => NothingSentInVain
<1>1. IInv /\ [Next]_vars =>
          [\A a \in Askers : requests'[a] # requests[a] =>
               pc[a] = "waiting" /\ Request(a) \in running']_vars
    <2> SUFFICES ASSUME IInv, [Next]_vars, NEW a \in Askers, requests'[a] # requests[a]
                 PROVE  pc[a] = "waiting" /\ Request(a) \in running'
        OBVIOUS
    <2>1. CASE Invoke
        <3>1. /\ running' = running \cup {Head(queue)}
              /\ requests' = [requests EXCEPT ![Head(queue).who] = @ + 1]
            BY <2>1 DEF Invoke
        <3>2. a = Head(queue).who
            BY <3>1 DEF IInv, Typed
        <3>3. pc[a] = "waiting" /\ Head(queue) = Request(a)
            BY <2>1, <3>2, InvokeInv
        <3> QED
            BY <3>1, <3>3
    <2>2. CASE ~Invoke
        <3>1. requests' = requests
            BY <2>2 DEF Next, vars, Complete, Wake, Submit, Timeout, Return, AllEnded
        <3> QED
            BY <3>1
    <2> QED
        BY <2>1, <2>2
<1> QED
    BY <1>1, LlmInvariant, PTL DEF Spec, NothingSentInVain
----------------------------------------------------------------------------
(***************************************************************************)
(* The redaction, for any texts and any number of detectors.  What its two *)
(* recursive functions compute follows place by place and detector by      *)
(* detector, from the least place at which it would be otherwise.          *)
(***************************************************************************)

\* A set of numbers has a least one: the form of induction used below.
LEMMA Least ==
    ASSUME NEW T, T \subseteq Nat, T # {}
    PROVE  \E m \in T : \A k \in T : m <= k
<1> DEFINE R == {ss \in Nat \X Nat : ss[1] < ss[2]}
<1>1. IsWellFoundedOn(R, Nat)
    BY NatLessThanWellFounded DEF OpToRel
<1>2. PICK m \in T : \A k \in T : ~(<<k, m>> \in R)
    <2> HIDE DEF R
    <2> QED
        BY <1>1, WFMin
<1>3. \A k \in T : ~(k < m)
    BY <1>2
<1> QED
    BY <1>3

\* The recursive function of Sub is one that satisfies its equation.
LEMMA SubRuns ==
    ASSUME NEW r, NEW d, NEW n \in Nat
    PROVE  \E f : f = [i \in 0..n |-> IF i = 0 THEN r ELSE Substitute(f[i - 1], d, i)]
<1> DEFINE Runs(m, f) == f = [i \in 0..m |-> IF i = 0 THEN r ELSE Substitute(f[i - 1], d, i)]
           T == {m \in Nat : ~\E f : Runs(m, f)}
<1>1. SUFFICES ASSUME T # {} PROVE FALSE
    OBVIOUS
<1>2. PICK m \in T : \A k \in T : m <= k
    BY <1>1, Least
<1>3. CASE m = 0
    <2>1. Runs(0, [i \in 0..0 |-> r])
        OBVIOUS
    <2> QED
        BY <1>2, <1>3, <2>1
<1>4. CASE m # 0
    <2>1. m - 1 \in Nat /\ m - 1 \notin T
        BY <1>2, <1>4
    <2>2. PICK g : Runs(m - 1, g)
        BY <2>1
    <2> DEFINE f == [i \in 0..m |-> IF i = m THEN Substitute(g[m - 1], d, m) ELSE g[i]]
    <2>3. ASSUME NEW i \in 0..m
          PROVE  f[i] = IF i = 0 THEN r ELSE Substitute(f[i - 1], d, i)
        <3>1. CASE i = m
            <4>1. f[i] = Substitute(g[m - 1], d, m) /\ f[i - 1] = g[m - 1]
                BY <1>4, <3>1
            <4> QED
                BY <1>4, <3>1, <4>1
        <3>2. CASE i # m
            <4>1. i \in 0..(m - 1) /\ f[i] = g[i]
                BY <3>2
            <4>2. g[i] = IF i = 0 THEN r ELSE Substitute(g[i - 1], d, i)
                BY <2>2, <4>1
            <4>3. i # 0 => f[i - 1] = g[i - 1]
                BY <4>1
            <4> QED
                BY <4>1, <4>2, <4>3
        <3> QED
            BY <3>1, <3>2
    <2>4. f = [i \in 0..m |-> f[i]]
        OBVIOUS
    <2> HIDE DEF f
    <2>5. Runs(m, f)
        BY <2>3, <2>4
    <2> QED
        BY <1>2, <2>5
<1> QED
    BY <1>3, <1>4

\* What Sub computes, place by place.
LEMMA SubIs ==
    ASSUME NEW r, NEW d, Len(r.out) \in Nat
    PROVE  \E upTo :
               /\ upTo[0] = r /\ Sub(r, d) = upTo[Len(r.out)]
               /\ \A i \in 1..Len(r.out) : upTo[i] = Substitute(upTo[i - 1], d, i)
<1> DEFINE n == Len(r.out)
           upTo[i \in 0..n] == IF i = 0 THEN r ELSE Substitute(upTo[i - 1], d, i)
<1>1. Sub(r, d) = upTo[n]
    BY DEF Sub
<1>2. upTo = [i \in 0..n |-> IF i = 0 THEN r ELSE Substitute(upTo[i - 1], d, i)]
    BY SubRuns
<1>3. n \in Nat
    OBVIOUS
<1> HIDE DEF upTo, n
<1>4. \A i \in 0..n : upTo[i] = IF i = 0 THEN r ELSE Substitute(upTo[i - 1], d, i)
    BY <1>2
<1>5. upTo[0] = r /\ \A i \in 1..n : upTo[i] = Substitute(upTo[i - 1], d, i)
    BY <1>3, <1>4
<1> QED
    BY <1>1, <1>5 DEF n

\* The same over a text of n tokens.
LEMMA SubOver ==
    ASSUME NEW r, NEW d, NEW n \in Nat, Len(r.out) = n
    PROVE  \E upTo :
               /\ upTo[0] = r /\ Sub(r, d) = upTo[n]
               /\ \A i \in 1..n : upTo[i] = Substitute(upTo[i - 1], d, i)
<1> DEFINE Is(f, m) == /\ f[0] = r /\ Sub(r, d) = f[m]
                      /\ \A i \in 1..m : f[i] = Substitute(f[i - 1], d, i)
<1>1. \E f : Is(f, Len(r.out))
    BY SubIs
<1>2. PICK f : Is(f, Len(r.out))
    BY <1>1
<1>3. Is(f, n)
    <2> HIDE DEF Is
    <2> QED
        BY <1>2
<1> QED
    BY <1>3

\* The recursive function of Redact is one that satisfies its equation.
LEMMA RedactRuns ==
    ASSUME NEW text, NEW n \in Nat
    PROVE  \E f : f = [i \in 0..n |-> IF i = 0 THEN Blank(text) ELSE Sub(f[i - 1], Detectors[i])]
<1> DEFINE Runs(m, f) == f = [i \in 0..m |-> IF i = 0 THEN Blank(text) ELSE Sub(f[i - 1], Detectors[i])]
           T == {m \in Nat : ~\E f : Runs(m, f)}
<1>1. SUFFICES ASSUME T # {} PROVE FALSE
    OBVIOUS
<1>2. PICK m \in T : \A k \in T : m <= k
    BY <1>1, Least
<1>3. CASE m = 0
    <2>1. Runs(0, [i \in 0..0 |-> Blank(text)])
        OBVIOUS
    <2> QED
        BY <1>2, <1>3, <2>1
<1>4. CASE m # 0
    <2>1. m - 1 \in Nat /\ m - 1 \notin T
        BY <1>2, <1>4
    <2>2. PICK g : Runs(m - 1, g)
        BY <2>1
    <2> DEFINE f == [i \in 0..m |-> IF i = m THEN Sub(g[m - 1], Detectors[m]) ELSE g[i]]
    <2>3. ASSUME NEW i \in 0..m
          PROVE  f[i] = IF i = 0 THEN Blank(text) ELSE Sub(f[i - 1], Detectors[i])
        <3>1. CASE i = m
            <4>1. f[i] = Sub(g[m - 1], Detectors[m]) /\ f[i - 1] = g[m - 1]
                BY <1>4, <3>1
            <4> QED
                BY <1>4, <3>1, <4>1
        <3>2. CASE i # m
            <4>1. i \in 0..(m - 1) /\ f[i] = g[i]
                BY <3>2
            <4>2. g[i] = IF i = 0 THEN Blank(text) ELSE Sub(g[i - 1], Detectors[i])
                BY <2>2, <4>1
            <4>3. i # 0 => f[i - 1] = g[i - 1]
                BY <4>1
            <4> QED
                BY <4>1, <4>2, <4>3
        <3> QED
            BY <3>1, <3>2
    <2>4. f = [i \in 0..m |-> f[i]]
        OBVIOUS
    <2> HIDE DEF f
    <2>5. Runs(m, f)
        BY <2>3, <2>4
    <2> QED
        BY <1>2, <2>5
<1> QED
    BY <1>3, <1>4

\* What Redact computes, detector by detector.
LEMMA RedactIs ==
    ASSUME NEW text
    PROVE  \E after :
               /\ after[0] = Blank(text) /\ Redact(text) = after[Len(Detectors)]
               /\ \A i \in 1..Len(Detectors) : after[i] = Sub(after[i - 1], Detectors[i])
<1> DEFINE n == Len(Detectors)
           after[i \in 0..n] == IF i = 0 THEN Blank(text) ELSE Sub(after[i - 1], Detectors[i])
<1>3. n \in Nat
    BY RedactionAssumption, LenProperties
<1>1. Redact(text) = after[n]
    BY DEF Redact
<1>2. after = [i \in 0..n |-> IF i = 0 THEN Blank(text) ELSE Sub(after[i - 1], Detectors[i])]
    BY <1>3, RedactRuns
<1> HIDE DEF after, n
<1>4. \A i \in 0..n : after[i] = IF i = 0 THEN Blank(text) ELSE Sub(after[i - 1], Detectors[i])
    BY <1>2
<1>5. after[0] = Blank(text) /\ \A i \in 1..n : after[i] = Sub(after[i - 1], Detectors[i])
    BY <1>3, <1>4
<1> QED
    BY <1>1, <1>5 DEF n
----------------------------------------------------------------------------
(***************************************************************************)
(* What the redaction of text t keeps on its way: a token is as it was or  *)
(* is the placeholder of its value; the values with a placeholder occur in *)
(* t and are matched by a detector; and the placeholders given out are     *)
(* distinct and those the counters count.                                  *)
(***************************************************************************)
Token == {Value(v) : v \in Values}
             \cup {Placeholder(d, n) : d \in Range(Detectors), n \in Nat \ {0}}

Shape(t, r) ==
    /\ r = [out |-> r.out, mapping |-> r.mapping, counter |-> r.counter]
    /\ r.out \in [1..Len(t) -> Token]
    /\ r.counter \in [Range(Detectors) -> Nat]

Replaced(t, r) ==
    \A i \in 1..Len(t) :
        \/ r.out[i] = t[i]
        \/ t[i].value \in DOMAIN r.mapping /\ r.out[i] = r.mapping[t[i].value]

Masked(t, r) ==
    \A v \in DOMAIN r.mapping :
        /\ v \in Values /\ Matching[v] # {}
        /\ \E i \in 1..Len(t) : t[i].value = v
        /\ \E d \in Range(Detectors) : \E n \in 1..r.counter[d] : r.mapping[v] = Placeholder(d, n)

Distinct(r) == \A v, w \in DOMAIN r.mapping : r.mapping[v] = r.mapping[w] => v = w

Counted(r) ==
    \A d \in Range(Detectors) : \A n \in 1..r.counter[d] :
        \E v \in DOMAIN r.mapping : r.mapping[v] = Placeholder(d, n)

MInv(t, r) == Shape(t, r) /\ Replaced(t, r) /\ Masked(t, r) /\ Distinct(r) /\ Counted(r)

\* Placeholders tell their detector and index, and none is matched.
LEMMA PlaceholderIs ==
    ASSUME NEW d, NEW n
    PROVE  /\ Placeholder(d, n).value = "none" /\ Placeholder(d, n).mask = d /\ Placeholder(d, n).n = n
           /\ \A e, m : Placeholder(e, m) = Placeholder(d, n) => e = d /\ m = n
           /\ \A v : Value(v).value = v /\ Value(v).mask = "none"
           /\ d \in Range(Detectors) => \A e : ~Matched(Placeholder(d, n), e)
BY RedactionAssumption DEF Placeholder, Value, Matched

\* A text before the redaction is all values.
LEMMA TextIs ==
    ASSUME NEW t \in PlainTexts
    PROVE  /\ Len(t) \in Nat /\ t \in [1..Len(t) -> Token]
           /\ \A i \in 1..Len(t) : t[i].value \in Values /\ t[i] = Value(t[i].value)
                                    /\ t[i].mask = "none"
<1>1. Len(t) \in Nat /\ \A i \in 1..Len(t) : t[i] \in {Value(v) : v \in Values}
    BY LenProperties, ElementOfSeq DEF PlainTexts
<1>2. \A i \in 1..Len(t) : t[i].value \in Values /\ t[i] = Value(t[i].value) /\ t[i].mask = "none"
    BY <1>1 DEF Value
<1>3. t = [i \in 1..Len(t) |-> t[i]]
    BY LenProperties DEF PlainTexts
<1>4. \A i \in 1..Len(t) : t[i] \in Token
    BY <1>1 DEF Token
<1> QED
    BY <1>1, <1>2, <1>3, <1>4

\* Before the first detector nothing is masked yet.
LEMMA BlankMasks ==
    ASSUME NEW t \in PlainTexts
    PROVE  MInv(t, Blank(t))
<1> DEFINE r == Blank(t)
<1>1. r.out = t /\ DOMAIN r.mapping = {} /\ r.counter = [d \in Range(Detectors) |-> 0]
    BY DEF Blank
<1>2. r = [out |-> r.out, mapping |-> r.mapping, counter |-> r.counter]
    BY DEF Blank
<1> HIDE DEF r
<1>3. Shape(t, r)
    <2>1. r.out \in [1..Len(t) -> Token]
        BY <1>1, TextIs
    <2>2. r.counter \in [Range(Detectors) -> Nat]
        BY <1>1
    <2> QED
        BY <1>2, <2>1, <2>2 DEF Shape
<1>4. Replaced(t, r) /\ Masked(t, r) /\ Distinct(r)
    BY <1>1 DEF Replaced, Masked, Distinct
<1>5. Counted(r)
    BY <1>1 DEF Counted
<1> QED
    BY <1>3, <1>4, <1>5 DEF MInv, r

\* A detector at one place: what it matches there it masks, and it brings no
\* match back anywhere.
LEMMA SubstituteMasks ==
    ASSUME NEW t \in PlainTexts, NEW r, MInv(t, r), NEW d \in Range(Detectors),
           NEW i \in 1..Len(t)
    PROVE  LET q == Substitute(r, d, i)
           IN  /\ MInv(t, q)
               /\ ~Matched(q.out[i], d)
               /\ \A j \in 1..Len(t) : \A e : ~Matched(r.out[j], e) => ~Matched(q.out[j], e)
<1> DEFINE q == Substitute(r, d, i)
           v == t[i].value
           p == Placeholder(d, r.counter[d] + 1)
<1>1. CASE ~Matched(r.out[i], d)
    <2>1. q = r
        BY <1>1 DEF Substitute
    <2> QED
        BY <1>1, <2>1
<1>2. CASE Matched(r.out[i], d)
    <2>0. /\ r = [out |-> r.out, mapping |-> r.mapping, counter |-> r.counter]
          /\ r.out \in [1..Len(t) -> Token] /\ r.counter \in [Range(Detectors) -> Nat]
          /\ Len(t) \in Nat
        BY TextIs DEF MInv, Shape
    <2>1. \A w \in DOMAIN r.mapping :
              \E e \in Range(Detectors) : \E n \in 1..r.counter[e] : r.mapping[w] = Placeholder(e, n)
        BY DEF MInv, Masked
    <2>2. r.out[i] = t[i] /\ r.out[i].value = v /\ v \in Values /\ d \in Matching[v]
        <3>1. r.out[i].mask = "none" /\ d \in Matching[r.out[i].value]
            BY <1>2 DEF Matched
        <3>2. \A w \in DOMAIN r.mapping : r.mapping[w].mask # "none"
            BY <2>1, PlaceholderIs, RedactionAssumption
        <3>3. r.out[i] = t[i]
            BY <3>1, <3>2 DEF MInv, Replaced
        <3> QED
            BY <3>1, <3>3, TextIs
    <2>3. q = PlaceholderFor(r, i, d)
        BY <1>2 DEF Substitute
    <2>4. r.counter[d] \in Nat
        BY <2>0
    <2>5. CASE v \in DOMAIN r.mapping
        <3>1. q = [r EXCEPT !.out[i] = r.mapping[v]]
            BY <2>2, <2>3, <2>5 DEF PlaceholderFor
        <3>2. /\ q.out = [r.out EXCEPT ![i] = r.mapping[v]]
              /\ q.mapping = r.mapping /\ q.counter = r.counter
              /\ q = [out |-> q.out, mapping |-> q.mapping, counter |-> q.counter]
            BY <2>0, <3>1
        <3>0. PICK e \in Range(Detectors) : \E n \in 1..r.counter[e] : r.mapping[v] = Placeholder(e, n)
            BY <2>1, <2>5
        <3>3. PICK n \in 1..r.counter[e] : r.mapping[v] = Placeholder(e, n)
            BY <3>0
        <3>4. r.mapping[v] \in Token /\ \A x : ~Matched(r.mapping[v], x)
            <4>1. n \in Nat \ {0}
                BY <2>0
            <4> QED
                BY <3>3, <4>1, PlaceholderIs DEF Token
        <3>5. /\ q.out[i] = r.mapping[v]
              /\ \A j \in 1..Len(t) : j # i => q.out[j] = r.out[j]
              /\ q.out \in [1..Len(t) -> Token]
            BY <2>0, <3>2, <3>4
        <3> HIDE DEF q
        <3>6. Shape(t, q)
            BY <2>0, <3>2, <3>5 DEF Shape
        <3>7. Replaced(t, q)
            BY <2>5, <3>2, <3>5 DEF MInv, Replaced
        <3>8. Masked(t, q) /\ Distinct(q) /\ Counted(q)
            BY <3>2 DEF MInv, Masked, Distinct, Counted
        <3>9. ~Matched(q.out[i], d)
            BY <3>4, <3>5
        <3>10. \A j \in 1..Len(t) : \A x : ~Matched(r.out[j], x) => ~Matched(q.out[j], x)
            BY <3>4, <3>5
        <3> QED
            BY <3>6, <3>7, <3>8, <3>9, <3>10 DEF MInv, q
    <2>6. CASE v \notin DOMAIN r.mapping
        <3>1. /\ q.out = [r.out EXCEPT ![i] = p]
              /\ q.mapping = [w \in DOMAIN r.mapping \cup {v} |-> IF w = v THEN p ELSE r.mapping[w]]
              /\ q.counter = [r.counter EXCEPT ![d] = @ + 1]
              /\ q = [out |-> q.out, mapping |-> q.mapping, counter |-> q.counter]
            BY <2>2, <2>3, <2>6 DEF PlaceholderFor
        <3> DEFINE c == r.counter[d] + 1
        <3>2. c \in Nat \ {0} /\ p = Placeholder(d, c)
            BY <2>4
        <3>3. p \in Token /\ \A x : ~Matched(p, x)
            BY <3>2, PlaceholderIs DEF Token
        <3>4. /\ q.counter \in [Range(Detectors) -> Nat] /\ q.counter[d] = c
              /\ \A e \in Range(Detectors) : e # d => q.counter[e] = r.counter[e]
            BY <2>0, <2>4, <3>1
        <3>5. /\ q.out[i] = p
              /\ \A j \in 1..Len(t) : j # i => q.out[j] = r.out[j]
              /\ q.out \in [1..Len(t) -> Token]
            BY <2>0, <3>1, <3>3
        <3>6. /\ DOMAIN q.mapping = DOMAIN r.mapping \cup {v}
              /\ q.mapping[v] = p
              /\ \A w \in DOMAIN r.mapping : q.mapping[w] = r.mapping[w]
            BY <2>6, <3>1
        <3>7. \A w \in DOMAIN r.mapping : r.mapping[w] # p
            <4> SUFFICES ASSUME NEW w \in DOMAIN r.mapping, r.mapping[w] = p PROVE FALSE
                OBVIOUS
            <4>0. PICK e \in Range(Detectors) : \E n \in 1..r.counter[e] : r.mapping[w] = Placeholder(e, n)
                BY <2>1
            <4>1. PICK n \in 1..r.counter[e] : r.mapping[w] = Placeholder(e, n)
                BY <4>0
            <4>2. e = d /\ n = c
                BY <3>2, <4>1, PlaceholderIs
            <4> QED
                BY <2>4, <4>1, <4>2
        <3>8. \A e \in Range(Detectors) : \A n \in 1..r.counter[e] : n \in 1..q.counter[e]
            <4> SUFFICES ASSUME NEW e \in Range(Detectors), NEW n \in 1..r.counter[e]
                         PROVE  n \in 1..q.counter[e]
                OBVIOUS
            <4>1. CASE e = d
                <5>1. q.counter[e] = r.counter[d] + 1 /\ n \in 1..r.counter[d]
                    BY <3>4, <4>1
                <5> QED
                    BY <2>4, <5>1
            <4>2. CASE e # d
                BY <3>4, <4>2
            <4> QED
                BY <4>1, <4>2
        <3> HIDE DEF q, p, c
        <3>9. Shape(t, q)
            BY <3>1, <3>4, <3>5 DEF Shape
        <3>10. Replaced(t, q)
            <4> SUFFICES ASSUME NEW j \in 1..Len(t)
                         PROVE  \/ q.out[j] = t[j]
                                \/ t[j].value \in DOMAIN q.mapping /\ q.out[j] = q.mapping[t[j].value]
                BY DEF Replaced
            <4>1. CASE j = i
                BY <3>5, <3>6, <4>1
            <4>2. CASE j # i
                BY <3>5, <3>6, <4>2 DEF MInv, Replaced
            <4> QED
                BY <4>1, <4>2
        <3>11. Masked(t, q)
            <4>1. ASSUME NEW w \in DOMAIN r.mapping
                  PROVE  /\ w \in Values /\ Matching[w] # {}
                         /\ \E j \in 1..Len(t) : t[j].value = w
                         /\ \E e \in Range(Detectors) : \E n \in 1..q.counter[e] :
                                q.mapping[w] = Placeholder(e, n)
                <5>0. PICK e \in Range(Detectors) : \E n \in 1..r.counter[e] : r.mapping[w] = Placeholder(e, n)
                    BY <2>1
                <5>1. PICK n \in 1..r.counter[e] : r.mapping[w] = Placeholder(e, n)
                    BY <5>0
                <5>2. n \in 1..q.counter[e] /\ q.mapping[w] = Placeholder(e, n)
                    BY <3>6, <3>8, <5>1
                <5> QED
                    BY <5>2 DEF MInv, Masked
            <4>2. c \in 1..q.counter[d] /\ q.mapping[v] = Placeholder(d, c)
                BY <3>2, <3>4, <3>6
            <4>3. /\ v \in Values /\ Matching[v] # {}
                  /\ \E j \in 1..Len(t) : t[j].value = v
                BY <2>2
            <4> QED
                BY <3>6, <4>1, <4>2, <4>3 DEF Masked
        <3>12. Distinct(q)
            BY <3>6, <3>7 DEF MInv, Distinct
        <3>13. Counted(q)
            <4> SUFFICES ASSUME NEW e \in Range(Detectors), NEW n \in 1..q.counter[e]
                         PROVE  \E w \in DOMAIN q.mapping : q.mapping[w] = Placeholder(e, n)
                BY DEF Counted
            <4>1. CASE e = d /\ n = c
                BY <3>2, <3>6, <4>1
            <4>2. CASE ~(e = d /\ n = c)
                <5>1. n \in 1..r.counter[e]
                    BY <2>0, <2>4, <3>2, <3>4, <4>2 DEF c
                <5>2. PICK w \in DOMAIN r.mapping : r.mapping[w] = Placeholder(e, n)
                    BY <5>1 DEF MInv, Counted
                <5> QED
                    BY <3>6, <5>2
            <4> QED
                BY <4>1, <4>2
        <3>14. ~Matched(q.out[i], d)
            BY <3>3, <3>5
        <3>15. \A j \in 1..Len(t) : \A x : ~Matched(r.out[j], x) => ~Matched(q.out[j], x)
            BY <3>3, <3>5
        <3> QED
            BY <3>9, <3>10, <3>11, <3>12, <3>13, <3>14, <3>15 DEF MInv, q
    <2> QED
        BY <2>5, <2>6
<1> QED
    BY <1>1, <1>2

\* pattern.sub: one detector over the whole text.
LEMMA SubMasks ==
    ASSUME NEW t \in PlainTexts, NEW r, MInv(t, r), NEW d \in Range(Detectors)
    PROVE  LET q == Sub(r, d)
           IN  /\ MInv(t, q)
               /\ \A j \in 1..Len(t) : ~Matched(q.out[j], d)
               /\ \A j \in 1..Len(t) : \A e : ~Matched(r.out[j], e) => ~Matched(q.out[j], e)
<1>1. Len(t) \in Nat /\ Len(r.out) = Len(t)
    <2>1. Len(t) \in Nat /\ r.out \in [1..Len(t) -> Token]
        BY TextIs DEF MInv, Shape
    <2>2. r.out \in Seq(Token)
        BY <2>1, SeqDef
    <2> QED
        BY <2>1, <2>2, LenProperties
<1>2. PICK upTo :
          /\ upTo[0] = r /\ Sub(r, d) = upTo[Len(t)]
          /\ \A i \in 1..Len(t) : upTo[i] = Substitute(upTo[i - 1], d, i)
    BY <1>1, SubOver
<1> DEFINE Good(m) ==
              /\ MInv(t, upTo[m])
              /\ \A j \in 1..m : ~Matched(upTo[m].out[j], d)
              /\ \A j \in 1..Len(t) : \A e : ~Matched(r.out[j], e) => ~Matched(upTo[m].out[j], e)
           Bad == {m \in Nat : m <= Len(t) /\ ~Good(m)}
<1>3. SUFFICES ASSUME Bad # {} PROVE FALSE
    <2>1. Bad = {} => Good(Len(t))
        <3> HIDE DEF Good
        <3> QED
            BY <1>1
    <2> QED
        BY <1>2, <2>1
<1>4. PICK m \in Bad : \A k \in Bad : m <= k
    BY <1>3, Least
<1>5. CASE m = 0
    <2>1. Good(0)
        BY <1>2
    <2> QED
        BY <1>4, <1>5, <2>1
<1>6. CASE m # 0
    <2>1. m - 1 \in Nat /\ m \in 1..Len(t) /\ Good(m - 1)
        <3> HIDE DEF Good
        <3>1. m \in Nat /\ m <= Len(t) /\ m - 1 \in Nat /\ m - 1 < m
            BY <1>4, <1>6
        <3>2. m - 1 \notin Bad
            BY <1>4, <3>1
        <3> QED
            BY <1>1, <1>6, <3>1, <3>2
    <2>2. upTo[m] = Substitute(upTo[m - 1], d, m)
        BY <1>2, <2>1
    <2>3. /\ MInv(t, upTo[m])
          /\ ~Matched(upTo[m].out[m], d)
          /\ \A j \in 1..Len(t) : \A e :
                 ~Matched(upTo[m - 1].out[j], e) => ~Matched(upTo[m].out[j], e)
        BY <2>1, <2>2, SubstituteMasks
    <2>4. \A j \in 1..m : ~Matched(upTo[m].out[j], d)
        <3> SUFFICES ASSUME NEW j \in 1..m PROVE ~Matched(upTo[m].out[j], d)
            OBVIOUS
        <3>1. CASE j = m
            BY <2>3, <3>1
        <3>2. CASE j # m
            <4>1. j \in 1..(m - 1) /\ j \in 1..Len(t)
                BY <1>1, <2>1, <3>2
            <4> QED
                BY <2>1, <2>3, <4>1
        <3> QED
            BY <3>1, <3>2
    <2>5. Good(m)
        BY <2>1, <2>3, <2>4
    <2> QED
        BY <1>4, <2>5
<1> QED
    BY <1>5, <1>6

(***************************************************************************)
(* The whole redaction: it keeps what it keeps at each place, and no       *)
(* detector matches what is left.                                          *)
(***************************************************************************)
LEMMA RedactMasks ==
    ASSUME NEW t \in PlainTexts
    PROVE  /\ MInv(t, Redact(t))
           /\ \A j \in 1..Len(t) : \A d \in Range(Detectors) : ~Matched(Redact(t).out[j], d)
<1>1. /\ Len(Detectors) \in Nat
      /\ \A k \in 1..Len(Detectors) : Detectors[k] \in Range(Detectors)
      /\ \A d \in Range(Detectors) : \E k \in 1..Len(Detectors) : d = Detectors[k]
    <2>1. Len(Detectors) \in Nat /\ DOMAIN Detectors = 1..Len(Detectors)
        BY RedactionAssumption, LenProperties
    <2> QED
        BY <2>1 DEF Range
<1>2. PICK after :
          /\ after[0] = Blank(t) /\ Redact(t) = after[Len(Detectors)]
          /\ \A i \in 1..Len(Detectors) : after[i] = Sub(after[i - 1], Detectors[i])
    BY RedactIs
<1> DEFINE Good(m) ==
              /\ MInv(t, after[m])
              /\ \A j \in 1..Len(t) : \A k \in 1..m : ~Matched(after[m].out[j], Detectors[k])
           Bad == {m \in Nat : m <= Len(Detectors) /\ ~Good(m)}
<1>3. SUFFICES ASSUME Bad # {} PROVE FALSE
    <2>1. Bad = {} => Good(Len(Detectors))
        <3> HIDE DEF Good
        <3> QED
            BY <1>1
    <2> QED
        BY <1>1, <1>2, <2>1
<1>4. PICK m \in Bad : \A k \in Bad : m <= k
    BY <1>3, Least
<1>5. CASE m = 0
    <2>1. Good(0)
        BY <1>2, BlankMasks
    <2> QED
        BY <1>4, <1>5, <2>1
<1>6. CASE m # 0
    <2>1. m - 1 \in Nat /\ m \in 1..Len(Detectors) /\ Good(m - 1)
        <3> HIDE DEF Good
        <3>1. m \in Nat /\ m <= Len(Detectors) /\ m - 1 \in Nat /\ m - 1 < m
            BY <1>4, <1>6
        <3>2. m - 1 \notin Bad
            BY <1>4, <3>1
        <3> QED
            BY <1>1, <1>6, <3>1, <3>2
    <2>2. after[m] = Sub(after[m - 1], Detectors[m])
        BY <1>2, <2>1
    <2>3. /\ MInv(t, after[m])
          /\ \A j \in 1..Len(t) : ~Matched(after[m].out[j], Detectors[m])
          /\ \A j \in 1..Len(t) : \A e :
                 ~Matched(after[m - 1].out[j], e) => ~Matched(after[m].out[j], e)
        <3>1. MInv(t, after[m - 1]) /\ Detectors[m] \in Range(Detectors)
            BY <1>1, <2>1
        <3> DEFINE q == Sub(after[m - 1], Detectors[m])
        <3>2. /\ MInv(t, q)
              /\ \A j \in 1..Len(t) : ~Matched(q.out[j], Detectors[m])
              /\ \A j \in 1..Len(t) : \A e : ~Matched(after[m - 1].out[j], e) => ~Matched(q.out[j], e)
            BY <3>1, SubMasks
        <3>3. after[m] = q
            BY <2>2
        <3> HIDE DEF q
        <3> QED
            BY <3>2, <3>3
    <2>4. ASSUME NEW j \in 1..Len(t), NEW k \in 1..m
          PROVE  ~Matched(after[m].out[j], Detectors[k])
        <3>1. CASE k = m
            BY <2>3, <3>1
        <3>2. CASE k # m
            <4>1. k \in 1..(m - 1)
                BY <2>1, <3>2
            <4> QED
                BY <2>1, <2>3, <4>1
        <3> QED
            BY <3>1, <3>2
    <2>5. Good(m)
        BY <2>3, <2>4
    <2> QED
        BY <1>4, <2>5
<1> QED
    BY <1>5, <1>6

(***************************************************************************)
(* What a redacted text is: as long as the text, a value that a detector   *)
(* matches replaced, any other as it was, and equal exactly where the text *)
(* was equal.                                                              *)
(***************************************************************************)
LEMMA RedactedIs ==
    ASSUME NEW t \in PlainTexts
    PROVE  LET r == Redact(t)
           IN  /\ r.out \in Seq(Token) /\ Len(r.out) = Len(t) /\ Len(t) \in Nat
               /\ \A i \in 1..Len(t) :
                      IF Matching[t[i].value] # {}
                      THEN /\ t[i].value \in DOMAIN r.mapping
                           /\ r.out[i] = r.mapping[t[i].value]
                           /\ r.out[i].value = "none" /\ r.out[i].mask # "none"
                      ELSE r.out[i] = t[i]
               /\ \A i, j \in 1..Len(t) : (t[i] = t[j]) <=> (r.out[i] = r.out[j])
<1> DEFINE r == Redact(t)
<1>1. MInv(t, r) /\ \A j \in 1..Len(t) : \A d \in Range(Detectors) : ~Matched(r.out[j], d)
    BY RedactMasks
<1>2. /\ Len(t) \in Nat
      /\ \A i \in 1..Len(t) : t[i].value \in Values /\ t[i] = Value(t[i].value)
                               /\ t[i].mask = "none"
    BY TextIs
<1> HIDE DEF r
<1>3. r.out \in Seq(Token) /\ Len(r.out) = Len(t)
    <2>1. r.out \in [1..Len(t) -> Token]
        BY <1>1 DEF MInv, Shape
    <2>2. r.out \in Seq(Token)
        BY <1>2, <2>1, SeqDef
    <2> QED
        BY <1>2, <2>1, <2>2, LenProperties
<1>4. \A v \in DOMAIN r.mapping : r.mapping[v].value = "none" /\ r.mapping[v].mask # "none"
    BY <1>1, PlaceholderIs, RedactionAssumption DEF MInv, Masked
<1>5. ASSUME NEW i \in 1..Len(t), Matching[t[i].value] # {}
      PROVE  /\ t[i].value \in DOMAIN r.mapping
             /\ r.out[i] = r.mapping[t[i].value]
             /\ r.out[i].value = "none" /\ r.out[i].mask # "none"
    <2>1. PICK d \in Range(Detectors) : d \in Matching[t[i].value]
        BY <1>2, <1>5, RedactionAssumption
    <2>2. r.out[i] # t[i]
        BY <1>1, <1>2, <2>1 DEF Matched
    <2> QED
        BY <1>1, <1>4, <2>2 DEF MInv, Replaced
<1>6. ASSUME NEW i \in 1..Len(t), Matching[t[i].value] = {}
      PROVE  r.out[i] = t[i]
    BY <1>1, <1>6 DEF MInv, Replaced, Masked
<1>7. ASSUME NEW i \in 1..Len(t), NEW j \in 1..Len(t)
      PROVE  (t[i] = t[j]) <=> (r.out[i] = r.out[j])
    <2>1. (t[i] = t[j]) <=> (t[i].value = t[j].value)
        BY <1>2
    <2>2. CASE Matching[t[i].value] # {} /\ Matching[t[j].value] # {}
        BY <1>1, <1>5, <2>1, <2>2 DEF MInv, Distinct
    <2>3. CASE Matching[t[i].value] = {} /\ Matching[t[j].value] = {}
        BY <1>6, <2>3
    <2>4. CASE Matching[t[i].value] # {} /\ Matching[t[j].value] = {}
        <3>1. r.out[i].mask # "none" /\ r.out[j].mask = "none"
            BY <1>2, <1>5, <1>6, <2>4
        <3> QED
            BY <2>4, <3>1
    <2>5. CASE Matching[t[i].value] = {} /\ Matching[t[j].value] # {}
        <3>1. r.out[j].mask # "none" /\ r.out[i].mask = "none"
            BY <1>2, <1>5, <1>6, <2>5
        <3> QED
            BY <2>5, <3>1
    <2> QED
        BY <2>2, <2>3, <2>4, <2>5
<1> QED
    BY <1>2, <1>3, <1>5, <1>6, <1>7 DEF r

(***************************************************************************)
(* The total that is logged counts the distinct values masked: each has a  *)
(* placeholder of its own, and no placeholder was counted for nothing.     *)
(***************************************************************************)
LEMMA TotalIs ==
    ASSUME NEW t \in PlainTexts
    PROVE  Total(Redact(t)) =
               Cardinality({t[i].value : i \in {k \in 1..Len(t) : Matching[t[k].value] # {}}})
<1> DEFINE r == Redact(t)
           V == {t[i].value : i \in {k \in 1..Len(t) : Matching[t[k].value] # {}}}
           M == DOMAIN r.mapping
           S == Issued(r)
           f == [v \in M |-> <<r.mapping[v].mask, r.mapping[v].n>>]
<1>1. MInv(t, r) /\ Len(t) \in Nat
    BY RedactMasks, TextIs
<1>2. V = M
    <2>1. \A i \in 1..Len(t) : Matching[t[i].value] # {} => t[i].value \in M
        BY RedactedIs
    <2> HIDE DEF r
    <2>3. V \subseteq M
        BY <2>1
    <2>2. M \subseteq V
        BY <1>1 DEF MInv, Masked
    <2> QED
        BY <2>2, <2>3
<1> HIDE DEF r
<1>3. IsFiniteSet(M)
    <2> DEFINE places == {k \in 1..Len(t) : Matching[t[k].value] # {}}
               g == [k \in places |-> t[k].value]
    <2>1. IsFiniteSet(places)
        <3>1. IsFiniteSet(1..Len(t))
            BY <1>1, FS_Interval
        <3> QED
            BY <3>1, FS_Subset
    <2>2. g \in Surjection(places, V)
        BY DEF Surjection
    <2>3. IsFiniteSet(V)
        BY <2>1, <2>2, FS_Surjection
    <2> QED
        BY <1>2, <2>3
<1>4. /\ \A v \in M : \E d \in Range(Detectors) : \E n \in 1..r.counter[d] :
             r.mapping[v] = Placeholder(d, n)
      /\ DOMAIN r.counter = Range(Detectors)
    BY <1>1 DEF MInv, Masked, Shape
<1>5. \A x : x \in S <=> \E d \in Range(Detectors) : \E n \in 1..r.counter[d] : x = <<d, n>>
    BY <1>4 DEF Issued
<1>6. f \in [M -> S]
    <2> SUFFICES ASSUME NEW v \in M PROVE <<r.mapping[v].mask, r.mapping[v].n>> \in S
        OBVIOUS
    <2>1. PICK d \in Range(Detectors) : \E n \in 1..r.counter[d] : r.mapping[v] = Placeholder(d, n)
        BY <1>4
    <2>2. PICK n \in 1..r.counter[d] : r.mapping[v] = Placeholder(d, n)
        BY <2>1
    <2>3. r.mapping[v].mask = d /\ r.mapping[v].n = n
        BY <2>2, PlaceholderIs
    <2> HIDE DEF S
    <2> QED
        BY <1>5, <2>3
<1>7. ASSUME NEW v \in M, NEW w \in M, f[v] = f[w]
      PROVE  v = w
    <2>1. r.mapping[v].mask = r.mapping[w].mask /\ r.mapping[v].n = r.mapping[w].n
        BY <1>7
    <2>2. /\ r.mapping[v] = Placeholder(r.mapping[v].mask, r.mapping[v].n)
          /\ r.mapping[w] = Placeholder(r.mapping[w].mask, r.mapping[w].n)
        BY <1>4, PlaceholderIs
    <2>3. r.mapping[v] = r.mapping[w]
        BY <2>1, <2>2
    <2> QED
        BY <1>1, <2>3 DEF MInv, Distinct
<1>8. ASSUME NEW x \in S
      PROVE  \E v \in M : f[v] = x
    <2>1. PICK d \in Range(Detectors) : \E n \in 1..r.counter[d] : x = <<d, n>>
        BY <1>5
    <2>2. PICK n \in 1..r.counter[d] : x = <<d, n>>
        BY <2>1
    <2>3. PICK v \in M : r.mapping[v] = Placeholder(d, n)
        BY <1>1, <2>2 DEF MInv, Counted
    <2>4. f[v] = <<d, n>>
        BY <2>3, PlaceholderIs
    <2> QED
        BY <2>2, <2>4
<1>9. ExistsBijection(M, S)
    <2> HIDE DEF f, S, M
    <2>1. f \in Bijection(M, S)
        BY <1>6, <1>7, <1>8 DEF Bijection, Injection, Surjection, IsInjective
    <2> QED
        BY <2>1 DEF ExistsBijection
<1>10. Cardinality(S) = Cardinality(M)
    BY <1>3, <1>9, FS_Bijection
<1> QED
    BY <1>2, <1>10 DEF Total, r

----------------------------------------------------------------------------
(***************************************************************************)
(* The two prompts on the wire, each redacted on its own.                  *)
(***************************************************************************)

\* Of one prompt, what the wire shows.
LEMMA PlainRedacted ==
    ASSUME NEW t \in PlainTexts
    PROVE  /\ Redact(t).out \in Seq(Token) /\ Len(Redact(t).out) = Len(t) /\ Len(t) \in Nat
           /\ \A i \in 1..Len(t) :
                  IF Matching[t[i].value] # {} THEN Redact(t).out[i].value = "none"
                                               ELSE Redact(t).out[i] = t[i]
<1> DEFINE r == Redact(t)
<1>1. /\ r.out \in Seq(Token) /\ Len(r.out) = Len(t) /\ Len(t) \in Nat
      /\ \A i \in 1..Len(t) :
             IF Matching[t[i].value] # {}
             THEN /\ t[i].value \in DOMAIN r.mapping
                  /\ r.out[i] = r.mapping[t[i].value]
                  /\ r.out[i].value = "none" /\ r.out[i].mask # "none"
             ELSE r.out[i] = t[i]
    BY RedactedIs
<1> HIDE DEF r
<1>2. ASSUME NEW i \in 1..Len(t)
      PROVE  IF Matching[t[i].value] # {} THEN r.out[i].value = "none" ELSE r.out[i] = t[i]
    BY <1>1
<1> QED
    BY <1>1, <1>2 DEF r

\* And of the two of them.
LEMMA PayloadIs ==
    ASSUME NEW s \in PlainTexts, NEW p \in PlainTexts
    PROVE  LET w == Redact(s).out \o Redact(p).out
           IN  /\ Len(w) = Len(s \o p)
               /\ \A i \in DOMAIN w :
                      IF Matching[(s \o p)[i].value] # {} THEN w[i].value = "none"
                                                          ELSE w[i] = (s \o p)[i]
               /\ \A i \in 1..Len(p) : SubSeq(w, Len(s) + 1, Len(w))[i] = Redact(p).out[i]
<1> DEFINE rs == Redact(s).out
           rp == Redact(p).out
           w == rs \o rp
<1>1. /\ rs \in Seq(Token) /\ Len(rs) = Len(s) /\ Len(s) \in Nat
      /\ \A i \in 1..Len(s) : IF Matching[s[i].value] # {} THEN rs[i].value = "none"
                                                           ELSE rs[i] = s[i]
    BY PlainRedacted
<1>2. /\ rp \in Seq(Token) /\ Len(rp) = Len(p) /\ Len(p) \in Nat
      /\ \A i \in 1..Len(p) : IF Matching[p[i].value] # {} THEN rp[i].value = "none"
                                                           ELSE rp[i] = p[i]
    BY PlainRedacted
<1> HIDE DEF rs, rp
<1>3. /\ w \in Seq(Token) /\ Len(w) = Len(s) + Len(p)
      /\ \A i \in 1..(Len(s) + Len(p)) : w[i] = IF i <= Len(s) THEN rs[i] ELSE rp[i - Len(s)]
    <2>1. /\ w \in Seq(Token) /\ Len(w) = Len(rs) + Len(rp)
          /\ \A i \in 1..(Len(rs) + Len(rp)) : w[i] = IF i <= Len(rs) THEN rs[i] ELSE rp[i - Len(rs)]
        <3>1. rs \in Seq(Token) /\ rp \in Seq(Token)
            BY <1>1, <1>2
        <3> QED
            BY <3>1, ConcatProperties
    <2>2. Len(rs) = Len(s) /\ Len(rp) = Len(p)
        BY <1>1, <1>2
    <2> HIDE DEF w
    <2> QED
        BY <2>1, <2>2
<1>4. /\ Len(s \o p) = Len(s) + Len(p)
      /\ \A i \in 1..(Len(s) + Len(p)) : (s \o p)[i] = IF i <= Len(s) THEN s[i] ELSE p[i - Len(s)]
    BY ConcatProperties DEF PlainTexts
<1> HIDE DEF w
<1>5. DOMAIN w = 1..(Len(s) + Len(p))
    BY <1>3, LenProperties
<1>6. ASSUME NEW i \in 1..(Len(s) + Len(p))
      PROVE  IF Matching[(s \o p)[i].value] # {} THEN w[i].value = "none" ELSE w[i] = (s \o p)[i]
    <2>1. CASE i <= Len(s)
        <3>1. i \in 1..Len(s) /\ w[i] = rs[i] /\ (s \o p)[i] = s[i]
            BY <1>1, <1>2, <1>3, <1>4, <2>1
        <3> QED
            BY <1>1, <3>1
    <2>2. CASE ~(i <= Len(s))
        <3>1. /\ i - Len(s) \in 1..Len(p)
              /\ w[i] = rp[i - Len(s)] /\ (s \o p)[i] = p[i - Len(s)]
            BY <1>1, <1>2, <1>3, <1>4, <2>2
        <3> QED
            BY <1>2, <3>1
    <2> QED
        BY <2>1, <2>2
<1>7. ASSUME NEW i \in 1..Len(p)
      PROVE  SubSeq(w, Len(s) + 1, Len(w))[i] = rp[i]
    <2> DEFINE lo == Len(s) + 1
               hi == Len(s) + Len(p)
    <2>1. lo \in Int /\ hi \in Int /\ hi - lo + 1 = Len(p)
        BY <1>1, <1>2
    <2>2. \A j \in lo..hi : w[j] \in Token
        <3>1. \A j \in 1..Len(w) : w[j] \in Token
            BY <1>3, ElementOfSeq
        <3> QED
            BY <1>1, <1>2, <1>3, <3>1
    <2>3. lo + i - 1 = Len(s) + i
        BY <1>1, <1>2
    <2> HIDE DEF lo, hi
    <2>4. SubSeq(w, lo, hi)[i] = w[lo + i - 1]
        BY <2>1, <2>2, SubSeqProperties
    <2>5. w[Len(s) + i] = rp[i]
        <3>1. /\ Len(s) + i \in 1..(Len(s) + Len(p)) /\ ~(Len(s) + i <= Len(s))
              /\ (Len(s) + i) - Len(s) = i
            BY <1>1, <1>2
        <3> QED
            BY <1>3, <3>1
    <2> QED
        BY <1>3, <2>3, <2>4, <2>5 DEF lo, hi
<1> QED
    BY <1>3, <1>4, <1>5, <1>6, <1>7 DEF w, rs, rp

\* What a question has on the wire is its payload: the prompts do not change.
WireInv ==
    /\ wire = [a \in Askers |-> wire[a]]
    /\ \A a \in Askers : wire[a] = <<>> \/ wire[a] = Payload(a)

\* Only a thread that sends changes the wire.
LEMMA NextWire == WireInv /\ [Next]_vars => WireInv'
<1> SUFFICES ASSUME WireInv, [Next]_vars PROVE WireInv'
    OBVIOUS
<1>1. prompt' = prompt /\ \A a : Payload(a)' = Payload(a)
    <2>1. prompt' = prompt
        BY DEF Next, Complete, Wake, Submit, CallFails, Invoke, Return, Answered, Retry,
            Timeout, AllEnded, vars
    <2> QED
        BY <2>1 DEF Payload
<1>2. CASE Invoke
    <2>1. wire' = [wire EXCEPT ![Head(queue).who] = Payload(Head(queue).who)]
        BY <1>2 DEF Invoke
    <2> QED
        BY <1>1, <2>1 DEF WireInv
<1>3. CASE ~Invoke
    <2>1. wire' = wire
        BY <1>3 DEF Next, Complete, Wake, Submit, Return, Timeout, AllEnded, vars
    <2> QED
        BY <1>1, <2>1 DEF WireInv
<1> QED
    BY <1>2, <1>3

(***************************************************************************)
(* redact() in complete() and what is sent of it, on every retry: no value *)
(* a detector matches, every other as it was, two tokens of a prompt equal *)
(* exactly if they were, and a count of the distinct values masked.        *)
(***************************************************************************)
THEOREM RedactionIsKept == Spec => []RedactionKept
<1>1. Init => WireInv
    BY DEF Init, WireInv
<1>2. IInv /\ WireInv => RedactionKept
    <2> SUFFICES ASSUME IInv, WireInv, NEW a \in Askers, wire[a] # <<>>
                 PROVE  /\ Len(wire[a]) = Len(System \o prompt[a])
                        /\ \A i \in DOMAIN wire[a] :
                               IF Matching[(System \o prompt[a])[i].value] # {}
                               THEN wire[a][i].value = "none"
                               ELSE wire[a][i] = (System \o prompt[a])[i]
                        /\ \A i, j \in DOMAIN prompt[a] :
                               (prompt[a][i] = prompt[a][j]) <=>
                               (SubSeq(wire[a], Len(System) + 1, Len(wire[a]))[i] =
                                    SubSeq(wire[a], Len(System) + 1, Len(wire[a]))[j])
                        /\ Total(Redact(prompt[a])) =
                               Cardinality({prompt[a][i].value :
                                   i \in {k \in DOMAIN prompt[a] : Matching[prompt[a][k].value] # {}}})
        BY DEF RedactionKept, SentRedacted, CorrelationKept
    <2> DEFINE p == prompt[a]
               w == Redact(System).out \o Redact(p).out
    <2>1. System \in PlainTexts /\ p \in PlainTexts
        BY LlmAssumption DEF IInv, Typed
    <2>2. wire[a] = w
        BY DEF WireInv, Payload
    <2>3. DOMAIN p = 1..Len(p)
        BY <2>1, LenProperties DEF PlainTexts
    <2>4. /\ Len(w) = Len(System \o p)
          /\ \A i \in DOMAIN w :
                 IF Matching[(System \o p)[i].value] # {} THEN w[i].value = "none"
                                                          ELSE w[i] = (System \o p)[i]
          /\ \A i \in 1..Len(p) : SubSeq(w, Len(System) + 1, Len(w))[i] = Redact(p).out[i]
        BY <2>1, PayloadIs
    <2>5. \A i, j \in 1..Len(p) : (p[i] = p[j]) <=> (Redact(p).out[i] = Redact(p).out[j])
        BY <2>1, RedactedIs
    <2>6. Total(Redact(p)) =
              Cardinality({p[i].value : i \in {k \in 1..Len(p) : Matching[p[k].value] # {}}})
        BY <2>1, TotalIs
    <2> HIDE DEF p, w
    <2>7. \A i, j \in 1..Len(p) :
              (p[i] = p[j]) <=> (SubSeq(w, Len(System) + 1, Len(w))[i] =
                                     SubSeq(w, Len(System) + 1, Len(w))[j])
        BY <2>4, <2>5
    <2> QED
        BY <2>2, <2>3, <2>4, <2>6, <2>7 DEF p
<1>3. Spec => []WireInv
    BY <1>1, NextWire, PTL DEF Spec
<1> QED
    BY <1>2, <1>3, LlmInvariant, PTL
===============================================================================
