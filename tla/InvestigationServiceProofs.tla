---------------------- MODULE InvestigationServiceProofs ----------------------
(***************************************************************************)
(* Proofs about InvestigationService, and the stream that watches it, for  *)
(* any number of approvers, any set of wired agents and with or without    *)
(* crashes.                                                                *)
(***************************************************************************)
EXTENDS StatusStream, TLAPS

(***************************************************************************)
(* What holds of every checkpoint of a thread, saved or being worked on,   *)
(* whoever made it: which nodes can be next together (Shape), what the     *)
(* nodes that ran last have left on the blackboard (Behind), and what the  *)
(* routing lets the next ones rely on (Ahead).                             *)
(***************************************************************************)
Drafting == {"START", "intake", "triage_gate", "knowledge", "architecture", "rca"}

Analysis == {"knowledge", "architecture", "rca", "recommendation"}

Kept(v) == ~v.intake_failed /\ v.recommended_triage # "drop"

Confident(v) == v.rca_confidence \in {"high", "medium"}

Shape(next) ==
    \/ next = {}
    \/ \E n \in Node : next = {n}
    \/ next = {"knowledge", "architecture"}

Behind(v, last) ==
    /\ "intake" \in last => v.incident \/ v.intake_failed
    /\ "triage_gate" \in last => v.status # Unset /\ ~v.intake_failed
    /\ "human_review" \in last => v.status # Unset
    /\ "rca" \in last => v.rca_confidence \in Confidence
    /\ \A n \in Analysis : n \in last => Kept(v)
    /\ \A n \in Drafting : n \in last => ~v.recommendations
    /\ last = {} => ~v.recommendations
    /\ v.recommendations => Kept(v) /\ Confident(v)
    /\ ~v.incident => /\ last \subseteq {"START", "intake", "human_review"}
                      /\ ~v.recommendations

Ahead(v, next) ==
    /\ ~v.incident => next \subseteq {"intake", "human_review"}
    /\ "triage_gate" \in next => ~v.intake_failed
    /\ \A n \in Analysis : n \in next => Kept(v)
    /\ \A n \in Drafting : n \in next => ~v.recommendations
    /\ "recommendation" \in next => Confident(v)

Finished(c) == c.next = {} /\ c.values.status = Unset => c.last = {}

Sound(c) == /\ Shape(c.next)
            /\ Behind(c.values, c.last)
            /\ Ahead(c.values, c.next)
            /\ Finished(c)

(***************************************************************************)
(* The first invariant: every checkpoint is sound, none knows the incident *)
(* before the workflow has been started, and an approver's decision is in  *)
(* the table from its call on.                                             *)
(***************************************************************************)
Checkpoints == /\ Sound(thread)
               /\ \A h \in Handler : Sound(mem[h])

Unstarted == at[Starter] \in {"idle", "committed"} =>
                /\ ~thread.values.incident
                /\ \A h \in Handler : ~mem[h].values.incident

Decided == \A a \in Approver : at[a] # "idle" <=> decided[a] # Unset

CInv == TypeOK /\ Checkpoints /\ Unstarted /\ Decided

(***************************************************************************)
(* The second invariant, for approvers who wait until they are asked: an   *)
(* approver has called only after the start was done (Turns), what an      *)
(* approver resumes carries a recorded decision (Carries), and every       *)
(* outcome on its way to the thread or the row is backed (AllBacked).      *)
(***************************************************************************)
Turns ==
    /\ row \notin {"absent", "running"} => at[Starter] = "done"
    /\ \A a \in Approver : at[a] # "idle" => at[Starter] = "done"
    /\ fresh[Starter] = FALSE

Recorded(v) == \E a \in Approver : decided[a] # Unset /\ decided[a] = v.human_decision

Ran == /\ at[Starter] \in {"running", "answered", "done"} => thread.last # {}
       /\ at[Starter] = "running" => mem[Starter].last # {}
       /\ \A a \in Approver : at[a] \in {"updating", "running"} => mem[a].last # {}

Carries ==
    \A a \in Approver :
        /\ at[a] \in {"updated", "running"} => Recorded(thread.values)
        /\ at[a] = "running" => Recorded(mem[a].values)

BackedIn(c) == c.values.status \in Outcome => Backed(c.values.status)

AllBacked ==
    /\ BackedIn(thread)
    /\ \A h \in Handler : at[h] \in {"updating", "running"} => BackedIn(mem[h])
    /\ \A h \in Handler : at[h] = "answered" /\ said[h] \in Outcome => Backed(said[h])
    /\ row \in Outcome => Backed(row)

BInv == Turns /\ Ran /\ Carries /\ AllBacked

(***************************************************************************)
(* The third invariant, for the same approvers: what is pending in a       *)
(* checkpoint is what its last nodes lead to, an outcome is what           *)
(* human_review leaves and nothing follows it (Routed), and the thread is  *)
(* blank when it is started and as long as nothing has run on it.          *)
(***************************************************************************)
Routed(c) ==
    /\ c.last # {} => c.next = UNION {Edges(n, c.values) : n \in c.last}
    /\ c.values.status \in Outcome => c.last = {"human_review"}
    /\ "human_review" \in c.last => c.values.status \in Outcome
    /\ c.values.intake_failed => "START" \notin c.last

RInv ==
    /\ at[Starter] \in {"idle", "committed"} => thread = NoCheckpoint
    /\ thread.last = {} => thread = NoCheckpoint
    /\ Routed(thread)
    /\ \A h \in Handler : Routed(mem[h])

(***************************************************************************)
(* The fourth invariant, for the same approvers, racing or not: the start  *)
(* works on the thread as it is, since nobody else touches it, and once it *)
(* has returned neither the thread nor any checkpoint an approver works on *)
(* is left between two agents.                                             *)
(***************************************************************************)
Paused(c) == c.next \in {{}, {"human_review"}}

PInv ==
    /\ at[Starter] = "running" => mem[Starter] = thread
    /\ at[Starter] \in {"answered", "done"} =>
           /\ Paused(thread)
           /\ \A a \in Approver : at[a] \in {"updating", "running"} => Paused(mem[a])

(***************************************************************************)
(* The fifth invariant, as long as no two approvals can have raced: one    *)
(* handler is busy at a time (Alone), it works on the thread as it is and  *)
(* answers what it is (InStep), and the row says so unless a run has moved *)
(* on (Agrees).                                                            *)
(***************************************************************************)
Alone == \A g, h \in Handler : at[g] \in Busy /\ at[h] \in Busy => g = h

InStep ==
    \A h \in Handler :
        /\ at[h] \in {"updating", "running"} => mem[h] = thread
        /\ at[h] = "answered" => said[h] = StatusOf(thread)

Agrees ==
    /\ at[Starter] = "done"
    /\ \A a \in Approver : at[a] \notin {"running", "answered", "crashed"}
    => row = StatusOf(thread)

OInv == ~MayHaveRaced => Alone /\ InStep /\ Agrees

----------------------------------------------------------------------------
(***************************************************************************)
(* What the operators of InvestigationGraph return.                        *)
(***************************************************************************)
LEMMA StatusDistinct == Unset \notin Outcome /\ "triaged" \notin Outcome /\ Unset # "triaged"
BY DEF Outcome, Unset

LEMMA OutcomeType == ASSUME NEW d PROVE OutcomeOf(d) \in Outcome
BY DEF OutcomeOf, Outcome

LEMMA StatusType ==
    ASSUME NEW c \in Checkpoint
    PROVE  StatusOf(c) \in Status
<1>1. c.values.status \in Outcome \cup {"triaged", Unset}
  BY DEF Checkpoint, Values
<1> QED
  BY <1>1 DEF StatusOf, EndStatus, Status, Outcome, Unset

\* A status that is an outcome was the blackboard's, unless nothing has run.
LEMMA StatusFromThread ==
    ASSUME NEW c \in Checkpoint, Sound(c), c.last # {}, StatusOf(c) \in Outcome
    PROVE  c.values.status = StatusOf(c)
<1>1. c.values.status \in Outcome \cup {"triaged", Unset}
  BY DEF Checkpoint, Values
<1>2. c.next = {} => c.values.status # Unset
  BY DEF Sound, Finished
<1> QED
  BY <1>1, <1>2 DEF StatusOf, EndStatus, Outcome, Unset

LEMMA WiredNodes == Wired \subseteq Optional /\ "architecture" \in Wired
BY WiredAssumption

\* What each node leaves on the blackboard.
LEMMA AfterOf ==
    ASSUME NEW v
    PROVE  /\ After("intake", v) = IntakeNode(v)
           /\ After("triage_gate", v) = TriageGateNode(v)
           /\ After("rca", v) = RcaNode(v)
           /\ After("recommendation", v) = RecommendationNode(v)
           /\ After("human_review", v) = HumanReviewNode(v)
           /\ \A n \in {"knowledge", "architecture", "communication"} :
                  After(n, v) = {v}
BY DEF After

LEMMA IntakeOutcome ==
    ASSUME NEW v \in Values, NEW w \in IntakeNode(v)
    PROVE  /\ w \in Values
           /\ w.intake_failed \/ v.incident
           /\ w.incident = v.incident
           /\ w.human_decision = v.human_decision
           /\ w.recommendations = v.recommendations
           /\ w.rca_confidence = v.rca_confidence
           /\ w.status = v.status
<1>1. CASE w = [v EXCEPT !.intake_failed = TRUE]
  BY <1>1 DEF Values
<1>2. CASE v.incident /\ \E t \in Triage :
             w = [v EXCEPT !.intake_failed = FALSE, !.recommended_triage = t]
  <2>1. PICK t \in Triage :
            w = [v EXCEPT !.intake_failed = FALSE, !.recommended_triage = t]
    BY <1>2
  <2> QED
    BY <1>2, <2>1 DEF Values
<1> QED
  BY <1>1, <1>2 DEF IntakeNode

\* The edges from each node.
LEMMA EdgesOf ==
    ASSUME NEW v
    PROVE  /\ Edges("START", v) = {"intake"}
           /\ Edges("intake", v) = AfterIntake(v)
           /\ Edges("triage_gate", v) = AfterTriage(v)
           /\ Edges("knowledge", v) = DownstreamEntry
           /\ Edges("architecture", v) = DownstreamEntry
           /\ Edges("rca", v) = AfterRca(v)
           /\ Edges("recommendation", v) = AfterRecommendation
           /\ Edges("communication", v) = {"human_review"}
           /\ Edges("human_review", v) = {}
BY DEF Edges

LEMMA RcaOutcome ==
    ASSUME NEW v \in Values, NEW w \in RcaNode(v)
    PROVE  /\ w \in Values
           /\ w.rca_confidence \in Confidence
           /\ w.incident = v.incident
           /\ w.human_decision = v.human_decision
           /\ w.status = v.status
           /\ w.intake_failed = v.intake_failed
           /\ w.recommended_triage = v.recommended_triage
           /\ w.recommendations = v.recommendations
<1>1. PICK g \in Confidence : w = [v EXCEPT !.rca_confidence = g]
  BY DEF RcaNode
<1>2. w \in Values
  BY <1>1 DEF Values
<1> QED
  BY <1>1, <1>2 DEF Values

LEMMA RecommendationOutcome ==
    ASSUME NEW v \in Values, NEW w \in RecommendationNode(v)
    PROVE  /\ w \in Values
           /\ w.recommendations
           /\ w.incident = v.incident
           /\ w.human_decision = v.human_decision
           /\ w.status = v.status
           /\ w.intake_failed = v.intake_failed
           /\ w.recommended_triage = v.recommended_triage
           /\ w.rca_confidence = v.rca_confidence
<1>1. w = [v EXCEPT !.recommendations = TRUE]
  BY DEF RecommendationNode
<1>2. w \in Values
  BY <1>1 DEF Values
<1> QED
  BY <1>1, <1>2 DEF Values

LEMMA EdgesType ==
    ASSUME NEW n \in Node \cup {"START"}, NEW v \in Values
    PROVE  /\ Edges(n, v) \subseteq Node
           /\ \/ Edges(n, v) = {}
              \/ \E m \in Node : Edges(n, v) = {m}
              \/ Edges(n, v) = {"knowledge", "architecture"}
           /\ Edges(n, v) = {} => n = "human_review" \/ n = "triage_gate"
<1> USE WiredNodes, EdgesOf DEF Node, Optional
<1>1. CASE n = "START" \/ n = "human_review" \/ n = "communication"
  BY <1>1
<1>2. CASE n = "intake"
  BY <1>2 DEF AfterIntake
<1>3. CASE n = "triage_gate"
  BY <1>3 DEF AfterTriage
<1>4. CASE n = "knowledge" \/ n = "architecture"
  BY <1>4 DEF DownstreamEntry
<1>5. CASE n = "rca"
  BY <1>5 DEF AfterRca
<1>6. CASE n = "recommendation"
  BY <1>6 DEF AfterRecommendation
<1> QED
  BY <1>1, <1>2, <1>3, <1>4, <1>5, <1>6

(***************************************************************************)
(* The routing after node n gives the next nodes what they rely on.        *)
(***************************************************************************)
LEMMA Routing ==
    ASSUME NEW n \in Node \cup {"START"}, NEW v \in Values, Behind(v, {n})
    PROVE  Ahead(v, Edges(n, v))
<1> USE EdgesOf DEF Behind, Ahead, Drafting, Analysis
<1>1. CASE n = "START"
  BY <1>1
<1>2. CASE n = "intake"
  BY <1>2 DEF AfterIntake
<1>3. CASE n = "triage_gate"
  BY <1>3 DEF AfterTriage, Kept
<1>4. CASE n = "knowledge" \/ n = "architecture"
  BY <1>4 DEF DownstreamEntry
<1>5. CASE n = "rca"
  <2>1. CASE Edges(n, v) = {"human_review"}
    BY <2>1
  <2>2. CASE Edges(n, v) = {"recommendation"} /\ Confident(v)
    BY <1>5, <2>2
  <2> QED
    BY <1>5, <2>1, <2>2 DEF AfterRca, Confidence, Confident
<1>6. CASE n = "recommendation"
  BY <1>6 DEF AfterRecommendation
<1>7. CASE n = "communication" \/ n = "human_review"
  BY <1>7
<1> QED
  BY <1>1, <1>2, <1>3, <1>4, <1>5, <1>6, <1>7, WiredNodes DEF Node, Optional

(***************************************************************************)
(* Node n, given what it relies on, leaves what is said of it behind, and  *)
(* touches nothing else.                                                   *)
(***************************************************************************)
LEMMA NodeStep ==
    ASSUME NEW n \in Node, NEW v \in Values, Ahead(v, {n}),
           v.recommendations => Kept(v) /\ Confident(v),
           ~v.incident => ~v.recommendations,
           NEW w \in After(n, v)
    PROVE  /\ w \in Values
           /\ Behind(w, {n})
           /\ w.incident = v.incident
           /\ w.human_decision = v.human_decision
           /\ \/ w.status = v.status
              \/ w.status = "triaged"
              \/ n = "human_review" /\ w.status = OutcomeOf(v.human_decision)
<1> USE AfterOf DEF Behind, Ahead, Drafting, Analysis
<1>1. CASE n = "intake"
  BY <1>1, IntakeOutcome
<1>2. CASE n = "triage_gate"
  <2>1. w = [v EXCEPT !.status = "triaged"]
    BY <1>2 DEF TriageGateNode
  <2>2. /\ w \in Values
        /\ w.status = "triaged"
        /\ w.incident = v.incident
        /\ w.human_decision = v.human_decision
        /\ w.intake_failed = v.intake_failed
        /\ w.recommendations = v.recommendations
    BY <2>1 DEF Values
  <2> QED
    BY <1>2, <2>2, StatusDistinct
<1>3. CASE n = "rca"
  BY <1>3, RcaOutcome DEF Kept
<1>4. CASE n = "recommendation"
  BY <1>4, RecommendationOutcome DEF Kept, Confident
<1>5. CASE n = "human_review"
  <2>1. w = [v EXCEPT !.status = OutcomeOf(v.human_decision)]
    BY <1>5 DEF HumanReviewNode
  <2>2. /\ w \in Values
        /\ w.status = OutcomeOf(v.human_decision)
        /\ w.incident = v.incident
        /\ w.human_decision = v.human_decision
        /\ w.recommendations = v.recommendations
        /\ Kept(w) = Kept(v)
        /\ Confident(w) = Confident(v)
    BY <2>1, OutcomeType DEF Values, Kept, Confident
  <2> QED
    BY <1>5, <2>2, OutcomeType, StatusDistinct
<1>6. CASE n \in {"knowledge", "architecture", "communication"}
  BY <1>6
<1> QED
  BY <1>1, <1>2, <1>3, <1>4, <1>5, <1>6, WiredNodes DEF Node, Optional

LEMMA SuperstepSound ==
    ASSUME NEW c \in Checkpoint, Sound(c), c.next # {}, NEW d \in Superstep(c)
    PROVE  /\ d \in Checkpoint
           /\ Sound(d)
           /\ d.last # {}
           /\ d.values.incident = c.values.incident
           /\ d.values.human_decision = c.values.human_decision
           /\ \/ d.values.status = c.values.status
              \/ d.values.status = "triaged"
              \/ /\ "human_review" \in c.next
                 /\ d.values.status = OutcomeOf(c.values.human_decision)
<1>0. /\ c.values \in Values
      /\ c.next \subseteq Node
      /\ Ahead(c.values, c.next)
      /\ c.values.recommendations => Kept(c.values) /\ Confident(c.values)
      /\ ~c.values.incident => ~c.values.recommendations
  BY DEF Checkpoint, Sound, Behind
<1>1. PICK w \in UNION {After(n, c.values) : n \in c.next} :
          d = [values |-> w, next |-> UNION {Edges(n, w) : n \in c.next},
               last |-> c.next]
  BY DEF Superstep
<1>2. d.values = w /\ d.last = c.next /\ d.next = UNION {Edges(n, w) : n \in c.next}
  BY <1>1
<1>3. CASE \E n \in Node : c.next = {n}
  <2>1. PICK n \in Node : c.next = {n}
    BY <1>3
  <2>2. w \in After(n, c.values)
    BY <1>1, <2>1
  <2>3. d.next = Edges(n, w)
    BY <1>2, <2>1
  <2>4. /\ w \in Values
        /\ Behind(w, {n})
        /\ w.incident = c.values.incident
        /\ w.human_decision = c.values.human_decision
        /\ \/ w.status = c.values.status
           \/ w.status = "triaged"
           \/ n = "human_review" /\ w.status = OutcomeOf(c.values.human_decision)
    BY <1>0, <2>1, <2>2, NodeStep
  <2>5. Ahead(w, d.next)
    BY <2>3, <2>4, Routing
  <2>6. d.next \subseteq Node /\ Shape(d.next)
    BY <2>3, <2>4, EdgesType DEF Shape
  <2>7. Finished(d)
    BY <1>2, <2>1, <2>3, <2>4, EdgesType DEF Finished, Behind
  <2>8. d \in Checkpoint
    BY <1>0, <1>1, <2>4, <2>6, <1>2 DEF Checkpoint
  <2> QED
    BY <1>2, <2>1, <2>4, <2>5, <2>6, <2>7, <2>8 DEF Sound
<1>4. CASE c.next = {"knowledge", "architecture"}
  <2>1. w = c.values
    BY <1>1, <1>4, AfterOf
  <2>2. d.next = DownstreamEntry
    BY <1>2, <1>4, EdgesOf
  <2>3. d \in Checkpoint
    BY <1>0, <1>1, <1>2, <2>1, <2>2, WiredNodes DEF Checkpoint, DownstreamEntry, Node
  <2>4. Kept(w) /\ ~w.recommendations /\ w.incident
    BY <1>0, <1>4, <2>1 DEF Ahead, Analysis, Drafting
  <2>5. Shape(d.next) /\ Finished(d)
    BY <2>2 DEF Shape, Finished, DownstreamEntry, Node
  <2>6. Ahead(w, d.next)
    BY <2>2, <2>4 DEF Ahead, DownstreamEntry
  <2>7. Behind(w, d.last)
    BY <1>2, <1>4, <2>4 DEF Behind
  <2> QED
    BY <1>2, <1>4, <2>1, <2>3, <2>5, <2>6, <2>7 DEF Sound
<1> QED
  BY <1>3, <1>4 DEF Sound, Shape

(***************************************************************************)
(* The checkpoint aupdate_state saves is sound: it routes from the one     *)
(* node that ran last.                                                     *)
(***************************************************************************)
LEMMA UpdateSound ==
    ASSUME NEW c \in Checkpoint, Sound(c), ~Ambiguous(c), NEW e \in Decision, NEW v, NEW d,
           v = [c.values EXCEPT !.human_decision = e],
           d = [values |-> v, next |-> Edges(AsNode(c), v), last |-> c.last]
    PROVE  /\ d \in Checkpoint
           /\ Sound(d)
           /\ v.human_decision = e
           /\ v.incident = c.values.incident
           /\ v.status = c.values.status
<1>0. c.values \in Values /\ c.last \subseteq Node \cup {"START"}
  BY DEF Checkpoint
<1>1. v \in Values
  BY <1>0 DEF Values
<1>2. /\ v.human_decision = e
      /\ v.incident = c.values.incident
      /\ v.status = c.values.status
      /\ v.recommendations = c.values.recommendations
      /\ v.intake_failed = c.values.intake_failed
      /\ v.rca_confidence = c.values.rca_confidence
      /\ Kept(v) = Kept(c.values)
      /\ Confident(v) = Confident(c.values)
  BY <1>0 DEF Values, Kept, Confident
<1>3. Behind(v, c.last)
  BY <1>2 DEF Sound, Behind
<1>4. PICK n \in Node \cup {"START"} :
          /\ n = AsNode(c)
          /\ \/ c.last = {} /\ n = "START"
             \/ c.last = {n}
  <2>1. CASE c.last = {}
    BY <2>1 DEF AsNode
  <2>2. CASE c.last # {}
    <3>1. AsNode(c) \in c.last
      BY <2>2 DEF AsNode
    <3>2. \A m \in c.last : m = AsNode(c)
      BY <3>1 DEF Ambiguous
    <3> QED
      BY <1>0, <3>1, <3>2
  <2> QED
    BY <2>1, <2>2
<1>5. d.values = v /\ d.next = Edges(n, v) /\ d.last = c.last
  BY <1>4
<1>6. Behind(v, {n})
  BY <1>3, <1>4 DEF Behind, Drafting, Analysis
<1>7. Ahead(v, d.next)
  BY <1>1, <1>5, <1>6, Routing
<1>8. d.next \subseteq Node /\ Shape(d.next)
  BY <1>1, <1>5, EdgesType DEF Shape
<1>9. Finished(d)
  BY <1>1, <1>4, <1>5, <1>6, EdgesType DEF Finished, Behind
<1>10. d \in Checkpoint
  BY <1>0, <1>1, <1>4, <1>8, <1>5 DEF Checkpoint
<1> QED
  BY <1>2, <1>3, <1>5, <1>7, <1>8, <1>9, <1>10 DEF Sound

----------------------------------------------------------------------------
(***************************************************************************)
(* The first invariant is preserved: one step per action.                  *)
(***************************************************************************)
LEMMA InitCInv == Init => CInv
<1> SUFFICES ASSUME Init PROVE CInv
  OBVIOUS
<1>1. NoCheckpoint \in Checkpoint
  BY DEF NoCheckpoint, Checkpoint, BlankValues, Values
<1>2. Sound(NoCheckpoint) /\ ~NoCheckpoint.values.incident
  BY DEF NoCheckpoint, BlankValues, Sound, Shape, Behind, Ahead, Finished
<1>3. TypeOK
  BY <1>1 DEF Init, TypeOK, Status
<1> QED
  BY <1>2, <1>3 DEF Init, CInv, Checkpoints, Unstarted, Decided, Handler

\* The checkpoint the input of start makes.
LEMMA StartSound ==
    ASSUME NEW c \in Checkpoint, Sound(c), ~c.values.incident, NEW d,
           d = [values |-> [c.values EXCEPT !.incident = TRUE],
                next |-> {"intake"}, last |-> {"START"}]
    PROVE  d \in Checkpoint /\ Sound(d) /\ d.values.status = c.values.status
<1>0. c.values \in Values /\ ~c.values.recommendations
  BY DEF Checkpoint, Sound, Behind
<1>1. PICK v : v = [c.values EXCEPT !.incident = TRUE]
  OBVIOUS
<1>2. v \in Values /\ ~v.recommendations /\ v.status = c.values.status
  BY <1>0, <1>1 DEF Values
<1>3. d.values = v /\ d.next = {"intake"} /\ d.last = {"START"}
  BY <1>1
<1>4. d \in Checkpoint
  BY <1>1, <1>2 DEF Checkpoint, Node
<1>5. v.incident
  BY <1>0, <1>1 DEF Values
<1>6. Behind(v, {"START"}) /\ Ahead(v, {"intake"})
  BY <1>2, <1>5 DEF Behind, Ahead, Analysis, Drafting
<1> QED
  BY <1>2, <1>3, <1>4, <1>6 DEF Sound, Shape, Finished, Node

LEMMA CStep == CInv /\ [Next]_vars => CInv'
<1> SUFFICES ASSUME CInv, [Next]_vars PROVE CInv'
  OBVIOUS
<1> USE ServiceAssumption DEF Handler
<1>0. TypeOK /\ Checkpoints /\ Unstarted /\ Decided
  BY DEF CInv
<1>1. CASE CreateInvestigation
  <2>1. TypeOK'
    BY <1>0, <1>1 DEF TypeOK, CreateInvestigation, Goto, Busy, Status
  <2>2. Checkpoints' /\ Unstarted' /\ Decided'
    BY <1>0, <1>1 DEF Checkpoints, Unstarted, Decided, CreateInvestigation, Goto, TypeOK
  <2> QED
    BY <2>1, <2>2 DEF CInv
<1>2. CASE StartWorkflow
  <2>1. thread' \in Checkpoint /\ Sound(thread')
    BY <1>0, <1>2, StartSound
    DEF StartWorkflow, Goto, TypeOK, Checkpoints, Unstarted
  <2>2. mem' = [mem EXCEPT ![Starter] = thread'] /\ at' = [at EXCEPT ![Starter] = "running"]
    BY <1>2 DEF StartWorkflow, Goto
  <2>3. TypeOK'
    BY <1>0, <1>2, <2>1, <2>2 DEF TypeOK, StartWorkflow, Busy
  <2>4. Checkpoints' /\ Unstarted' /\ Decided'
    BY <1>0, <1>2, <2>1, <2>2 DEF Checkpoints, Unstarted, Decided, TypeOK, StartWorkflow
  <2> QED
    BY <2>3, <2>4 DEF CInv
<1>3. ASSUME NEW a \in Approver, RecordApproval(a) PROVE CInv'
  <2>1. TypeOK'
    BY <1>0, <1>3 DEF TypeOK, RecordApproval, Goto, Busy
  <2>2. Checkpoints' /\ Unstarted' /\ Decided'
    BY <1>0, <1>3
    DEF Checkpoints, Unstarted, Decided, RecordApproval, Goto, TypeOK, Decision, Unset
  <2> QED
    BY <2>1, <2>2 DEF CInv
<1>4. ASSUME NEW a \in Approver, LoadForUpdate(a) PROVE CInv'
  <2>1. TypeOK'
    BY <1>0, <1>4 DEF TypeOK, LoadForUpdate, Goto, Busy
  <2>2. Checkpoints' /\ Unstarted' /\ Decided'
    BY <1>0, <1>4 DEF Checkpoints, Unstarted, Decided, LoadForUpdate, Goto, TypeOK
  <2> QED
    BY <2>1, <2>2 DEF CInv
<1>5. ASSUME NEW a \in Approver, ~Ambiguous(mem[a]), SaveUpdate(a) PROVE CInv'
  <2>1. PICK v : /\ v = [mem[a].values EXCEPT !.human_decision = decided[a]]
                 /\ thread' = [values |-> v, next |-> Edges(AsNode(mem[a]), v),
                               last |-> mem[a].last]
    BY <1>5 DEF SaveUpdate
  <2>2. /\ thread' \in Checkpoint
        /\ Sound(thread')
        /\ thread'.values.incident = mem[a].values.incident
    <3>1. mem[a] \in Checkpoint /\ Sound(mem[a]) /\ ~Ambiguous(mem[a])
      BY <1>0, <1>5 DEF TypeOK, Checkpoints, SaveUpdate
    <3>2. thread'.values = v
      BY <2>1
    <3>3. decided[a] \in Decision
      BY <1>0, <1>5 DEF Decided, TypeOK, SaveUpdate, Goto
    <3> QED
      BY <2>1, <3>1, <3>2, <3>3, UpdateSound
  <2>3. TypeOK'
    BY <1>0, <1>5, <2>2 DEF TypeOK, SaveUpdate, Goto, Busy
  <2>4. Checkpoints' /\ Unstarted' /\ Decided'
    BY <1>0, <1>5, <2>2 DEF Checkpoints, Unstarted, Decided, SaveUpdate, Goto, TypeOK
  <2> QED
    BY <2>3, <2>4 DEF CInv
<1>6. ASSUME NEW a \in Approver, RefuseUpdate(a) PROVE CInv'
  <2>1. TypeOK'
    BY <1>0, <1>6 DEF TypeOK, RefuseUpdate, Goto, Over
  <2>2. Checkpoints' /\ Unstarted' /\ Decided'
    BY <1>0, <1>6 DEF Checkpoints, Unstarted, Decided, RefuseUpdate, Goto, TypeOK
  <2> QED
    BY <2>1, <2>2 DEF CInv
<1>7. ASSUME NEW a \in Approver, Resume(a) PROVE CInv'
  <2>1. TypeOK'
    BY <1>0, <1>7 DEF TypeOK, Resume, Goto, Busy
  <2>2. Checkpoints' /\ Unstarted' /\ Decided'
    BY <1>0, <1>7 DEF Checkpoints, Unstarted, Decided, Resume, Goto, TypeOK
  <2> QED
    BY <2>1, <2>2 DEF CInv
<1>8. ASSUME NEW h \in Handler, RunStep(h) PROVE CInv'
  <2>1. PICK c \in Superstep(mem[h]) :
            thread' = c /\ mem' = [mem EXCEPT ![h] = c]
    BY <1>8 DEF RunStep
  <2>2. mem[h] \in Checkpoint /\ Sound(mem[h]) /\ mem[h].next # {}
    BY <1>0, <1>8 DEF TypeOK, Checkpoints, RunStep, RunOver
  <2>3. /\ c \in Checkpoint
        /\ Sound(c)
        /\ c.values.incident = mem[h].values.incident
    BY <2>1, <2>2, SuperstepSound
  <2>4. TypeOK'
    BY <1>0, <1>8, <2>1, <2>3 DEF TypeOK, RunStep
  <2>5. Checkpoints' /\ Unstarted' /\ Decided'
    BY <1>0, <1>8, <2>1, <2>3 DEF Checkpoints, Unstarted, Decided, RunStep, TypeOK
  <2> QED
    BY <2>4, <2>5 DEF CInv
<1>9. ASSUME NEW h \in Handler, GetState(h) PROVE CInv'
  <2>1. StatusOf(thread) \in Status
    BY <1>0, StatusType DEF TypeOK
  <2>2. TypeOK'
    BY <1>0, <1>9, <2>1 DEF TypeOK, GetState, Goto, Busy
  <2>3. Checkpoints' /\ Unstarted' /\ Decided'
    BY <1>0, <1>9 DEF Checkpoints, Unstarted, Decided, GetState, Goto, TypeOK
  <2> QED
    BY <2>2, <2>3 DEF CInv
<1>10. ASSUME NEW h \in Handler, SetStatus(h) PROVE CInv'
  <2>1. TypeOK'
    BY <1>0, <1>10 DEF TypeOK, SetStatus, Goto, Over
  <2>2. Checkpoints' /\ Unstarted' /\ Decided'
    BY <1>0, <1>10 DEF Checkpoints, Unstarted, Decided, SetStatus, Goto, TypeOK
  <2> QED
    BY <2>1, <2>2 DEF CInv
<1>11. ASSUME NEW h \in Handler, Crash(h) PROVE CInv'
  <2>1. TypeOK'
    BY <1>0, <1>11 DEF TypeOK, Crash, Over
  <2>2. Checkpoints' /\ Unstarted' /\ Decided'
    BY <1>0, <1>11 DEF Checkpoints, Unstarted, Decided, Crash, TypeOK, Busy
  <2> QED
    BY <2>1, <2>2 DEF CInv
<1>12. CASE UNCHANGED vars
  BY <1>0, <1>12 DEF vars, CInv, TypeOK, Checkpoints, Unstarted, Decided
<1> QED
  BY <1>1, <1>2, <1>3, <1>4, <1>5, <1>6, <1>7, <1>8, <1>9, <1>10, <1>11, <1>12
  DEF Next, ApproverStep, UpdateState, Progress, Idle

(***************************************************************************)
(* Type correctness, for any number of approvers, whenever they call, and  *)
(* for every set of optional agents a graph compiles with.                 *)
(***************************************************************************)
THEOREM ServiceTypeCorrect == Spec => []TypeOK
<1>1. CInv => TypeOK
  BY DEF CInv
<1> QED
  BY <1>1, InitCInv, CStep, PTL DEF Spec

(***************************************************************************)
(* The confidence gate: no recommendations for a failed or dropped intake  *)
(* or a root cause of low confidence, whoever resumes the graph and from   *)
(* whichever checkpoint.                                                   *)
(***************************************************************************)
THEOREM ConfidenceGate == Spec => []RecommendationsGated
<1>1. CInv => RecommendationsGated
  BY DEF CInv, Checkpoints, Sound, Behind, Kept, Confident, RecommendationsGated
<1> QED
  BY <1>1, InitCInv, CStep, PTL DEF Spec

----------------------------------------------------------------------------
(***************************************************************************)
(* The second invariant is preserved while approvers wait to be asked: one *)
(* step per action, and under it one per conjunct.                         *)
(***************************************************************************)
LEMMA InitBInv == Init => BInv
<1> SUFFICES ASSUME Init PROVE BInv
  OBVIOUS
<1> QED
  BY ServiceAssumption
  DEF Init, BInv, Turns, Ran, Carries, AllBacked, BackedIn, NoCheckpoint, BlankValues,
      Handler, Outcome, Unset

LEMMA BStep ==
    ASSUME Review # "anytime", CInv, BInv, [Next]_vars
    PROVE  BInv'
<1> USE ServiceAssumption DEF Handler
<1>0. TypeOK /\ Checkpoints /\ Decided /\ Turns /\ Ran /\ Carries /\ AllBacked
  BY DEF CInv, BInv
<1>1. CASE CreateInvestigation
  <2>1. /\ at[Starter] = "idle"
        /\ at' = [at EXCEPT ![Starter] = "committed"]
        /\ row' = "running"
        /\ UNCHANGED <<thread, mem, fresh, said, decided>>
    BY <1>1 DEF CreateInvestigation, Goto
  <2>2. \A a \in Approver : at[a] = "idle" /\ at'[a] = "idle"
    BY <1>0, <2>1 DEF Turns, TypeOK
  <2>3. Turns'
    BY <1>0, <2>1, <2>2 DEF Turns, TypeOK
  <2>4. Ran' /\ Carries'
    BY <1>0, <2>1, <2>2 DEF Ran, Carries, TypeOK
  <2>5. AllBacked'
    BY <1>0, <2>1, <2>2 DEF AllBacked, BackedIn, Backed, TypeOK, Outcome
  <2> QED
    BY <2>3, <2>4, <2>5 DEF BInv
<1>2. CASE StartWorkflow
  <2>1. /\ at[Starter] = "committed"
        /\ at' = [at EXCEPT ![Starter] = "running"]
        /\ mem' = [mem EXCEPT ![Starter] = thread']
        /\ thread' = [values |-> [thread.values EXCEPT !.incident = TRUE],
                      next |-> {"intake"}, last |-> {"START"}]
        /\ UNCHANGED <<fresh, said, decided, row>>
    BY <1>2 DEF StartWorkflow, Goto
  <2>2. \A a \in Approver : at[a] = "idle" /\ at'[a] = "idle"
    BY <1>0, <2>1 DEF Turns, TypeOK
  <2>3. /\ thread'.last # {}
        /\ thread'.values.status = thread.values.status
    BY <1>0, <2>1 DEF TypeOK, Checkpoint, Values
  <2>4. Turns'
    BY <1>0, <2>1, <2>2 DEF Turns, TypeOK
  <2>5. Ran' /\ Carries'
    BY <1>0, <2>1, <2>2, <2>3 DEF Ran, Carries, TypeOK
  <2>6. AllBacked'
    <3>1. BackedIn(thread)'
      BY <1>0, <2>1, <2>3 DEF AllBacked, BackedIn, Backed
    <3> QED
      BY <1>0, <2>1, <2>2, <3>1 DEF AllBacked, BackedIn, Backed, TypeOK
  <2> QED
    BY <2>4, <2>5, <2>6 DEF BInv
<1>3. ASSUME NEW a \in Approver, RecordApproval(a) PROVE BInv'
  <2>1. PICK d \in Decision : decided' = [decided EXCEPT ![a] = d]
    BY <1>3 DEF RecordApproval
  <2>2. /\ at[a] = "idle"
        /\ at' = [at EXCEPT ![a] = "committed"]
        /\ row \in {"awaiting_approval", "escalated"}
        /\ UNCHANGED <<thread, mem, fresh, said, row>>
    BY <1>3 DEF RecordApproval, Goto, Asked
  <2>3. at[Starter] = "done"
    BY <1>0, <2>2 DEF Turns
  <2>4. decided[a] = Unset /\ d # Unset
    BY <1>0, <2>2 DEF Decided, Decision, Unset
  <2>5. \A s : Backed(s) => Backed(s)'
    BY <1>0, <2>1, <2>4 DEF Backed, TypeOK
  <2>6. \A v : Recorded(v) => \E b \in Approver :
                 decided'[b] # Unset /\ decided'[b] = v.human_decision
    BY <1>0, <2>1, <2>4 DEF Recorded, TypeOK
  <2>7. Turns' /\ Ran'
    BY <1>0, <2>2, <2>3 DEF Turns, Ran, TypeOK
  <2>8. Carries'
    BY <1>0, <2>2, <2>6 DEF Carries, Recorded, TypeOK
  <2>9. AllBacked'
    BY <1>0, <2>2, <2>3, <2>5 DEF AllBacked, BackedIn, TypeOK
  <2> QED
    BY <2>7, <2>8, <2>9 DEF BInv
<1>4. ASSUME NEW a \in Approver, LoadForUpdate(a) PROVE BInv'
  <2>1. /\ at[a] = "committed"
        /\ at' = [at EXCEPT ![a] = "updating"]
        /\ mem' = [mem EXCEPT ![a] = thread]
        /\ UNCHANGED <<thread, fresh, said, decided, row>>
    BY <1>4 DEF LoadForUpdate, Goto
  <2>2. at[Starter] = "done"
    BY <1>0, <2>1 DEF Turns
  <2>3. Turns' /\ Ran'
    BY <1>0, <2>1, <2>2 DEF Turns, Ran, TypeOK
  <2>4. Carries'
    BY <1>0, <2>1 DEF Carries, Recorded, TypeOK
  <2>5. AllBacked'
    BY <1>0, <2>1, <2>2 DEF AllBacked, BackedIn, Backed, TypeOK
  <2> QED
    BY <2>3, <2>4, <2>5 DEF BInv
<1>5. ASSUME NEW a \in Approver, ~Ambiguous(mem[a]), SaveUpdate(a) PROVE BInv'
  <2>1. /\ at[a] = "updating"
        /\ at' = [at EXCEPT ![a] = "updated"]
        /\ UNCHANGED <<mem, fresh, said, decided, row>>
    BY <1>5 DEF SaveUpdate, Goto
  <2>2. PICK v : /\ v = [mem[a].values EXCEPT !.human_decision = decided[a]]
                 /\ thread' = [values |-> v, next |-> Edges(AsNode(mem[a]), v),
                               last |-> mem[a].last]
    BY <1>5 DEF SaveUpdate
  <2>3. thread'.values = v /\ thread'.last = mem[a].last
    BY <2>2
  <2>4. v.human_decision = decided[a] /\ v.status = mem[a].values.status
    BY <1>0, <2>2 DEF TypeOK, Checkpoint, Values
  <2>5. at[Starter] = "done" /\ decided[a] # Unset
    BY <1>0, <2>1 DEF Turns, Decided
  <2>6. Turns' /\ Ran'
    BY <1>0, <2>1, <2>3, <2>5 DEF Turns, Ran, TypeOK
  <2>7. Carries'
    BY <1>0, <2>1, <2>3, <2>4, <2>5 DEF Carries, Recorded, TypeOK
  <2>8. AllBacked'
    BY <1>0, <2>1, <2>3, <2>4, <2>5 DEF AllBacked, BackedIn, Backed, TypeOK
  <2> QED
    BY <2>6, <2>7, <2>8 DEF BInv
<1>6. ASSUME NEW a \in Approver, RefuseUpdate(a) PROVE BInv'
  <2>1. /\ at[a] = "updating"
        /\ at' = [at EXCEPT ![a] = "refused"]
        /\ UNCHANGED <<thread, mem, fresh, said, decided, row>>
    BY <1>6 DEF RefuseUpdate, Goto
  <2>2. Turns' /\ Ran'
    BY <1>0, <2>1 DEF Turns, Ran, TypeOK
  <2>3. Carries'
    BY <1>0, <2>1 DEF Carries, Recorded, TypeOK
  <2>4. AllBacked'
    BY <1>0, <2>1 DEF AllBacked, BackedIn, Backed, TypeOK
  <2> QED
    BY <2>2, <2>3, <2>4 DEF BInv
<1>7. ASSUME NEW a \in Approver, Resume(a) PROVE BInv'
  <2>1. /\ at[a] = "updated"
        /\ at' = [at EXCEPT ![a] = "running"]
        /\ mem' = [mem EXCEPT ![a] = thread]
        /\ fresh' = [fresh EXCEPT ![a] = TRUE]
        /\ UNCHANGED <<thread, said, decided, row>>
    BY <1>7 DEF Resume, Goto
  <2>2. at[Starter] = "done"
    BY <1>0, <2>1 DEF Turns
  <2>3. Turns' /\ Ran'
    BY <1>0, <2>1, <2>2 DEF Turns, Ran, TypeOK
  <2>4. Carries'
    BY <1>0, <2>1 DEF Carries, Recorded, TypeOK
  <2>5. AllBacked'
    BY <1>0, <2>1, <2>2 DEF AllBacked, BackedIn, Backed, TypeOK
  <2> QED
    BY <2>3, <2>4, <2>5 DEF BInv
<1>8. ASSUME NEW h \in Handler, RunStep(h) PROVE BInv'
  <2>1. PICK c \in Superstep(mem[h]) :
            thread' = c /\ mem' = [mem EXCEPT ![h] = c]
    BY <1>8 DEF RunStep
  <2>2. /\ at[h] = "running"
        /\ fresh' = [fresh EXCEPT ![h] = FALSE]
        /\ UNCHANGED <<at, said, decided, row>>
        /\ "human_review" \in mem[h].next => fresh[h]
        /\ mem[h].next # {}
    BY <1>8 DEF RunStep, RunOver, Interrupted
  <2>3. mem[h] \in Checkpoint /\ Sound(mem[h])
    BY <1>0 DEF TypeOK, Checkpoints
  <2>4. /\ c.last # {}
        /\ c.values.human_decision = mem[h].values.human_decision
        /\ \/ c.values.status = mem[h].values.status
           \/ c.values.status = "triaged"
           \/ /\ "human_review" \in mem[h].next
              /\ c.values.status = OutcomeOf(mem[h].values.human_decision)
    BY <2>2, <2>3, SuperstepSound
  <2>5. BackedIn(c)
    <3>1. BackedIn(mem[h])
      BY <1>0, <2>2 DEF AllBacked
    <3>2. CASE "human_review" \in mem[h].next
      <4>1. h \in Approver
        BY <1>0, <2>2, <3>2 DEF Turns
      <4>2. Recorded(mem[h].values)
        BY <1>0, <2>2, <4>1 DEF Carries
      <4>3. Backed(OutcomeOf(mem[h].values.human_decision))
        BY <4>2 DEF Recorded, Backed
      <4> QED
        BY <2>4, <3>1, <4>3, StatusDistinct DEF BackedIn
    <3> QED
      BY <2>4, <3>1, <3>2, StatusDistinct DEF BackedIn
  <2>6. h = Starter => \A a \in Approver : at[a] = "idle"
    BY <1>0, <2>2 DEF Turns
  <2>7. Turns'
    BY <1>0, <2>2 DEF Turns, TypeOK
  <2>8. Ran'
    BY <1>0, <2>1, <2>2, <2>4 DEF Ran, TypeOK
  <2>9. Carries'
    BY <1>0, <2>1, <2>2, <2>4, <2>6 DEF Carries, Recorded, TypeOK
  <2>10. AllBacked'
    BY <1>0, <2>1, <2>2, <2>5 DEF AllBacked, BackedIn, Backed, TypeOK
  <2> QED
    BY <2>7, <2>8, <2>9, <2>10 DEF BInv
<1>9. ASSUME NEW h \in Handler, GetState(h) PROVE BInv'
  <2>1. /\ at[h] = "running"
        /\ at' = [at EXCEPT ![h] = "answered"]
        /\ said' = [said EXCEPT ![h] = StatusOf(thread)]
        /\ UNCHANGED <<thread, mem, fresh, decided, row>>
    BY <1>9 DEF GetState, Goto
  <2>2. thread.last # {}
    BY <1>0, <2>1 DEF Turns, Ran
  <2>3. StatusOf(thread) \in Outcome => Backed(StatusOf(thread))
    BY <1>0, <2>2, StatusFromThread DEF TypeOK, Checkpoints, AllBacked, BackedIn
  <2>4. Turns'
    BY <1>0, <2>1 DEF Turns, TypeOK
  <2>5. Ran' /\ Carries'
    BY <1>0, <2>1, <2>2 DEF Ran, Carries, Recorded, TypeOK
  <2>6. AllBacked'
    <3>1. \A s : Backed(s)' = Backed(s)
      BY <2>1 DEF Backed
    <3> QED
      BY <1>0, <2>1, <2>3, <3>1 DEF AllBacked, BackedIn, TypeOK
  <2> QED
    BY <2>4, <2>5, <2>6 DEF BInv
<1>10. ASSUME NEW h \in Handler, SetStatus(h) PROVE BInv'
  <2>1. /\ at[h] = "answered"
        /\ at' = [at EXCEPT ![h] = "done"]
        /\ row' = said[h]
        /\ UNCHANGED <<thread, mem, fresh, said, decided>>
    BY <1>10 DEF SetStatus, Goto
  <2>2. at'[Starter] = "done"
    BY <1>0, <2>1 DEF Turns, TypeOK
  <2>3. Turns' /\ Ran'
    BY <1>0, <2>1, <2>2 DEF Turns, Ran, TypeOK
  <2>4. Carries'
    BY <1>0, <2>1 DEF Carries, Recorded, TypeOK
  <2>5. AllBacked'
    BY <1>0, <2>1 DEF AllBacked, BackedIn, Backed, TypeOK
  <2> QED
    BY <2>3, <2>4, <2>5 DEF BInv
<1>11. ASSUME NEW h \in Handler, Crash(h) PROVE BInv'
  <2>1. /\ at[h] \in Busy
        /\ at' = [at EXCEPT ![h] = "crashed"]
        /\ UNCHANGED <<thread, mem, fresh, said, decided, row>>
    BY <1>11 DEF Crash
  <2>2. Turns'
    BY <1>0, <2>1 DEF Turns, TypeOK, Busy
  <2>3. Ran' /\ Carries'
    BY <1>0, <2>1 DEF Ran, Carries, Recorded, TypeOK, Busy
  <2>4. AllBacked'
    BY <1>0, <2>1 DEF AllBacked, BackedIn, Backed, TypeOK
  <2> QED
    BY <2>2, <2>3, <2>4 DEF BInv
<1>12. CASE UNCHANGED vars
  <2>1. UNCHANGED <<at, thread, mem, fresh, said, decided, row>>
    BY <1>12 DEF vars
  <2>2. Turns' /\ Ran' /\ Carries'
    BY <1>0, <2>1 DEF Turns, Ran, Carries, Recorded
  <2>3. AllBacked'
    BY <1>0, <2>1 DEF AllBacked, BackedIn, Backed
  <2> QED
    BY <2>2, <2>3 DEF BInv
<1> QED
  BY <1>1, <1>2, <1>3, <1>4, <1>5, <1>6, <1>7, <1>8, <1>9, <1>10, <1>11, <1>12
  DEF Next, ApproverStep, UpdateState, Progress, Idle

(***************************************************************************)
(* The decision gates the release: as long as approvers wait to be asked,  *)
(* neither the workflow nor the row has an outcome no recorded decision    *)
(* leads to, however many of them race and whatever crashes.               *)
(***************************************************************************)
THEOREM ReleaseGate ==
    ASSUME Review # "anytime"
    PROVE  Spec => []OutcomeBacked
<1>1. CInv /\ BInv => OutcomeBacked
  BY DEF BInv, AllBacked, BackedIn, OutcomeBacked
<1>2. Init => CInv /\ BInv
  BY InitCInv, InitBInv
<1>3. CInv /\ BInv /\ [Next]_vars => (CInv /\ BInv)'
  BY CStep, BStep
<1> QED
  BY <1>1, <1>2, <1>3, PTL DEF Spec

----------------------------------------------------------------------------
(***************************************************************************)
(* What routing leaves of a checkpoint: nothing after an outcome, the      *)
(* review after a failed intake, and nothing pending only after an outcome *)
(* or a drop.                                                              *)
(***************************************************************************)
LEMMA RoutedEnds ==
    ASSUME NEW c \in Checkpoint, Sound(c), Routed(c), c.last # {}
    PROVE  /\ c.values.status \in Outcome => c.next = {}
           /\ c.values.intake_failed => c.next \subseteq {"human_review"}
           /\ c.next = {} => \/ c.values.status \in Outcome
                             \/ c.values.recommended_triage = "drop"
<1>0. c.last \subseteq Node \cup {"START"} /\ c.values \in Values
  BY DEF Checkpoint
<1>1. c.next = UNION {Edges(n, c.values) : n \in c.last}
  BY DEF Routed
<1>2. ASSUME c.values.status \in Outcome PROVE c.next = {}
  BY <1>1, <1>2, EdgesOf DEF Routed
<1>3. ASSUME c.values.intake_failed, NEW n \in c.last
      PROVE  Edges(n, c.values) \subseteq {"human_review"}
  <2>1. n \in {"intake", "communication", "human_review"}
    BY <1>0, <1>3, WiredNodes
    DEF Routed, Sound, Behind, Kept, Analysis, Node, Optional
  <2> QED
    BY <1>3, <2>1, EdgesOf DEF AfterIntake
<1>4. ASSUME c.next = {}
      PROVE  c.values.status \in Outcome \/ c.values.recommended_triage = "drop"
  <2>1. PICK n \in c.last : Edges(n, c.values) = {}
    BY <1>1, <1>4
  <2>2. n = "human_review" \/ n = "triage_gate"
    BY <1>0, <2>1, EdgesType
  <2>3. n = "triage_gate" => c.values.recommended_triage = "drop"
    BY <2>1, EdgesOf DEF AfterTriage
  <2> QED
    BY <2>2, <2>3 DEF Routed
<1> QED
  BY <1>1, <1>2, <1>3, <1>4

\* A superstep's checkpoint is routed.
LEMMA SuperstepRouted ==
    ASSUME NEW c \in Checkpoint, Sound(c), Routed(c), c.last # {}, c.next # {},
           NEW d \in Superstep(c)
    PROVE  Routed(d)
<1>1. PICK w \in UNION {After(n, c.values) : n \in c.next} :
          d = [values |-> w, next |-> UNION {Edges(n, w) : n \in c.next},
               last |-> c.next]
  BY DEF Superstep
<1>2. d.values = w /\ d.last = c.next /\ d.next = UNION {Edges(n, w) : n \in c.next}
  BY <1>1
<1>3. c.values.status \notin Outcome
  BY RoutedEnds
<1>4. CASE "human_review" \in c.next
  <2>1. c.next = {"human_review"}
    BY <1>4 DEF Sound, Shape
  <2>2. w \in HumanReviewNode(c.values)
    BY <1>1, <2>1, AfterOf
  <2>3. w.status \in Outcome
    <3>1. c.values \in Values
      BY DEF Checkpoint
    <3>2. w = [c.values EXCEPT !.status = OutcomeOf(c.values.human_decision)]
      BY <2>2 DEF HumanReviewNode
    <3> QED
      BY <3>1, <3>2, OutcomeType DEF Values
  <2> QED
    BY <1>2, <2>1, <2>3 DEF Routed
<1>5. CASE "human_review" \notin c.next
  <2>1. d.values.status \notin Outcome
    BY <1>3, <1>5, SuperstepSound, StatusDistinct
  <2>2. "START" \notin c.next
    BY WiredNodes DEF Checkpoint, Node, Optional
  <2> QED
    BY <1>2, <1>5, <2>1, <2>2 DEF Routed
<1> QED
  BY <1>4, <1>5

\* The edges do not look at the decision, nor does the status.
LEMMA DecisionRoutesNothing ==
    ASSUME NEW v \in Values, NEW e \in Decision, NEW w,
           w = [v EXCEPT !.human_decision = e]
    PROVE  /\ w.status = v.status
           /\ w.intake_failed = v.intake_failed
           /\ \A n \in Node \cup {"START"} : Edges(n, w) = Edges(n, v)
<1>1. /\ w.status = v.status
      /\ w.intake_failed = v.intake_failed
      /\ w.recommended_triage = v.recommended_triage
      /\ w.rca_confidence = v.rca_confidence
  BY DEF Values
<1>2. AfterIntake(w) = AfterIntake(v) /\ AfterTriage(w) = AfterTriage(v) /\ AfterRca(w) = AfterRca(v)
  BY <1>1 DEF AfterIntake, AfterTriage, AfterRca
<1>3. ASSUME NEW n \in Node \cup {"START"} PROVE Edges(n, w) = Edges(n, v)
  BY <1>2, EdgesOf, WiredNodes DEF Node, Optional
<1> QED
  BY <1>1, <1>3

\* What aupdate_state saves is routed, and pending is what was pending.
LEMMA UpdateRouted ==
    ASSUME NEW c \in Checkpoint, Routed(c), c.last # {}, ~Ambiguous(c),
           NEW e \in Decision, NEW v, NEW d,
           v = [c.values EXCEPT !.human_decision = e],
           d.values = v, d.next = Edges(AsNode(c), v), d.last = c.last
    PROVE  /\ Routed(d)
           /\ d.next = c.next
           /\ d.values.status = c.values.status
           /\ StatusOf(d) = StatusOf(c)
<1>1. c.values \in Values /\ c.last \subseteq Node \cup {"START"}
  BY DEF Checkpoint
<1>2. PICK n \in c.last : n = AsNode(c) /\ c.last = {n}
  <2>1. AsNode(c) \in c.last
    BY DEF AsNode
  <2> QED
    BY <2>1 DEF Ambiguous
<1>3. /\ v.status = c.values.status
      /\ v.intake_failed = c.values.intake_failed
      /\ Edges(n, v) = Edges(n, c.values)
  BY <1>1, DecisionRoutesNothing
<1>4. c.next = Edges(n, c.values) /\ d.next = Edges(n, v)
  <2>1. c.next = UNION {Edges(m, c.values) : m \in c.last}
    BY DEF Routed
  <2>2. c.next = Edges(n, c.values)
    BY <1>2, <2>1
  <2>3. d.next = Edges(n, v)
    BY <1>2
  <2> QED
    BY <2>2, <2>3
<1>5. d.next = c.next
  BY <1>3, <1>4
<1>6. d.next = UNION {Edges(m, d.values) : m \in d.last}
  BY <1>2, <1>4
<1>7. Routed(d)
  BY <1>3, <1>6 DEF Routed
<1>8. StatusOf(d) = StatusOf(c)
  BY <1>3, <1>5 DEF StatusOf
<1> QED
  BY <1>3, <1>5, <1>7, <1>8

(***************************************************************************)
(* The third invariant is preserved.                                       *)
(***************************************************************************)
LEMMA InitRInv == Init => RInv
<1>1. Routed(NoCheckpoint)
  BY DEF Routed, NoCheckpoint, BlankValues, Outcome, Unset
<1> QED
  BY <1>1 DEF Init, RInv

LEMMA RStep ==
    ASSUME Review # "anytime", CInv, BInv, RInv, [Next]_vars
    PROVE  RInv'
<1> USE ServiceAssumption DEF Handler
<1>0. /\ TypeOK /\ Checkpoints /\ Decided /\ Turns /\ Ran
      /\ at[Starter] \in {"idle", "committed"} => thread = NoCheckpoint
      /\ thread.last = {} => thread = NoCheckpoint
      /\ Routed(thread) /\ \A h \in Handler : Routed(mem[h])
  BY DEF CInv, BInv, RInv
<1>1. CASE CreateInvestigation
  BY <1>0, <1>1 DEF CreateInvestigation, Goto, TypeOK, RInv
<1>2. CASE StartWorkflow
  <2>1. PICK v : /\ v = [thread.values EXCEPT !.incident = TRUE]
                 /\ thread' = [values |-> v, next |-> {"intake"}, last |-> {"START"}]
    BY <1>2 DEF StartWorkflow
  <2>2. /\ at' = [at EXCEPT ![Starter] = "running"]
        /\ mem' = [mem EXCEPT ![Starter] = thread']
        /\ thread = NoCheckpoint
    BY <1>0, <1>2 DEF StartWorkflow, Goto
  <2>3. v.status = Unset /\ ~v.intake_failed
    BY <2>1, <2>2 DEF NoCheckpoint, BlankValues
  <2>4. thread'.values = v /\ thread'.next = {"intake"} /\ thread'.last = {"START"}
    BY <2>1
  <2>5. Routed(thread')
    BY <2>3, <2>4, EdgesOf, StatusDistinct DEF Routed
  <2> QED
    BY <1>0, <2>2, <2>4, <2>5 DEF RInv, TypeOK
<1>3. ASSUME NEW a \in Approver, RecordApproval(a) PROVE RInv'
  BY <1>0, <1>3 DEF RecordApproval, Goto, TypeOK, RInv
<1>4. ASSUME NEW a \in Approver, LoadForUpdate(a) PROVE RInv'
  BY <1>0, <1>4 DEF LoadForUpdate, Goto, TypeOK, RInv
<1>5. ASSUME NEW a \in Approver, ~Ambiguous(mem[a]), SaveUpdate(a) PROVE RInv'
  <2>1. PICK v : /\ v = [mem[a].values EXCEPT !.human_decision = decided[a]]
                 /\ thread' = [values |-> v, next |-> Edges(AsNode(mem[a]), v),
                               last |-> mem[a].last]
    BY <1>5 DEF SaveUpdate
  <2>2. /\ at[a] = "updating" /\ at' = [at EXCEPT ![a] = "updated"] /\ mem' = mem
    BY <1>5 DEF SaveUpdate, Goto
  <2>3. /\ decided[a] \in Decision
        /\ mem[a] \in Checkpoint /\ Routed(mem[a]) /\ mem[a].last # {}
        /\ at[Starter] = "done"
    BY <1>0, <2>2 DEF Decided, TypeOK, Ran, Turns
  <2>4. /\ thread'.values = v
        /\ thread'.next = Edges(AsNode(mem[a]), v)
        /\ thread'.last = mem[a].last
    BY <2>1
  <2>5. Routed(thread')
    BY <1>5, <2>1, <2>3, <2>4, UpdateRouted
  <2> QED
    BY <1>0, <2>2, <2>3, <2>4, <2>5 DEF RInv, TypeOK
<1>6. ASSUME NEW a \in Approver, RefuseUpdate(a) PROVE RInv'
  BY <1>0, <1>6 DEF RefuseUpdate, Goto, TypeOK, RInv
<1>7. ASSUME NEW a \in Approver, Resume(a) PROVE RInv'
  BY <1>0, <1>7 DEF Resume, Goto, TypeOK, RInv
<1>8. ASSUME NEW h \in Handler, RunStep(h) PROVE RInv'
  <2>1. PICK c \in Superstep(mem[h]) :
            thread' = c /\ mem' = [mem EXCEPT ![h] = c]
    BY <1>8 DEF RunStep
  <2>2. at[h] = "running" /\ at' = at /\ mem[h].next # {}
    BY <1>8 DEF RunStep, RunOver
  <2>3. mem[h] \in Checkpoint /\ Sound(mem[h]) /\ Routed(mem[h]) /\ mem[h].last # {}
    BY <1>0, <2>2 DEF TypeOK, Checkpoints, Ran
  <2>4. Routed(c)
    BY <2>2, <2>3, SuperstepRouted
  <2>5. at[Starter] \notin {"idle", "committed"}
    BY <1>0, <2>2 DEF Turns
  <2>6. c.last # {}
    BY <2>2, <2>3, SuperstepSound
  <2> QED
    BY <1>0, <2>1, <2>2, <2>4, <2>5, <2>6 DEF RInv, TypeOK
<1>9. ASSUME NEW h \in Handler, GetState(h) PROVE RInv'
  BY <1>0, <1>9 DEF GetState, Goto, TypeOK, RInv
<1>10. ASSUME NEW h \in Handler, SetStatus(h) PROVE RInv'
  BY <1>0, <1>10 DEF SetStatus, Goto, TypeOK, RInv
<1>11. ASSUME NEW h \in Handler, Crash(h) PROVE RInv'
  BY <1>0, <1>11 DEF Crash, TypeOK, RInv
<1>12. CASE UNCHANGED vars
  BY <1>0, <1>12 DEF vars, RInv
<1> QED
  BY <1>1, <1>2, <1>3, <1>4, <1>5, <1>6, <1>7, <1>8, <1>9, <1>10, <1>11, <1>12
  DEF Next, ApproverStep, UpdateState, Progress, Idle

\* The three together.
LEMMA InitService == Init => CInv /\ BInv /\ RInv
BY InitCInv, InitBInv, InitRInv

LEMMA ServiceStep ==
    ASSUME Review # "anytime"
    PROVE  CInv /\ BInv /\ RInv /\ [Next]_vars => (CInv /\ BInv /\ RInv)'
BY CStep, BStep, RStep

----------------------------------------------------------------------------
(***************************************************************************)
(* The fourth invariant is preserved: one step per action.                 *)
(***************************************************************************)
LEMMA InitPInv == Init => PInv
BY ServiceAssumption DEF Init, PInv, Handler

LEMMA PStep ==
    ASSUME Review # "anytime", CInv, BInv, RInv, PInv, [Next]_vars
    PROVE  PInv'
<1> USE ServiceAssumption DEF Handler
<1>0. /\ TypeOK /\ Checkpoints /\ Decided /\ Turns /\ Ran
      /\ Routed(thread) /\ \A h \in Handler : Routed(mem[h])
      /\ at[Starter] = "running" => mem[Starter] = thread
      /\ at[Starter] \in {"answered", "done"} =>
             /\ Paused(thread)
             /\ \A a \in Approver : at[a] \in {"updating", "running"} => Paused(mem[a])
  BY DEF CInv, BInv, RInv, PInv
<1>1. CASE CreateInvestigation
  BY <1>0, <1>1 DEF CreateInvestigation, Goto, TypeOK, PInv
<1>2. CASE StartWorkflow
  BY <1>0, <1>2 DEF StartWorkflow, Goto, TypeOK, PInv
<1>3. ASSUME NEW a \in Approver, RecordApproval(a) PROVE PInv'
  BY <1>0, <1>3 DEF RecordApproval, Goto, TypeOK, PInv
<1>4. ASSUME NEW a \in Approver, LoadForUpdate(a) PROVE PInv'
  BY <1>0, <1>4 DEF LoadForUpdate, Goto, TypeOK, PInv
<1>5. ASSUME NEW a \in Approver, ~Ambiguous(mem[a]), SaveUpdate(a) PROVE PInv'
  <2>1. /\ at[a] = "updating"
        /\ at' = [at EXCEPT ![a] = "updated"]
        /\ UNCHANGED mem
    BY <1>5 DEF SaveUpdate, Goto
  <2>2. PICK v : /\ v = [mem[a].values EXCEPT !.human_decision = decided[a]]
                 /\ thread' = [values |-> v, next |-> Edges(AsNode(mem[a]), v),
                               last |-> mem[a].last]
    BY <1>5 DEF SaveUpdate
  <2>3. /\ decided[a] \in Decision
        /\ mem[a] \in Checkpoint /\ Routed(mem[a]) /\ mem[a].last # {}
        /\ at[Starter] = "done"
    BY <1>0, <2>1 DEF Decided, TypeOK, Ran, Turns
  <2>4. thread'.next = mem[a].next
    BY <1>5, <2>2, <2>3, UpdateRouted
  <2> QED
    BY <1>0, <2>1, <2>3, <2>4 DEF PInv, Paused, TypeOK
<1>6. ASSUME NEW a \in Approver, RefuseUpdate(a) PROVE PInv'
  BY <1>0, <1>6 DEF RefuseUpdate, Goto, TypeOK, PInv
<1>7. ASSUME NEW a \in Approver, Resume(a) PROVE PInv'
  BY <1>0, <1>7 DEF Resume, Goto, TypeOK, PInv
<1>8. ASSUME NEW h \in Handler, RunStep(h) PROVE PInv'
  <2>1. PICK c \in Superstep(mem[h]) :
            thread' = c /\ mem' = [mem EXCEPT ![h] = c]
    BY <1>8 DEF RunStep
  <2>2. /\ at[h] = "running"
        /\ UNCHANGED at
        /\ mem[h].next # {}
    BY <1>8 DEF RunStep, RunOver
  <2>3. CASE h = Starter
    BY <1>0, <2>1, <2>2, <2>3 DEF TypeOK, PInv
  <2>4. CASE h # Starter
    <3>1. at[Starter] = "done" /\ mem[h].next = {"human_review"}
      BY <1>0, <2>2, <2>4 DEF Turns, Paused
    <3>2. mem[h] \in Checkpoint /\ Sound(mem[h]) /\ Routed(mem[h]) /\ mem[h].last # {}
      BY <1>0, <2>2, <2>4 DEF TypeOK, Checkpoints, Ran
    <3>3. Routed(c) /\ c \in Checkpoint /\ Sound(c) /\ c.last # {} /\ c.last = mem[h].next
      BY <2>1, <2>2, <3>2, SuperstepRouted, SuperstepSound DEF Superstep
    <3>4. c.next = {}
      BY <3>1, <3>3, RoutedEnds DEF Routed
    <3> QED
      BY <1>0, <2>1, <2>2, <2>4, <3>1, <3>4 DEF PInv, Paused, TypeOK
  <2> QED
    BY <2>3, <2>4
<1>9. ASSUME NEW h \in Handler, GetState(h) PROVE PInv'
  <2>1. /\ at[h] = "running"
        /\ at' = [at EXCEPT ![h] = "answered"]
        /\ UNCHANGED <<thread, mem>>
        /\ mem[h].next = {} \/ "human_review" \in mem[h].next
    BY <1>9 DEF GetState, Goto, RunOver, Interrupted
  <2>2. CASE h = Starter
    <3>1. thread = mem[h]
      BY <1>0, <2>1, <2>2
    <3>2. Paused(thread)
      BY <1>0, <2>1, <3>1 DEF Paused, Checkpoints, Sound, Shape
    <3>3. \A a \in Approver : at'[a] = "idle"
      BY <1>0, <2>1, <2>2 DEF Turns, TypeOK
    <3> QED
      BY <1>0, <2>1, <2>2, <3>2, <3>3 DEF PInv, TypeOK
  <2>3. CASE h # Starter
    BY <1>0, <2>1, <2>3 DEF PInv, TypeOK
  <2> QED
    BY <2>2, <2>3
<1>10. ASSUME NEW h \in Handler, SetStatus(h) PROVE PInv'
  BY <1>0, <1>10 DEF SetStatus, Goto, TypeOK, PInv
<1>11. ASSUME NEW h \in Handler, Crash(h) PROVE PInv'
  BY <1>0, <1>11 DEF Crash, TypeOK, PInv
<1>12. CASE UNCHANGED vars
  BY <1>0, <1>12 DEF vars, PInv
<1> QED
  BY <1>1, <1>2, <1>3, <1>4, <1>5, <1>6, <1>7, <1>8, <1>9, <1>10, <1>11, <1>12
  DEF Next, ApproverStep, UpdateState, Progress, Idle

(***************************************************************************)
(* The fifth invariant is preserved: one step per action, and under it one *)
(* per conjunct it can disturb.  A decision is never taken back, so that   *)
(* approvals that cannot have raced could not have raced before.           *)
(***************************************************************************)
LEMMA InitOInv == Init => OInv
BY ServiceAssumption DEF Init, OInv, Alone, InStep, Agrees, Handler, Busy

LEMMA RacedBefore ==
    ASSUME TypeOK, [Next]_vars, MayHaveRaced
    PROVE  MayHaveRaced'
<1>1. \A a \in Approver : decided[a] # Unset => decided'[a] # Unset
  <2>1. CASE decided' = decided
    BY <2>1
  <2>2. ASSUME NEW a \in Approver, RecordApproval(a)
        PROVE  \A b \in Approver : decided[b] # Unset => decided'[b] # Unset
    BY <2>2 DEF RecordApproval, TypeOK, Decision, Unset
  <2> QED
    BY <2>1, <2>2
    DEF Next, ApproverStep, UpdateState, Progress, Idle, vars, CreateInvestigation,
        StartWorkflow, LoadForUpdate, SaveUpdate, RefuseUpdate, Resume, RunStep, GetState,
        SetStatus, Crash
<1> QED
  BY <1>1 DEF MayHaveRaced

\* Nobody becomes busy: the one that was busy stays alone.
LEMMA StaysAlone ==
    ASSUME Alone, \A h \in Handler : at'[h] \in Busy => at[h] \in Busy
    PROVE  Alone'
BY DEF Alone

\* Whoever else is busy is nobody.
LEMMA NobodyElse ==
    ASSUME Alone, NEW h \in Handler, at[h] \in Busy, NEW g \in Handler, g # h
    PROVE  at[g] \notin Busy
BY DEF Alone

LEMMA OStep ==
    ASSUME Review # "anytime", CInv, BInv, RInv, PInv, OInv, [Next]_vars
    PROVE  OInv'
<1> USE ServiceAssumption DEF Handler
<1> DEFINE Solo == Alone /\ InStep /\ Agrees
<1>a. SUFFICES ASSUME ~MayHaveRaced' PROVE Solo'
  BY DEF OInv
<1>b. ~MayHaveRaced
  BY <1>a, RacedBefore DEF CInv
<1>0. /\ TypeOK /\ Checkpoints /\ Decided /\ Turns /\ Ran
      /\ Routed(thread) /\ \A h \in Handler : Routed(mem[h])
      /\ Alone /\ InStep /\ Agrees
  BY <1>b DEF CInv, BInv, RInv, OInv
<1>1. CASE CreateInvestigation
  <2>1. /\ at[Starter] = "idle"
        /\ at' = [at EXCEPT ![Starter] = "committed"]
        /\ UNCHANGED <<thread, mem, said>>
    BY <1>1 DEF CreateInvestigation, Goto
  <2>2. \A a \in Approver : at[a] = "idle" /\ at'[a] = "idle"
    BY <1>0, <2>1 DEF Turns, TypeOK
  <2>3. at'[Starter] = "committed"
    BY <1>0, <2>1 DEF TypeOK
  <2> QED
    BY <2>2, <2>3 DEF Alone, InStep, Agrees, Busy
<1>2. CASE StartWorkflow
  <2>1. /\ at[Starter] = "committed"
        /\ at' = [at EXCEPT ![Starter] = "running"]
        /\ mem' = [mem EXCEPT ![Starter] = thread']
    BY <1>2 DEF StartWorkflow, Goto
  <2>2. \A a \in Approver : at[a] = "idle" /\ at'[a] = "idle"
    BY <1>0, <2>1 DEF Turns, TypeOK
  <2>3. at'[Starter] = "running" /\ mem'[Starter] = thread'
    BY <1>0, <2>1 DEF TypeOK
  <2> QED
    BY <2>2, <2>3 DEF Alone, InStep, Agrees, Busy
<1>3. ASSUME NEW a \in Approver, RecordApproval(a) PROVE Solo'
  <2>1. /\ at[a] = "idle"
        /\ at' = [at EXCEPT ![a] = "committed"]
        /\ row \in {"awaiting_approval", "escalated"}
        /\ Review = "one_by_one" => \A b \in Approver : at[b] \notin Busy
        /\ UNCHANGED <<thread, mem, said, row>>
        /\ \E d \in Decision : decided' = [decided EXCEPT ![a] = d]
    BY <1>3 DEF RecordApproval, Goto, Asked
  <2>2. at[Starter] = "done" /\ at'[Starter] = "done"
    BY <1>0, <2>1 DEF Turns, TypeOK
  <2>3. \A h \in Handler : h # a => at'[h] \notin Busy
    <3>1. CASE Review = "one_by_one"
      BY <1>0, <2>1, <2>2, <3>1 DEF TypeOK, Busy
    <3>2. CASE Review # "one_by_one"
      <4>1. \A b \in Approver : b # a => decided[b] = Unset
        BY <1>0, <1>a, <2>1, <3>2 DEF MayHaveRaced, TypeOK, Decision, Unset
      <4>2. \A b \in Approver : b # a => at[b] = "idle"
        BY <1>0, <4>1 DEF Decided
      <4> QED
        BY <1>0, <2>1, <2>2, <4>2 DEF TypeOK, Busy
    <3> QED
      BY <3>1, <3>2
  <2>4. Alone'
    BY <2>3 DEF Alone
  <2>5. InStep' /\ Agrees'
    BY <1>0, <2>1, <2>2 DEF InStep, Agrees, TypeOK
  <2> QED
    BY <2>4, <2>5
<1>4. ASSUME NEW a \in Approver, LoadForUpdate(a) PROVE Solo'
  <2>1. /\ at[a] = "committed"
        /\ at' = [at EXCEPT ![a] = "updating"]
        /\ mem' = [mem EXCEPT ![a] = thread]
        /\ UNCHANGED <<thread, said, row>>
    BY <1>4 DEF LoadForUpdate, Goto
  <2>2. Alone'
    BY <1>0, <2>1, StaysAlone DEF TypeOK, Busy
  <2>3. InStep' /\ Agrees'
    BY <1>0, <2>1 DEF InStep, Agrees, TypeOK
  <2> QED
    BY <2>2, <2>3
<1>5. ASSUME NEW a \in Approver, ~Ambiguous(mem[a]), SaveUpdate(a) PROVE Solo'
  <2>1. /\ at[a] = "updating"
        /\ at' = [at EXCEPT ![a] = "updated"]
        /\ UNCHANGED <<mem, said, row>>
    BY <1>5 DEF SaveUpdate, Goto
  <2>2. PICK v : /\ v = [mem[a].values EXCEPT !.human_decision = decided[a]]
                 /\ thread' = [values |-> v, next |-> Edges(AsNode(mem[a]), v),
                               last |-> mem[a].last]
    BY <1>5 DEF SaveUpdate
  <2>3. /\ thread'.values = v
        /\ thread'.next = Edges(AsNode(mem[a]), v)
        /\ thread'.last = mem[a].last
    BY <2>2
  <2>4. /\ decided[a] \in Decision
        /\ mem[a] \in Checkpoint /\ Routed(mem[a]) /\ mem[a].last # {}
        /\ mem[a] = thread
    BY <1>0, <2>1 DEF Decided, TypeOK, Ran, InStep
  <2>5. thread'.next = thread.next /\ StatusOf(thread') = StatusOf(thread)
    BY <1>5, <2>2, <2>3, <2>4, UpdateRouted
  <2>6. Alone'
    BY <1>0, <2>1, StaysAlone DEF TypeOK, Busy
  <2>7. \A h \in Handler : h # a => at'[h] \notin Busy
    BY <1>0, <2>1, NobodyElse DEF TypeOK, Busy
  <2>8. at'[a] = "updated"
    BY <1>0, <2>1 DEF TypeOK
  <2>9. InStep'
    BY <2>7, <2>8 DEF InStep, Busy
  <2>10. Agrees'
    BY <1>0, <2>1, <2>5 DEF Agrees, TypeOK
  <2> QED
    BY <2>6, <2>9, <2>10
<1>6. ASSUME NEW a \in Approver, RefuseUpdate(a) PROVE Solo'
  <2>1. /\ at[a] = "updating"
        /\ at' = [at EXCEPT ![a] = "refused"]
        /\ UNCHANGED <<thread, mem, said, row>>
    BY <1>6 DEF RefuseUpdate, Goto
  <2>2. Alone'
    BY <1>0, <2>1, StaysAlone DEF TypeOK, Busy
  <2>3. InStep' /\ Agrees'
    BY <1>0, <2>1 DEF InStep, Agrees, TypeOK
  <2> QED
    BY <2>2, <2>3
<1>7. ASSUME NEW a \in Approver, Resume(a) PROVE Solo'
  <2>1. /\ at[a] = "updated"
        /\ at' = [at EXCEPT ![a] = "running"]
        /\ mem' = [mem EXCEPT ![a] = thread]
        /\ UNCHANGED <<thread, said, row>>
    BY <1>7 DEF Resume, Goto
  <2>2. Alone'
    BY <1>0, <2>1, StaysAlone DEF TypeOK, Busy
  <2>3. InStep' /\ Agrees'
    BY <1>0, <2>1 DEF InStep, Agrees, TypeOK
  <2> QED
    BY <2>2, <2>3
<1>8. ASSUME NEW h \in Handler, RunStep(h) PROVE Solo'
  <2>1. PICK c \in Superstep(mem[h]) :
            thread' = c /\ mem' = [mem EXCEPT ![h] = c]
    BY <1>8 DEF RunStep
  <2>2. /\ at[h] = "running"
        /\ UNCHANGED <<at, said, row>>
        /\ mem[h].next # {}
    BY <1>8 DEF RunStep, RunOver
  <2>3. mem[h] \in Checkpoint /\ Sound(mem[h]) /\ Routed(mem[h]) /\ mem[h].last # {}
    BY <1>0, <2>2 DEF TypeOK, Checkpoints, Ran
  <2>4. Routed(c) /\ c \in Checkpoint /\ Sound(c) /\ c.last # {} /\ c.last = mem[h].next
    BY <2>2, <2>3, SuperstepRouted, SuperstepSound DEF Superstep
  <2>5. \A g \in Handler : g # h => at[g] \notin Busy
    BY <1>0, <2>2, NobodyElse DEF Busy
  <2>6. Alone'
    BY <1>0, <2>2, StaysAlone
  <2>7. InStep'
    BY <1>0, <2>1, <2>2, <2>5 DEF InStep, TypeOK, Busy
  <2>8. Agrees'
    BY <2>2 DEF Agrees
  <2> QED
    BY <2>6, <2>7, <2>8
<1>9. ASSUME NEW h \in Handler, GetState(h) PROVE Solo'
  <2>1. /\ at[h] = "running"
        /\ at' = [at EXCEPT ![h] = "answered"]
        /\ said' = [said EXCEPT ![h] = StatusOf(thread)]
        /\ UNCHANGED <<thread, mem, row>>
        /\ mem[h].next = {} \/ "human_review" \in mem[h].next
    BY <1>9 DEF GetState, Goto, RunOver, Interrupted
  <2>2. Alone'
    BY <1>0, <2>1, StaysAlone DEF TypeOK, Busy
  <2>3. InStep'
    BY <1>0, <2>1 DEF InStep, TypeOK
  <2>4. Agrees'
    BY <1>0, <2>1 DEF Agrees, TypeOK
  <2> QED
    BY <2>2, <2>3, <2>4
<1>10. ASSUME NEW h \in Handler, SetStatus(h) PROVE Solo'
  <2>1. /\ at[h] = "answered"
        /\ at' = [at EXCEPT ![h] = "done"]
        /\ row' = said[h]
        /\ UNCHANGED <<thread, mem, said>>
    BY <1>10 DEF SetStatus, Goto
  <2>2. Alone'
    BY <1>0, <2>1, StaysAlone DEF TypeOK, Busy
  <2>3. row' = StatusOf(thread)
    BY <1>0, <2>1 DEF InStep
  <2>4. InStep' /\ Agrees'
    BY <1>0, <2>1, <2>3 DEF InStep, Agrees, TypeOK
  <2> QED
    BY <2>2, <2>4
<1>11. ASSUME NEW h \in Handler, Crash(h) PROVE Solo'
  <2>1. /\ at[h] \in Busy
        /\ at' = [at EXCEPT ![h] = "crashed"]
        /\ UNCHANGED <<thread, mem, said, row>>
    BY <1>11 DEF Crash
  <2>2. Alone'
    BY <1>0, <2>1, StaysAlone DEF TypeOK, Busy
  <2>3. InStep' /\ Agrees'
    BY <1>0, <2>1 DEF InStep, Agrees, TypeOK
  <2> QED
    BY <2>2, <2>3
<1>12. CASE UNCHANGED vars
  BY <1>0, <1>12 DEF vars, Alone, InStep, Agrees
<1> QED
  BY <1>1, <1>2, <1>3, <1>4, <1>5, <1>6, <1>7, <1>8, <1>9, <1>10, <1>11, <1>12
  DEF Next, ApproverStep, UpdateState, Progress, Idle

\* The five together.
ServiceInv == CInv /\ BInv /\ RInv /\ PInv /\ OInv

LEMMA InitServiceInv == Init => ServiceInv
BY InitService, InitPInv, InitOInv DEF ServiceInv

LEMMA ServiceInvStep ==
    ASSUME Review # "anytime"
    PROVE  ServiceInv /\ [Next]_vars => ServiceInv'
BY ServiceStep, PStep, OStep DEF ServiceInv

(***************************************************************************)
(* What the handlers leave behind, however the approvals of approvers who  *)
(* wait to be asked race: once all handlers are done and none died or was  *)
(* refused, the thread waits for a person, was decided or was dropped, and *)
(* the row says what the thread is unless two approvals may have raced.    *)
(***************************************************************************)
THEOREM RowAndThreadAgree ==
    ASSUME Review # "anytime"
    PROVE  Spec => []RestsInAgreement
<1>1. ServiceInv => RestsInAgreement
  <2>1. SUFFICES ASSUME ServiceInv, AllDone
                 PROVE  /\ row = StatusOf(thread) \/ MayHaveRaced
                        /\ \/ thread.next = {"human_review"}
                           \/ /\ thread.next = {}
                              /\ \/ thread.values.status \in Outcome
                                 \/ thread.values.recommended_triage = "drop"
    BY DEF RestsInAgreement, RowAgrees, RestsAtGate
  <2>2. row = StatusOf(thread) \/ MayHaveRaced
    BY <2>1 DEF AllDone, ServiceInv, OInv, Agrees
  <2>3. thread.next \in {{}, {"human_review"}}
    BY <2>1 DEF AllDone, ServiceInv, PInv, Paused
  <2>4. thread \in Checkpoint /\ Sound(thread) /\ Routed(thread) /\ thread.last # {}
    BY <2>1 DEF AllDone, ServiceInv, CInv, TypeOK, Checkpoints, RInv, BInv, Ran
  <2> QED
    BY <2>2, <2>3, <2>4, RoutedEnds
<1> QED
  BY <1>1, InitServiceInv, ServiceInvStep, PTL DEF Spec

----------------------------------------------------------------------------
(***************************************************************************)
(* The implementation of ReviewGate: what a handler does to the thread is  *)
(* a step of the gate or leaves it alone.                                  *)
(***************************************************************************)
GateOutcome == IF thread.values.status \in Outcome THEN thread.values.status ELSE "none"

GateRecorded == {decided[a] : a \in Approver} \ {Unset}

\* Stage only looks at the pending nodes and the status.
LEMMA StageKept ==
    ASSUME thread'.next = thread.next, thread'.values.status = thread.values.status
    PROVE  Stage' = Stage /\ GateOutcome' = GateOutcome
BY DEF Stage, GateOutcome

LEMMA GateStep ==
    ASSUME Review = "one_by_one", ServiceInv, [Next]_vars
    PROVE  Gate!GateNext \/ UNCHANGED <<Stage, GateOutcome, GateRecorded>>
<1> USE ServiceAssumption DEF Handler
<1>0. /\ TypeOK /\ Checkpoints /\ Decided /\ Turns /\ Ran /\ Carries
      /\ at[Starter] \in {"idle", "committed"} => thread = NoCheckpoint
      /\ Routed(thread) /\ \A h \in Handler : Routed(mem[h])
      /\ Alone /\ InStep
  BY DEF ServiceInv, CInv, BInv, RInv, OInv, MayHaveRaced
<1>1. CASE UNCHANGED <<thread, decided>>
  BY <1>1 DEF Stage, GateOutcome, GateRecorded
<1>2. CASE StartWorkflow
  <2>1. /\ thread = NoCheckpoint
        /\ thread' = [values |-> [thread.values EXCEPT !.incident = TRUE],
                      next |-> {"intake"}, last |-> {"START"}]
        /\ decided' = decided
    BY <1>0, <1>2 DEF StartWorkflow, Goto
  <2>2. thread.next = {} /\ thread.values.status = Unset
    BY <2>1 DEF NoCheckpoint, BlankValues
  <2>3. thread'.next = {"intake"} /\ thread'.values.status = Unset
    BY <2>1 DEF NoCheckpoint, BlankValues
  <2>4. Stage = "analysing" /\ Stage' = "analysing"
    BY <2>2, <2>3, StatusDistinct DEF Stage
  <2> QED
    BY <2>1, <2>2, <2>3, <2>4 DEF GateOutcome, GateRecorded
<1>3. ASSUME NEW a \in Approver, RecordApproval(a) PROVE Gate!GateNext
  <2>1. PICK d \in Decision : decided' = [decided EXCEPT ![a] = d]
    BY <1>3 DEF RecordApproval
  <2>2. decided[a] = Unset /\ d # Unset /\ thread' = thread
    BY <1>0, <1>3 DEF Decided, RecordApproval, Goto, Decision, Unset
  <2>3. GateRecorded' = GateRecorded \cup {d}
    BY <1>0, <2>1, <2>2 DEF GateRecorded, TypeOK
  <2>4. Stage' = Stage /\ GateOutcome' = GateOutcome
    BY <2>2, StageKept
  <2>5. Gate!Record
    BY <2>3, <2>4 DEF Gate!Record, GateOutcome, GateRecorded
  <2> QED
    BY <2>5 DEF Gate!GateNext
<1>4. ASSUME NEW a \in Approver, ~Ambiguous(mem[a]), SaveUpdate(a)
      PROVE  UNCHANGED <<Stage, GateOutcome, GateRecorded>>
  <2>1. at[a] = "updating" /\ decided' = decided
    BY <1>4 DEF SaveUpdate, Goto
  <2>2. PICK v : /\ v = [mem[a].values EXCEPT !.human_decision = decided[a]]
                 /\ thread' = [values |-> v, next |-> Edges(AsNode(mem[a]), v),
                               last |-> mem[a].last]
    BY <1>4 DEF SaveUpdate
  <2>3. /\ thread'.values = v
        /\ thread'.next = Edges(AsNode(mem[a]), v)
        /\ thread'.last = mem[a].last
    BY <2>2
  <2>4. /\ decided[a] \in Decision
        /\ mem[a] \in Checkpoint /\ Routed(mem[a]) /\ mem[a].last # {}
        /\ mem[a] = thread
    BY <1>0, <2>1 DEF Decided, TypeOK, Ran, InStep
  <2>5. thread'.next = thread.next /\ thread'.values.status = thread.values.status
    BY <1>4, <2>2, <2>3, <2>4, UpdateRouted
  <2> QED
    BY <2>1, <2>5, StageKept DEF GateRecorded
<1>5. ASSUME NEW h \in Handler, RunStep(h)
      PROVE  Gate!GateNext \/ UNCHANGED <<Stage, GateOutcome, GateRecorded>>
  <2>1. PICK c \in Superstep(thread) : thread' = c
    BY <1>0, <1>5 DEF RunStep, InStep
  <2>2. /\ at[h] = "running" /\ decided' = decided
        /\ thread.next # {}
        /\ "human_review" \in thread.next => fresh[h]
    BY <1>0, <1>5 DEF RunStep, RunOver, Interrupted, InStep
  <2>3. /\ thread \in Checkpoint /\ Sound(thread) /\ Routed(thread)
        /\ thread.last # {}
    BY <1>0, <2>2 DEF TypeOK, Checkpoints, Ran, Turns
  <2>4. thread.values.status \notin Outcome
    BY <2>2, <2>3, RoutedEnds
  <2>5. /\ c \in Checkpoint /\ Sound(c) /\ Routed(c) /\ c.last # {} /\ c.last = thread.next
        /\ \/ c.values.status = thread.values.status
           \/ c.values.status = "triaged"
           \/ /\ "human_review" \in thread.next
              /\ c.values.status = OutcomeOf(thread.values.human_decision)
    BY <2>1, <2>2, <2>3, SuperstepRouted, SuperstepSound DEF Superstep
  <2>6. GateRecorded' = GateRecorded
    BY <2>2 DEF GateRecorded
  <2>7. CASE "human_review" \in thread.next
    <3>1. thread.next = {"human_review"}
      BY <2>3, <2>7 DEF Sound, Shape
    <3>2. Stage = "gate" /\ GateOutcome = "none"
      BY <2>4, <3>1 DEF Stage, GateOutcome
    <3>3. h \in Approver
      BY <1>0, <2>2, <2>7 DEF Turns
    <3>4. Recorded(thread.values)
      BY <1>0, <2>2, <3>3 DEF Carries
    <3>5. PICK d \in GateRecorded : d = thread.values.human_decision
      BY <3>4 DEF Recorded, GateRecorded
    <3>6. c.values.status \in Outcome
      BY <2>5, <2>7 DEF Routed
    <3>7. c.values.status = OutcomeOf(d)
      BY <2>4, <2>5, <3>5, <3>6, StatusDistinct
    <3>8. Stage' = "decided" /\ GateOutcome' = OutcomeOf(d)
      <4>1. thread'.values.status \in Outcome /\ thread'.values.status = OutcomeOf(d)
        BY <2>1, <3>6, <3>7
      <4>2. GateOutcome' = thread'.values.status
        BY <4>1 DEF GateOutcome
      <4>3. Stage' = "decided"
        BY <4>1, StatusDistinct DEF Stage
      <4> QED
        BY <4>1, <4>2, <4>3
    <3>9. Gate!Decide
      BY <2>6, <3>2, <3>5, <3>8 DEF Gate!Decide, GateOutcome, GateRecorded
    <3> QED
      BY <3>9 DEF Gate!GateNext
  <2>8. CASE "human_review" \notin thread.next
    <3>1. c.values.status \notin Outcome
      BY <2>4, <2>5, <2>8, StatusDistinct
    <3>2. Stage = "analysing" /\ GateOutcome = "none" /\ GateOutcome' = "none"
      BY <2>1, <2>2, <2>4, <2>8, <3>1 DEF Stage, GateOutcome
    <3>3. Stage' \in {"analysing", "gate", "dropped"}
      BY <2>1, <3>1 DEF Stage
    <3>4. CASE Stage' \in {"gate", "dropped"}
      BY <2>6, <3>2, <3>4 DEF Gate!GateNext, Gate!Analysed, GateOutcome, GateRecorded
    <3>5. CASE Stage' = "analysing"
      BY <2>6, <3>2, <3>5
    <3> QED
      BY <3>3, <3>4, <3>5
  <2> QED
    BY <2>7, <2>8
<1>6. CASE CreateInvestigation
  BY <1>1, <1>6 DEF CreateInvestigation
<1>7. ASSUME NEW a \in Approver, LoadForUpdate(a) \/ RefuseUpdate(a) \/ Resume(a)
      PROVE  UNCHANGED <<thread, decided>>
  BY <1>7 DEF LoadForUpdate, RefuseUpdate, Resume
<1>8. ASSUME NEW h \in Handler, GetState(h) \/ SetStatus(h) \/ Crash(h)
      PROVE  UNCHANGED <<thread, decided>>
  BY <1>8 DEF GetState, SetStatus, Crash
<1>9. CASE UNCHANGED vars
  BY <1>1, <1>9 DEF vars
<1> QED
  BY <1>1, <1>2, <1>3, <1>4, <1>5, <1>6, <1>7, <1>8, <1>9
  DEF Next, ApproverStep, UpdateState, Progress, Idle

(***************************************************************************)
(* The service implements the review gate for approvers who call one by    *)
(* one, whatever crashes: an analysed investigation stops there, leaves it *)
(* once, and only to the outcome of a decision recorded before.            *)
(***************************************************************************)
THEOREM ServiceImplementsGate ==
    ASSUME Review = "one_by_one"
    PROVE  Spec => ImplementsGate
<1>1. Init => Gate!GateInit
  <2>1. SUFFICES ASSUME Init PROVE Gate!GateInit
    OBVIOUS
  <2>2. thread.next = {} /\ thread.values.status = Unset
    BY <2>1 DEF Init, NoCheckpoint, BlankValues
  <2>3. Stage = "analysing"
    BY <2>2, StatusDistinct DEF Stage
  <2>4. {decided[a] : a \in Approver} \ {Unset} = {}
    BY <2>1 DEF Init
  <2> QED
    BY <2>2, <2>3, <2>4, StatusDistinct DEF Gate!GateInit
<1>2. ServiceInv /\ [Next]_vars => [Gate!GateNext]_(Gate!gateVars)
  BY GateStep DEF Gate!gateVars, GateOutcome, GateRecorded
<1>3. ServiceInv /\ [Next]_vars => ServiceInv'
  BY ServiceInvStep
<1> QED
  BY <1>1, <1>2, <1>3, InitServiceInv, PTL DEF Spec, ImplementsGate, Gate!GateSpec

----------------------------------------------------------------------------
(***************************************************************************)
(* The stream beside the handlers: its steps leave the service alone, so   *)
(* that the service's invariants hold of what it polls.                    *)
(***************************************************************************)
LEMMA StreamKeepsService ==
    ASSUME Review # "anytime"
    PROVE  StreamSpec => [](CInv /\ BInv /\ RInv)
<1>1. StreamInit => CInv /\ BInv /\ RInv
  BY InitService DEF StreamInit
<1>2. [StreamNext]_<<vars, streamVars>> => [Next]_vars
  BY DEF StreamNext, OpenStream, Poll, GiveUp, vars
<1> QED
  BY <1>1, <1>2, ServiceStep, PTL DEF StreamSpec

(***************************************************************************)
(* However approvers that wait to be asked race on the thread it polls, a  *)
(* stream tells an outcome only if a recorded decision leads to it, or     *)
(* `completed' of a thread that has no checkpoint yet.                     *)
(***************************************************************************)
THEOREM StreamTellsBacked ==
    ASSUME Review # "anytime"
    PROVE  StreamSpec => TellsBackedOutcomes
<1>1. ASSUME CInv, BInv, RInv, [StreamNext]_<<vars, streamVars>>
      PROVE  [Poll /\ told' \in Outcome =>
                  \/ Backed(told')
                  \/ told' = "completed" /\ thread = NoCheckpoint]_streamVars
  <2>1. SUFFICES ASSUME Poll, told' \in Outcome
                 PROVE  \/ Backed(told')
                        \/ told' = "completed" /\ thread = NoCheckpoint
    OBVIOUS
  <2>2. told' = StatusOf(thread)
    BY <2>1 DEF Poll
  <2>3. thread \in Checkpoint /\ Sound(thread) /\ BackedIn(thread)
    BY <1>1 DEF CInv, TypeOK, Checkpoints, BInv, AllBacked
  <2>4. CASE thread.last # {}
    <3>1. thread.values.status = told'
      BY <2>1, <2>2, <2>3, <2>4, StatusFromThread
    <3> QED
      BY <2>1, <2>3, <3>1 DEF BackedIn
  <2>5. CASE thread.last = {}
    <3>1. thread = NoCheckpoint
      BY <1>1, <2>5 DEF RInv
    <3>2. told' = "completed"
      BY <2>2, <3>1, StatusDistinct
      DEF NoCheckpoint, BlankValues, StatusOf, EndStatus
    <3> QED
      BY <3>1, <3>2
  <2> QED
    BY <2>4, <2>5
<1> QED
  BY <1>1, StreamKeepsService, PTL DEF StreamSpec, TellsBackedOutcomes

(***************************************************************************)
(* A stream that closes early leaves a started workflow where it rests: at *)
(* the gate or at its end, however approvers race on it.                   *)
(***************************************************************************)
THEOREM StreamClosesAtRest ==
    ASSUME Review # "anytime"
    PROVE  StreamSpec => ClosesAtRest
<1>1. ASSUME CInv, RInv, [StreamNext]_<<vars, streamVars>>
      PROVE  [/\ stream = "open" /\ stream' = "closed"
              /\ polls' < MaxPolls
              /\ thread.last # {}
              => thread.next \in {{}, {"human_review"}}]_streamVars
  <2>1. SUFFICES ASSUME stream = "open", stream' = "closed", polls' < MaxPolls,
                        thread.last # {}
                 PROVE  thread.next \in {{}, {"human_review"}}
    OBVIOUS
  <2>2. Poll
    BY <1>1, <2>1, StreamAssumption
    DEF StreamNext, OpenStream, GiveUp, streamVars
  <2>3. Resting(StatusOf(thread))
    BY <2>1, <2>2 DEF Poll
  <2>4. thread \in Checkpoint /\ Sound(thread) /\ Routed(thread)
    BY <1>1 DEF CInv, TypeOK, Checkpoints, RInv
  <2>5. CASE thread.values.intake_failed
    BY <2>1, <2>4, <2>5, RoutedEnds
  <2>6. CASE ~thread.values.intake_failed
    <3>1. "human_review" \in thread.next \/ thread.next = {}
      BY <2>3, <2>6 DEF Resting, StatusOf
    <3> QED
      BY <2>4, <3>1 DEF Sound, Shape
  <2> QED
    BY <2>5, <2>6
<1> QED
  BY <1>1, StreamKeepsService, PTL DEF StreamSpec, ClosesAtRest
===============================================================================
