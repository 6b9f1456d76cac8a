---------------------------- MODULE KnowledgeAgent ----------------------------
(***************************************************************************)
(* One run of the knowledge retrieval agent                                *)
(* (agents/knowledge_retrieval/agent.py) and its node: the corpus and the  *)
(* episodic memory are searched concurrently, the best hits become         *)
(* citations, a model synthesizes findings from them, and guardrails drop  *)
(* what no citation supports.  A citation is known by its place in the     *)
(* list; the reference 0 is one the model made up.                         *)
(***************************************************************************)
EXTENDS Naturals, Sequences, FiniteSets, Functions, ConfidenceGrades

CONSTANTS
    Chunks,             \* the chunks the corpus may return
    Episodes,           \* the past incidents the episodic memory may return
    MaxHits,            \* the hits of a corpus search (bound on corpus_k)
    MaxEpisodes,        \* the hits of an episodic search (bound on episodic_k)
    MaxContextChunks,   \* max_context_chunks
    MinSources,         \* min_sources_for_confident
    StatedGrades,       \* the grades the model may state (bound)
    KnowledgeTiers,     \* the tiers tried, 1 without and 2 with escalation
    KnowledgeAttempts,  \* llm_max_attempts
    FreshnessCheck      \* a gateway is wired and enable_freshness_check is set

ASSUME KnowledgeAssumption ==
    /\ {MaxHits, MaxEpisodes} \subseteq Nat
    /\ {MaxContextChunks, MinSources, KnowledgeAttempts} \subseteq Nat \ {0}
    /\ KnowledgeTiers \in {1, 2}
    /\ StatedGrades \subseteq Grade
    /\ FreshnessCheck \in BOOLEAN
    /\ \A c \in Chunks : c.score \in Nat

VARIABLES
    kstep,      \* "retrieve", "probe", "ask", "done"
    corpus,     \* the corpus search: its status and its hits
    episodic,   \* the episodic search, likewise
    citations,  \* the citations, c1, c2, ...
    similar,    \* the similar incidents, each with its citation
    ktier,      \* the tier being asked
    krepair,    \* the repair prompt is being asked
    kattempt,   \* the calls that raised for this question
    kwarnings,  \* warnings, by what failed; they go into the delta's metadata
    knowledge   \* the node's delta, NoKnowledge before it is there

knowVars == <<kstep, corpus, episodic, citations, similar, ktier, krepair,
              kattempt, kwarnings, knowledge>>

Pending == [status |-> "pending", hits |-> <<>>]

\* synthesized: model_tier_used is not "none".
NoKnowledge == [findings |-> {}, conflicts |-> {}, confidence |-> "speculative",
                sources |-> 0, synthesized |-> FALSE, degraded |-> FALSE, raised |-> FALSE]

KnowledgeInit ==
    /\ kstep = "retrieve"
    /\ corpus = Pending /\ episodic = Pending
    /\ citations = <<>> /\ similar = <<>>
    /\ ktier = 1 /\ krepair = FALSE /\ kattempt = 0
    /\ kwarnings = {}
    /\ knowledge = NoKnowledge

\* The run is over with delta d; its local variables are gone.
Finish(d) ==
    /\ kstep' = "done"
    /\ knowledge' = d
    /\ ktier' = 1 /\ krepair' = FALSE /\ kattempt' = 0

\* Neither failure nor an odd answer of one search touches the other; a hit of
\* an unexpected shape raises later, when the citations are built.
Answers(hits, max) ==
    {[status |-> "answered", hits |-> h] : h \in UNION {[1..n -> hits] : n \in 0..max}}
        \cup {[status |-> s, hits |-> <<>>] : s \in {"failed", "malformed"}}

\* A search that failed leaves a warning.
Warned(search, status) ==
    kwarnings' = IF status = "failed" THEN kwarnings \cup {search} ELSE kwarnings

\* Mutant of EpisodicAnswers: a failed search passes for one that found nothing.
EpisodicAnswersSilent ==
    /\ kstep = "retrieve" /\ episodic = Pending
    /\ episodic' \in Answers(Episodes, MaxEpisodes)
    /\ UNCHANGED <<kstep, corpus, citations, similar, ktier, krepair, kattempt, kwarnings, knowledge>>

CorpusAnswers ==
    /\ kstep = "retrieve" /\ corpus = Pending
    /\ corpus' \in Answers(Chunks, MaxHits)
    /\ Warned("corpus", corpus'.status)
    /\ UNCHANGED <<kstep, episodic, citations, similar, ktier, krepair, kattempt, knowledge>>

EpisodicAnswers ==
    /\ kstep = "retrieve" /\ episodic = Pending
    /\ episodic' \in Answers(Episodes, MaxEpisodes)
    /\ Warned("episodic", episodic'.status)
    /\ UNCHANGED <<kstep, corpus, citations, similar, ktier, krepair, kattempt, knowledge>>

----------------------------------------------------------------------------
\* sorted(..., reverse=True) keeps ties in order: hit i goes before hit j.
Before(chunks, i, j) ==
    \/ chunks[i].score > chunks[j].score
    \/ chunks[i].score = chunks[j].score /\ i < j

\* The hits that go before hit i.
Place(chunks, i) == Cardinality({j \in DOMAIN chunks : Before(chunks, j, i)})

Kept(chunks) == IF Len(chunks) < MaxContextChunks THEN Len(chunks) ELSE MaxContextChunks

\* ranked[:max_context_chunks], by the place of each in the order.
Ranked(chunks) ==
    [k \in 1..Kept(chunks) |->
        chunks[CHOOSE i \in DOMAIN chunks : Place(chunks, i) = k - 1]]

\* A past incident as a citation of type incident.
EpisodeCitation(e) == [doc |-> e.doc, type |-> "incident", system |-> "servicenow",
                       score |-> 0, current |-> e.current, outcome |-> e.outcome]

\* similar: the running id of an episode goes on after the chunks'.
SimilarIncidents(chunks, eps) ==
    [i \in DOMAIN eps |-> [doc |-> eps[i].doc, cite |-> Len(chunks) + i]]

Analysis(c) == c.type \in {"rca", "incident"}

\* _compute_coverage: the heuristic retrieval_confidence.
Coverage(cs) ==
    IF cs = <<>> THEN "speculative"
    ELSE IF \E i \in DOMAIN cs : Analysis(cs[i]) /\ cs[i].outcome = "confirmed" THEN "high"
    ELSE IF Len(cs) >= MinSources THEN "medium" ELSE "low"

\* Without a usable synthesis the citations are delivered as they are.
RetrievalOnly(cs) ==
    [NoKnowledge EXCEPT !.confidence = Coverage(cs), !.sources = Len(cs), !.degraded = TRUE]

\* The degraded delta of a run that raised; its warnings are lost.
KnowledgeRaised == [NoKnowledge EXCEPT !.degraded = TRUE, !.raised = TRUE]

BuildCitations ==
    /\ kstep = "retrieve" /\ corpus # Pending /\ episodic # Pending
    /\ LET chunks == Ranked(corpus.hits)
           cs == chunks \o [i \in DOMAIN episodic.hits |-> EpisodeCitation(episodic.hits[i])]
       IN  IF "malformed" \in {corpus.status, episodic.status}
           THEN Finish(KnowledgeRaised) /\ kwarnings' = {} /\ UNCHANGED <<citations, similar>>
           ELSE /\ citations' = cs
                /\ similar' = SimilarIncidents(chunks, episodic.hits)
                /\ UNCHANGED kwarnings
                /\ IF cs = <<>>
                   THEN Finish([NoKnowledge EXCEPT !.degraded = corpus.status = "failed"])
                   ELSE /\ kstep' = IF FreshnessCheck THEN "probe" ELSE "ask"
                        /\ UNCHANGED <<ktier, krepair, kattempt, knowledge>>
    /\ UNCHANGED <<corpus, episodic>>

\* _maybe_verify_freshness: whatever the probe says changes no citation; the
\* warning of one that raises tells of no missing knowledge, and is left out.
Probe ==
    /\ kstep = "probe" /\ kstep' = "ask"
    /\ UNCHANGED <<corpus, episodic, citations, similar, ktier, krepair, kattempt,
                   kwarnings, knowledge>>

----------------------------------------------------------------------------
\* This tier gives no result: the next is asked, or the citations must do.
NextKnowledgeTier ==
    IF ktier < KnowledgeTiers
    THEN /\ ktier' = ktier + 1 /\ krepair' = FALSE /\ kattempt' = 0
         /\ UNCHANGED <<kstep, kwarnings, knowledge>>
    ELSE Finish(RetrievalOnly(citations)) /\ kwarnings' = kwarnings \cup {"synthesis"}

KnowledgeCallRaises ==
    /\ kstep = "ask"
    /\ IF kattempt + 1 < KnowledgeAttempts
       THEN kattempt' = kattempt + 1 /\ UNCHANGED <<kstep, ktier, krepair, kwarnings, knowledge>>
       ELSE NextKnowledgeTier
    /\ UNCHANGED <<corpus, episodic, citations, similar>>

\* Mutant of KnowledgeUnparseable: the repair is asked until it parses.
KnowledgeUnparseableAgain ==
    /\ kstep = "ask"
    /\ krepair' = TRUE /\ kattempt' = 0
    /\ UNCHANGED <<kstep, corpus, episodic, citations, similar, ktier, kwarnings, knowledge>>

KnowledgeUnparseable ==
    /\ kstep = "ask"
    /\ IF krepair THEN NextKnowledgeTier
       ELSE krepair' = TRUE /\ kattempt' = 0 /\ UNCHANGED <<kstep, ktier, kwarnings, knowledge>>
    /\ UNCHANGED <<corpus, episodic, citations, similar>>

Valid == DOMAIN citations

Weak == {i \in Valid : citations[i].outcome = "refuted" \/ ~citations[i].current}

\* Mutant of Supported: a finding is judged by the references it states.
SupportedAsStated(f) ==
    IF f.cites \cap Valid = {} THEN {}
    ELSE {[cites |-> f.cites \cap Valid,
           conf  |-> IF f.cites \cap Valid \subseteq Weak
                     THEN min_conf(f.conf, "low") ELSE f.conf]}

\* A finding keeps its retrieved references, and is dropped if it has none;
\* one weak source caps it.
Supported(f) ==
    IF f.cites \cap Valid = {} THEN {}
    ELSE {[cites |-> f.cites \cap Valid,
           conf  |-> IF f.cites \cap Weak # {} THEN min_conf(f.conf, "low") ELSE f.conf]}

\* A conflict keeps its retrieved references (as a set), and is dropped with
\* fewer than two; the same reference twice counts as two.
Contested(conflict) ==
    LET kept == {k \in DOMAIN conflict : conflict[k] \in Valid}
    IN  IF Cardinality(kept) < 2 THEN {} ELSE {{conflict[k] : k \in kept}}

\* What a model may state: a finding's confidence defaults to medium, and the
\* overall one to the heuristic.  Findings and conflicts are judged one by one,
\* so that a reply has one of either (bound).
StatedFindings == [cites : SUBSET (0..Len(citations)), conf : StatedGrades]

StatedConflicts == UNION {[1..n -> 0..Len(citations)] : n \in 0..2}

\* The delta of a synthesis with these findings and conflicts.
Synthesized(findings, conflicts, overall) ==
    [findings   |-> findings,
     conflicts  |-> conflicts,
     confidence |-> min_conf(Coverage(citations), overall),
     sources    |-> Len(citations),
     synthesized |-> TRUE,
     degraded   |-> corpus.status = "failed",
     raised     |-> FALSE]

KnowledgeParses ==
    /\ kstep = "ask"
    /\ \E overall \in StatedGrades :
           \/ \E f \in StatedFindings : Finish(Synthesized(Supported(f), {}, overall))
           \/ \E c \in StatedConflicts : Finish(Synthesized({}, Contested(c), overall))
    /\ UNCHANGED <<corpus, episodic, citations, similar, kwarnings>>

KnowledgeNext ==
    \/ CorpusAnswers \/ EpisodicAnswers \/ BuildCitations \/ Probe
    \/ KnowledgeCallRaises \/ KnowledgeUnparseable \/ KnowledgeParses

KnowledgeEnded == kstep = "done"

----------------------------------------------------------------------------
Replies(hits) == [status : {"pending", "answered", "failed", "malformed"}, hits : Seq(hits)]

KnowledgeTypeOK ==
    /\ kstep \in {"retrieve", "probe", "ask", "done"}
    /\ corpus \in Replies(Chunks) /\ episodic \in Replies(Episodes)
    /\ Len(similar) <= Len(citations)
    /\ ktier \in 1..KnowledgeTiers /\ krepair \in BOOLEAN
    /\ kattempt \in 0..(KnowledgeAttempts - 1)
    /\ knowledge.confidence \in Grade
    /\ knowledge.sources \in Nat
    /\ kwarnings \subseteq {"corpus", "episodic", "synthesis"}
    /\ {knowledge.degraded, knowledge.raised} \subseteq BOOLEAN

(***************************************************************************)
(* The node never hands on more than the retrieved sources support: every  *)
(* reference of a finding or a conflict is a citation delivered with it,   *)
(* and a finding that leans on a refuted or stale one, be it one of        *)
(* several, is low at best.                                                *)
(***************************************************************************)
FindingsGrounded ==
    /\ \A f \in knowledge.findings :
           /\ f.cites # {} /\ f.cites \subseteq 1..knowledge.sources
           /\ (\E i \in f.cites : citations[i].outcome = "refuted" \/ ~citations[i].current) =>
                  CONF_RANK[f.conf] <= CONF_RANK["low"]
    /\ \A c \in knowledge.conflicts : c \subseteq 1..knowledge.sources

(***************************************************************************)
(* High confidence in what was retrieved is told only with a confirmed     *)
(* analysis among the citations delivered, whatever the model says, and    *)
(* any at all only with a citation.                                        *)
(***************************************************************************)
ConfidenceEarned ==
    /\ knowledge.confidence = "high" =>
           \E i \in 1..knowledge.sources :
               citations[i].outcome = "confirmed" /\ citations[i].type \in {"rca", "incident"}
    /\ knowledge.sources = 0 => knowledge.confidence = "speculative"

(***************************************************************************)
(* knowledge_degraded is told exactly when something is missing: the       *)
(* corpus could not be searched, the run raised, or sources were found and *)
(* no tier synthesized them.  A failed episodic search does not set it: of *)
(* that WarningsTold has the warning.                                      *)
(***************************************************************************)
DegradedTold ==
    kstep = "done" =>
        (knowledge.degraded <=>
            \/ corpus.status = "failed"
            \/ "malformed" \in {corpus.status, episodic.status}
            \/ knowledge.sources > 0 /\ ~knowledge.synthesized)

(***************************************************************************)
(* The two searches run concurrently, and the delta of a run that did not  *)
(* raise warns of each that failed and of no other, and of a synthesis     *)
(* that sources were there for and no tier gave.  (The delta of a run that *)
(* raised has only what it raised.)                                        *)
(***************************************************************************)
WarningsTold ==
    kstep = "done" /\ ~knowledge.raised =>
        /\ "corpus" \in kwarnings <=> corpus.status = "failed"
        /\ "episodic" \in kwarnings <=> episodic.status = "failed"
        /\ "synthesis" \in kwarnings <=> knowledge.sources > 0 /\ ~knowledge.synthesized

(***************************************************************************)
(* A similar incident points to its own citation, also behind corpus       *)
(* chunks: an id off by some would attribute one incident's cause to       *)
(* another document.                                                       *)
(***************************************************************************)
SimilarLinked ==
    \A i \in DOMAIN similar :
        /\ similar[i].cite \in DOMAIN citations
        /\ citations[similar[i].cite].doc = similar[i].doc
        /\ citations[similar[i].cite].type = "incident"

(***************************************************************************)
(* No chunk left out of the context scores better than one let in.         *)
(***************************************************************************)
BestKept ==
    citations # <<>> =>
        \A i \in DOMAIN corpus.hits :
            \/ corpus.hits[i] \in Range(citations)
            \/ \A j \in 1..(Len(citations) - Len(similar)) :
                   citations[j].score >= corpus.hits[i].score

(***************************************************************************)
(* What the knowledge node hands on is supported by what it retrieved: the *)
(* claims by citations delivered with them, the confidence by a confirmed  *)
(* analysis, similar incidents by their own citations, and the citations   *)
(* are the best there were.                                                *)
(***************************************************************************)
KnowledgeSupported == FindingsGrounded /\ ConfidenceEarned /\ SimilarLinked /\ BestKept
===============================================================================
