--------------------------- MODULE IntakeAgentProofs ---------------------------
(***************************************************************************)
(* Proofs about IntakeAgent for any bounds of its configuration, any       *)
(* severities reported, one or two tiers, and any catalog and gateway.     *)
(***************************************************************************)
EXTENDS IntakeAgent, TLAPS

(***************************************************************************)
(* What the loop of _classify has in hand: a parsed answer is kept, an     *)
(* answer of any kind is remembered, and the calls made so far are those   *)
(* of the tiers and questions behind it.                                   *)
(***************************************************************************)
KeptIsHeard == candidate # NoResult => answered

Unheard == ~answered => ~parsed /\ ~repairing

ParsedIsKept ==
    /\ pc \in {"pagerduty", "servicenow", "ask"} /\ parsed => candidate # NoResult
    /\ pc \in {"classified", "done"} /\ parsed => chosen # NoResult
    /\ pc \in {"classified", "done"} /\ chosen # NoResult => ~output.degraded

\* The calls made before the question that is out.
Behind == (tier - 1) * (2 * MaxAttempts) + (IF repairing THEN MaxAttempts ELSE 0)

CallsCounted ==
    /\ pc \in {"pagerduty", "servicenow"} => llmCalls = 0 /\ tier = 1 /\ attempt = 0
                                             /\ ~answered /\ ~repairing
    /\ pc = "ask" => llmCalls <= Behind + attempt
    /\ pc = "ask" /\ ~answered => llmCalls = (tier - 1) * MaxAttempts + attempt
    /\ llmCalls <= Len(Tiers) * (2 * MaxAttempts)

EndsHeard ==
    /\ pc \in {"classified", "done"} => answered
    /\ pc = "failed" => ~answered /\ llmCalls = Len(Tiers) * MaxAttempts

\* The loop: independent of what the guardrails make of its result.
CInv ==
    /\ TypeOK
    /\ KeptIsHeard /\ Unheard /\ ParsedIsKept /\ CallsCounted /\ EndsHeard
    /\ toolCalls <= MaxToolCalls
    /\ pc # "done" => output = NoOutput

----------------------------------------------------------------------------
LEMMA Config ==
    /\ MaxAttempts \in Nat \ {0} /\ MaxToolCalls \in Nat
    /\ Len(Tiers) = 1 \/ Len(Tiers) = 2
BY IntakeAssumption

\* What there is to count, with one tier and with two.
LEMMA Products ==
    /\ MaxAttempts \in Nat
    /\ 1 * (2 * MaxAttempts) = MaxAttempts + MaxAttempts
    /\ 2 * (2 * MaxAttempts) = MaxAttempts + MaxAttempts + MaxAttempts + MaxAttempts
    /\ 1 * MaxAttempts = MaxAttempts
    /\ 2 * MaxAttempts = MaxAttempts + MaxAttempts
BY Config

LEMMA BehindIs ==
    /\ tier = 1 => /\ Behind = (IF repairing THEN MaxAttempts ELSE 0)
                   /\ (tier - 1) * MaxAttempts = 0
    /\ tier = 2 => /\ Behind = MaxAttempts + MaxAttempts
                                   + (IF repairing THEN MaxAttempts ELSE 0)
                   /\ (tier - 1) * MaxAttempts = MaxAttempts
<1>1. CASE tier = 1
    BY <1>1, Config DEF Behind
<1>2. CASE tier = 2
    BY <1>2, Config DEF Behind
<1> QED
    BY <1>1, <1>2

LEMMA Numbers ==
    ASSUME TypeOK
    PROVE  /\ (tier = 1 \/ tier = 2) /\ tier <= Len(Tiers)
           /\ attempt \in Nat /\ attempt + 1 <= MaxAttempts
           /\ llmCalls \in Nat /\ toolCalls \in Nat
           /\ repairing \in BOOLEAN /\ answered \in BOOLEAN /\ parsed \in BOOLEAN
<1>1. tier \in 1..Len(Tiers) /\ attempt \in 0..(MaxAttempts - 1)
    BY DEF TypeOK
<1>2. /\ llmCalls \in Nat /\ toolCalls \in Nat
      /\ repairing \in BOOLEAN /\ answered \in BOOLEAN /\ parsed \in BOOLEAN
    BY DEF TypeOK
<1>3. CASE Len(Tiers) = 1
    BY <1>1, <1>2, <1>3, Config
<1>4. CASE Len(Tiers) = 2
    BY <1>1, <1>2, <1>4, Config
<1> QED
    BY <1>3, <1>4, Config

\* A result is never the mark of no result.
LEMMA ResultIsOne == NoResult \notin Result
BY DEF NoResult, Result, Triage, None

LEMMA InitLoop == Init => CInv
<1> SUFFICES ASSUME Init PROVE CInv
    OBVIOUS
<1> USE DEF Init
<1>1. TypeOK
    <2>1. tier \in 1..Len(Tiers) /\ attempt \in 0..(MaxAttempts - 1)
        BY Config
    <2>2. DOMAIN lookups \subseteq Claim /\ enriched \subseteq incident.ids
        OBVIOUS
    <2> QED
        BY <2>1, <2>2 DEF TypeOK
<1>2. KeptIsHeard /\ Unheard /\ ParsedIsKept /\ EndsHeard
    BY DEF KeptIsHeard, Unheard, ParsedIsKept, EndsHeard
<1>3. CallsCounted
    BY Config DEF CallsCounted
<1> QED
    BY <1>1, <1>2, <1>3, Config DEF CInv

\* A step of the enrichment makes no call of the model.
LEMMA EnrichLoop ==
    ASSUME CInv, Enrich
    PROVE  CInv'
<1>1. /\ pc \in {"pagerduty", "servicenow"} /\ pc' \in {"servicenow", "ask"}
      /\ toolCalls' \in {toolCalls} \cup {n \in Nat : n = toolCalls + 1 /\ n <= MaxToolCalls}
      /\ enriched' \subseteq incident.ids
      /\ UNCHANGED <<incident, classifying, lookups, output, history>>
    <2> USE Config DEF CInv, TypeOK
    <2>1. CASE NotWanted("pagerduty", "servicenow") \/ NotWanted("servicenow", "ask")
        BY <2>1 DEF NotWanted
    <2>2. CASE ToolAnswers("pagerduty", "servicenow")
        BY <2>2 DEF ToolAnswers, Wanted
    <2>3. CASE ToolAnswers("servicenow", "ask")
        BY <2>3 DEF ToolAnswers, Wanted
    <2>4. CASE ToolRaises("pagerduty")
        BY <2>4 DEF ToolRaises, Wanted
    <2>5. CASE ToolRaises("servicenow")
        BY <2>5 DEF ToolRaises, Wanted
    <2> QED
        BY <2>1, <2>2, <2>3, <2>4, <2>5 DEF Enrich
<1>2. TypeOK'
    BY <1>1 DEF CInv, TypeOK, classifying, history
<1>3. KeptIsHeard' /\ Unheard' /\ ParsedIsKept' /\ EndsHeard'
    BY <1>1 DEF CInv, KeptIsHeard, Unheard, ParsedIsKept, EndsHeard, classifying, history
<1>4. CallsCounted'
    BY <1>1, Config DEF CInv, CallsCounted, Behind, TypeOK, classifying, history
<1>5. toolCalls' <= MaxToolCalls
    BY <1>1 DEF CInv
<1>6. pc' # "done" => output' = NoOutput
    BY <1>1 DEF CInv
<1> QED
    BY <1>2, <1>3, <1>4, <1>5, <1>6 DEF CInv

\* There is always room for the call that is out.
LEMMA OneMoreCall ==
    ASSUME CInv, pc = "ask"
    PROVE  /\ llmCalls + 1 <= tier * (2 * MaxAttempts)
           /\ llmCalls + 1 <= Len(Tiers) * (2 * MaxAttempts)
           /\ llmCalls + 1 <= Behind + MaxAttempts
<1>1. /\ attempt + 1 <= MaxAttempts /\ llmCalls <= Behind + attempt
      /\ tier = 1 \/ tier = 2
      /\ tier <= Len(Tiers)
      /\ attempt \in Nat /\ llmCalls \in Nat /\ repairing \in BOOLEAN
    BY Numbers DEF CInv, CallsCounted
<1>2. CASE tier = 1
    <2>1. llmCalls + 1 <= MaxAttempts + MaxAttempts /\ llmCalls + 1 <= Behind + MaxAttempts
        BY <1>1, <1>2, Products, BehindIs
    <2>2. CASE Len(Tiers) = 1
        BY <1>1, <1>2, <2>1, <2>2, Products
    <2>3. CASE Len(Tiers) = 2
        BY <1>1, <1>2, <2>1, <2>3, Products
    <2> QED
        BY <2>2, <2>3, Config
<1>3. CASE tier = 2
    <2>1. CASE Len(Tiers) = 1
        BY <1>1, <1>3, <2>1
    <2>2. CASE Len(Tiers) = 2
        BY <1>1, <1>3, <2>2, Products, BehindIs
    <2> QED
        BY <2>1, <2>2, Config
<1> QED
    BY <1>1, <1>2, <1>3

(***************************************************************************)
(* The loop goes on with another tier or ends, after a question of         *)
(* `spent' calls: all of its attempts if nothing was ever heard.           *)
(***************************************************************************)
LEMMA NextTierLoop ==
    ASSUME CInv, Ask,
           NEW kept \in Result \cup {NoResult}, NEW heard \in BOOLEAN,
           NextTier(kept, heard),
           kept # NoResult => heard,
           answered => heard,
           parsed' \in BOOLEAN,
           parsed' => kept # NoResult,
           ~heard => attempt + 1 = MaxAttempts
    PROVE  CInv'
<1>1. /\ llmCalls' = llmCalls + 1 /\ candidate' = kept /\ answered' = heard
      /\ pc = "ask" /\ UNCHANGED <<incident, toolCalls, enriched, lookups, output>>
    BY DEF Ask, NextTier
<1>2. llmCalls' <= tier * (2 * MaxAttempts)
    BY <1>1, OneMoreCall
<1>3. ~heard => llmCalls' = tier * MaxAttempts
    <2> SUFFICES ASSUME ~heard PROVE llmCalls' = tier * MaxAttempts
        OBVIOUS
    <2>1. llmCalls = (tier - 1) * MaxAttempts + attempt /\ attempt + 1 = MaxAttempts
        BY <1>1 DEF CInv, CallsCounted
    <2>2. (tier = 1 \/ tier = 2) /\ attempt \in Nat
        BY Numbers DEF CInv
    <2>3. CASE tier = 1
        BY <1>1, <2>1, <2>2, <2>3, Products, BehindIs
    <2>4. CASE tier = 2
        BY <1>1, <2>1, <2>2, <2>4, Products, BehindIs
    <2> QED
        BY <2>2, <2>3, <2>4
<1>4. CASE tier < Len(Tiers)
    <2>1. /\ tier' = tier + 1 /\ repairing' = FALSE /\ attempt' = 0
          /\ pc' = pc /\ chosen' = chosen
        BY <1>4 DEF NextTier
    <2>2. tier = 1 /\ tier' = 2 /\ Len(Tiers) = 2
        <3>1. tier = 1 \/ tier = 2
            BY Numbers DEF CInv
        <3>2. CASE Len(Tiers) = 1
            BY <1>4, <3>1, <3>2
        <3>3. CASE Len(Tiers) = 2
            BY <1>4, <2>1, <3>1, <3>3
        <3> QED
            BY <3>2, <3>3, Config
    <2>3. TypeOK'
        <3>1. attempt' \in 0..(MaxAttempts - 1) /\ tier' \in 1..Len(Tiers) /\ llmCalls' \in Nat
            BY <1>1, <2>1, <2>2, Config, Numbers DEF CInv
        <3> QED
            BY <1>1, <2>1, <3>1 DEF CInv, TypeOK
    <2>4. KeptIsHeard' /\ Unheard' /\ ParsedIsKept' /\ EndsHeard'
        BY <1>1, <2>1 DEF KeptIsHeard, Unheard, ParsedIsKept, EndsHeard
    <2>5. CallsCounted'
        <3>1. Behind' = MaxAttempts + MaxAttempts
            BY <2>1, <2>2, Config DEF Behind
        <3> QED
            BY <1>1, <1>2, <1>3, <2>1, <2>2, <3>1, Products DEF CallsCounted
    <2> QED
        BY <1>1, <2>1, <2>3, <2>4, <2>5 DEF CInv
<1>5. CASE ~(tier < Len(Tiers))
    <2>1. /\ pc' = IF kept = NoResult /\ ~heard THEN "failed" ELSE "classified"
          /\ chosen' = kept /\ UNCHANGED <<tier, repairing, attempt>>
        BY <1>5 DEF NextTier, Conclude
    <2>2. tier = Len(Tiers)
        BY <1>5, Config, Numbers DEF CInv
    <2>3. TypeOK'
        <3>1. llmCalls' \in Nat
            BY <1>1, Numbers DEF CInv
        <3> QED
            BY <1>1, <2>1, <3>1 DEF CInv, TypeOK
    <2>4. KeptIsHeard' /\ EndsHeard'
        BY <1>1, <1>3, <2>1, <2>2 DEF KeptIsHeard, EndsHeard
    <2>5. Unheard'
        BY <1>1, <2>1 DEF Unheard, CInv
    <2>6. ParsedIsKept'
        BY <1>1, <2>1 DEF ParsedIsKept, CInv, NoOutput
    <2>7. CallsCounted'
        BY <1>1, <1>2, <2>1, <2>2 DEF CallsCounted
    <2> QED
        BY <1>1, <2>1, <2>3, <2>4, <2>5, <2>6, <2>7 DEF CInv
<1> QED
    BY <1>4, <1>5

LEMMA CallRaisesLoop ==
    ASSUME CInv, CallRaises
    PROVE  CInv'
<1>1. Ask /\ pc = "ask" /\ parsed' = parsed
    BY DEF CallRaises, Ask
<1>2. CASE attempt + 1 < MaxAttempts
    <2>1. /\ attempt' = attempt + 1 /\ llmCalls' = llmCalls + 1
          /\ UNCHANGED <<pc, tier, repairing, candidate, answered, chosen, parsed>>
          /\ UNCHANGED <<incident, toolCalls, enriched, lookups, output>>
        BY <1>2 DEF CallRaises, Ask
    <2>2. attempt' \in 0..(MaxAttempts - 1) /\ llmCalls' \in Nat
        BY <1>2, <2>1, Numbers, Config DEF CInv
    <2>3. TypeOK'
        BY <2>1, <2>2 DEF CInv, TypeOK
    <2>4. KeptIsHeard' /\ Unheard' /\ ParsedIsKept' /\ EndsHeard'
        BY <1>1, <2>1 DEF CInv, KeptIsHeard, Unheard, ParsedIsKept, EndsHeard
    <2>5. CallsCounted'
        <3>1. Behind' = Behind
            BY <2>1 DEF Behind
        <3>2. llmCalls <= Behind + attempt /\ llmCalls \in Nat /\ attempt \in Nat
            BY <1>1, Numbers DEF CInv, CallsCounted
        <3>3. Behind \in Nat
            BY Numbers, BehindIs, Config DEF CInv
        <3>4. llmCalls' <= Behind' + attempt'
            BY <2>1, <3>1, <3>2, <3>3
        <3>5. ~answered' => llmCalls' = (tier' - 1) * MaxAttempts + attempt'
            <4> SUFFICES ASSUME ~answered
                         PROVE  llmCalls + 1 = (tier - 1) * MaxAttempts + (attempt + 1)
                BY <2>1
            <4>1. llmCalls = (tier - 1) * MaxAttempts + attempt
                BY <1>1 DEF CInv, CallsCounted
            <4>2. (tier - 1) * MaxAttempts \in Nat
                BY Numbers, BehindIs, Config DEF CInv
            <4> QED
                BY <3>2, <4>1, <4>2
        <3>6. llmCalls' <= Len(Tiers) * (2 * MaxAttempts)
            BY <1>1, <2>1, OneMoreCall
        <3> QED
            BY <1>1, <2>1, <3>4, <3>5, <3>6 DEF CallsCounted
    <2> QED
        BY <1>1, <2>1, <2>3, <2>4, <2>5 DEF CInv
<1>3. CASE ~(attempt + 1 < MaxAttempts)
    <2>1. NextTier(candidate, answered)
        BY <1>3 DEF CallRaises
    <2>2. attempt + 1 = MaxAttempts
        BY <1>3, Numbers, Config DEF CInv
    <2>3. /\ candidate \in Result \cup {NoResult} /\ answered \in BOOLEAN
          /\ candidate # NoResult => answered
          /\ parsed' \in BOOLEAN /\ (parsed' => candidate # NoResult)
        BY <1>1 DEF CInv, TypeOK, KeptIsHeard, ParsedIsKept
    <2> QED
        BY <1>1, <2>1, <2>2, <2>3, NextTierLoop
<1> QED
    BY <1>2, <1>3

LEMMA UnparseableLoop ==
    ASSUME CInv, Unparseable
    PROVE  CInv'
<1>1. Ask /\ pc = "ask" /\ parsed' = parsed
    BY DEF Unparseable, Ask
<1>2. CASE repairing
    <2>1. NextTier(candidate, TRUE)
        BY <1>2 DEF Unparseable
    <2>2. /\ candidate \in Result \cup {NoResult}
          /\ parsed' \in BOOLEAN /\ (parsed' => candidate # NoResult)
        BY <1>1 DEF CInv, TypeOK, ParsedIsKept
    <2> QED
        BY <1>1, <2>1, <2>2, NextTierLoop
<1>3. CASE ~repairing
    <2>1. /\ repairing' = TRUE /\ attempt' = 0 /\ answered' = TRUE /\ llmCalls' = llmCalls + 1
          /\ UNCHANGED <<pc, tier, candidate, chosen, parsed>>
          /\ UNCHANGED <<incident, toolCalls, enriched, lookups, output>>
        BY <1>3 DEF Unparseable, Ask
    <2>2. attempt' \in 0..(MaxAttempts - 1) /\ llmCalls' \in Nat
        BY <2>1, Numbers, Config DEF CInv
    <2>3. TypeOK'
        BY <2>1, <2>2 DEF CInv, TypeOK
    <2>4. KeptIsHeard' /\ Unheard' /\ ParsedIsKept' /\ EndsHeard'
        BY <1>1, <2>1 DEF CInv, KeptIsHeard, Unheard, ParsedIsKept, EndsHeard
    <2>5. CallsCounted'
        <3>1. Behind' = Behind + MaxAttempts
            <4>1. CASE tier = 1
                BY <1>3, <2>1, <4>1, Config DEF Behind
            <4>2. CASE tier = 2
                BY <1>3, <2>1, <4>2, Config DEF Behind
            <4> QED
                BY <4>1, <4>2, Numbers DEF CInv
        <3>2. llmCalls' <= Behind' + attempt'
            <4>1. llmCalls + 1 <= Behind + MaxAttempts
                BY <1>1, OneMoreCall
            <4>2. Behind + MaxAttempts \in Nat
                BY Numbers, BehindIs, Config DEF CInv
            <4> QED
                BY <2>1, <3>1, <4>1, <4>2
        <3>3. llmCalls' <= Len(Tiers) * (2 * MaxAttempts)
            BY <1>1, <2>1, OneMoreCall
        <3> QED
            BY <1>1, <2>1, <3>2, <3>3 DEF CallsCounted
    <2> QED
        BY <1>1, <2>1, <2>3, <2>4, <2>5 DEF CInv
<1> QED
    BY <1>2, <1>3 DEF CInv, TypeOK

LEMMA ParsesLoop ==
    ASSUME CInv, Parses
    PROVE  CInv'
<1>1. Ask /\ pc = "ask" /\ parsed' = TRUE
    BY DEF Parses, Ask
<1>2. PICK r \in Result :
          IF r.ambiguous
          THEN NextTier(Keep(r), TRUE)
          ELSE /\ chosen' = r /\ pc' = "classified" /\ answered' = TRUE
               /\ UNCHANGED <<tier, repairing, attempt, candidate>>
    BY DEF Parses
<1>3. r # NoResult
    BY ResultIsOne
<1>4. CASE r.ambiguous
    <2>1. NextTier(r, TRUE)
        BY <1>2, <1>4 DEF Keep
    <2> QED
        BY <1>1, <1>3, <2>1, NextTierLoop
<1>5. CASE ~r.ambiguous
    <2>1. /\ chosen' = r /\ pc' = "classified" /\ answered' = TRUE /\ llmCalls' = llmCalls + 1
          /\ UNCHANGED <<tier, repairing, attempt, candidate>>
          /\ UNCHANGED <<incident, toolCalls, enriched, lookups, output>>
        BY <1>2, <1>5 DEF Parses, Ask
    <2>2. llmCalls' \in Nat
        BY <2>1, Numbers DEF CInv
    <2>3. TypeOK'
        BY <1>1, <2>1, <2>2 DEF CInv, TypeOK
    <2>4. KeptIsHeard' /\ Unheard' /\ EndsHeard'
        BY <2>1 DEF KeptIsHeard, Unheard, EndsHeard
    <2>5. ParsedIsKept'
        BY <1>1, <1>3, <2>1 DEF ParsedIsKept, CInv, NoOutput
    <2>6. CallsCounted'
        BY <1>1, <2>1, OneMoreCall DEF CallsCounted
    <2> QED
        BY <1>1, <2>1, <2>3, <2>4, <2>5, <2>6 DEF CInv
<1> QED
    BY <1>4, <1>5

----------------------------------------------------------------------------
(***************************************************************************)
(* The guardrails.                                                         *)
(***************************************************************************)
LEMMA RankFacts ==
    /\ \A s \in Severity : Rank[s] \in Nat /\ s # None
    /\ DefaultSeverity \in Severity /\ Reported \subseteq Severity
BY IntakeAssumption DEF Severity, Rank, None

\* The severity put out is the more severe of what counts, and the default if
\* nothing does.
LEMMA FlooredIsJustified ==
    ASSUME NEW provider \in Reported \cup {None}, NEW r \in Result
    PROVE  LET s == Floored(provider, Suggested(provider, r))
               grounds == ({provider} \cup (IF r.certain THEN {r.severity} ELSE {})) \ {None}
           IN  /\ s \in Severity
               /\ IF grounds = {} THEN s = DefaultSeverity
                  ELSE s \in grounds /\ \A g \in grounds : Rank[s] >= Rank[g]
<1> DEFINE sev == r.severity
<1>1. /\ sev \in Severity \cup {None} /\ provider \in Severity \cup {None}
      /\ r.certain \in BOOLEAN
    BY RankFacts DEF Result
<1>2. DefaultSeverity \in Severity /\ DefaultSeverity # None
    BY RankFacts
<1>3. \A s \in Severity : Rank[s] \in Nat /\ s # None
    BY RankFacts
<1> HIDE DEF sev
<1>4. CASE r.certain /\ sev # None /\ provider # None
    <2>1. Suggested(provider, r) = IF Rank[provider] >= Rank[sev] THEN provider ELSE sev
        BY <1>4 DEF Suggested, MoreSevere, sev
    <2>2. Floored(provider, Suggested(provider, r)) = Suggested(provider, r)
        BY <1>1, <1>3, <1>4, <2>1 DEF Floored, MoreSevere
    <2> QED
        BY <1>1, <1>3, <1>4, <2>1, <2>2 DEF sev
<1>5. CASE r.certain /\ sev # None /\ provider = None
    <2>1. Suggested(provider, r) = sev
        BY <1>5 DEF Suggested, MoreSevere, sev
    <2>2. Floored(provider, Suggested(provider, r)) = sev
        BY <1>5, <2>1 DEF Floored
    <2> QED
        BY <1>1, <1>3, <1>5, <2>2 DEF sev
<1>6. CASE ~(r.certain /\ sev # None) /\ provider # None
    <2>1. Suggested(provider, r) = provider
        BY <1>6 DEF Suggested, sev
    <2>2. Floored(provider, Suggested(provider, r)) = provider
        BY <2>1 DEF Floored
    <2> QED
        BY <1>1, <1>3, <1>6, <2>2 DEF sev
<1>7. CASE ~(r.certain /\ sev # None) /\ provider = None
    <2>1. Suggested(provider, r) = DefaultSeverity
        BY <1>7 DEF Suggested, sev
    <2>2. Floored(provider, Suggested(provider, r)) = DefaultSeverity
        BY <1>7, <2>1 DEF Floored
    <2> QED
        BY <1>1, <1>2, <1>7, <2>2 DEF sev
<1> QED
    BY <1>1, <1>4, <1>5, <1>6, <1>7

\* No catalog loses or invents a system.
LEMMA SystemsAreGrounded ==
    ASSUME NEW found, NEW c \in DOMAIN found
    PROVE  LET kept == {s \in Systems(found) : s.claim = c}
               told == c.quoted \/ c.named
           IN  /\ kept # {} <=> told \/ found[c] = "found"
               /\ (\E s \in kept : s.confidence = "high") <=> told /\ found[c] = "found"
<1> DEFINE told == c.quoted \/ c.named
<1> DEFINE of(d) == [claim |-> d, confidence |-> SystemConfidence(d, found[d])]
<1> DEFINE kept == {s \in Systems(found) : s.claim = c}
<1>1. Systems(found) = {of(d) : d \in {d \in DOMAIN found : Named(d, found[d])}}
    BY DEF Systems
<1>2. \A d : of(d).claim = d /\ of(d).confidence = SystemConfidence(d, found[d])
    OBVIOUS
<1> HIDE DEF of
<1>3. kept = IF Named(c, found[c]) THEN {of(c)} ELSE {}
    BY <1>1, <1>2
<1>4. Named(c, found[c]) <=> told \/ found[c] = "found"
    BY DEF Named
<1>5. SystemConfidence(c, found[c]) = "high" <=> told /\ found[c] = "found"
    BY DEF SystemConfidence
<1> QED
    BY <1>2, <1>3, <1>4, <1>5

IInv == CInv /\ SeverityJustified /\ SeriousNotDropped /\ SystemsGrounded

LEMMA ApplyGuardrailsInv ==
    ASSUME IInv, ApplyGuardrails
    PROVE  IInv'
<1>1. /\ pc = "classified" /\ pc' = "done"
      /\ UNCHANGED <<incident, toolCalls, enriched, classifying, history>>
    BY DEF ApplyGuardrails
<1>2. /\ incident.provider \in Reported \cup {None} /\ chosen \in Result \cup {NoResult}
      /\ DOMAIN lookups \subseteq Claim
    BY DEF IInv, CInv, TypeOK
<1>3. CASE chosen = NoResult
    <2>1. output' = Fallback(incident.provider) /\ lookups' = lookups
        BY <1>3 DEF ApplyGuardrails
    <2>2. /\ output'.severity = (IF incident.provider # None THEN incident.provider
                                 ELSE DefaultSeverity)
          /\ output'.triage = (IF IsSerious(output'.severity) THEN "full" ELSE "lite")
          /\ output'.degraded = TRUE
        BY <2>1 DEF Fallback
    <2>3. output'.severity \in Severity
        BY <1>2, <2>2, RankFacts
    <2>4. output' \in [severity : Severity, confidence : {"low", "medium", "high"},
                       triage : Triage, degraded : BOOLEAN,
                       systems : SUBSET [claim : DOMAIN lookups',
                                         confidence : {"medium", "high"}]]
        BY <2>1, <2>2, <2>3 DEF Fallback, Triage
    <2>5. TypeOK'
        BY <1>1, <2>1, <2>4 DEF IInv, CInv, TypeOK, classifying, history
    <2>6. ~parsed
        BY <1>1, <1>3 DEF IInv, CInv, ParsedIsKept
    <2>7. CInv'
        BY <1>1, <1>3, <2>5, <2>6 DEF IInv, CInv, KeptIsHeard, Unheard, ParsedIsKept,
            CallsCounted, EndsHeard, classifying, history
    <2>8. SeverityJustified'
        <3>1. ~chosen'.certain /\ incident' = incident
            BY <1>1, <1>3 DEF NoResult, classifying
        <3>2. Rank[output'.severity] \in Nat
            BY <2>3, RankFacts
        <3> QED
            BY <1>2, <2>2, <3>1, <3>2, RankFacts DEF SeverityJustified
    <2>9. SeriousNotDropped'
        BY <2>2 DEF SeriousNotDropped
    <2>10. SystemsGrounded'
        BY <2>2 DEF SystemsGrounded
    <2> QED
        BY <2>7, <2>8, <2>9, <2>10 DEF IInv
<1>4. CASE chosen # NoResult
    <2>1. PICK claims \in SUBSET Claim : lookups' \in [claims -> Catalog]
        BY <1>4 DEF ApplyGuardrails
    <2>2. output' = Guarded(incident.provider, chosen, lookups')
        BY <1>4 DEF ApplyGuardrails
    <2>3. chosen \in Result
        BY <1>2, <1>4
    <2> DEFINE s == Floored(incident.provider, Suggested(incident.provider, chosen))
    <2> DEFINE triage == IF chosen.triage = None THEN "full" ELSE chosen.triage
    <2>4. /\ output'.severity = s
          /\ output'.triage = Clamped(incident.provider, s, triage)
          /\ output'.degraded = FALSE
          /\ output'.systems = Systems(lookups')
          /\ output'.confidence = SeverityConfidence(incident.provider, chosen)
          /\ output' = [severity |-> output'.severity, confidence |-> output'.confidence,
                        triage |-> output'.triage, degraded |-> output'.degraded,
                        systems |-> output'.systems]
        BY <2>2 DEF Guarded
    <2>5. s \in Severity
        BY <1>2, <2>3, FlooredIsJustified
    <2>6. triage \in Triage
        BY <2>3 DEF Result, Triage, None
    <2> HIDE DEF s, triage
    <2>7. output'.triage \in Triage /\ (IsSerious(s) => output'.triage # "drop")
        BY <2>4, <2>6, IntakeAssumption DEF Clamped, Triage
    <2>8. output'.systems \subseteq [claim : DOMAIN lookups', confidence : {"medium", "high"}]
        BY <2>4 DEF Systems, SystemConfidence
    <2>9. output'.confidence \in {"low", "medium", "high"}
        BY <2>4 DEF SeverityConfidence
    <2>10. output' \in [severity : Severity, confidence : {"low", "medium", "high"},
                        triage : Triage, degraded : BOOLEAN,
                        systems : SUBSET [claim : DOMAIN lookups',
                                          confidence : {"medium", "high"}]]
        BY <2>4, <2>5, <2>7, <2>8, <2>9
    <2>11. DOMAIN lookups' \subseteq Claim
        BY <2>1
    <2>12. TypeOK'
        BY <1>1, <2>10, <2>11 DEF IInv, CInv, TypeOK, classifying, history
    <2>13. CInv'
        BY <1>1, <1>4, <2>4, <2>12 DEF IInv, CInv, KeptIsHeard, Unheard, ParsedIsKept,
            CallsCounted, EndsHeard, classifying, history
    <2>14. SeverityJustified'
        BY <1>1, <1>2, <2>3, <2>4, FlooredIsJustified DEF SeverityJustified, s, classifying
    <2>15. SeriousNotDropped'
        BY <2>4, <2>7 DEF SeriousNotDropped
    <2>16. SystemsGrounded'
        BY <2>4, SystemsAreGrounded DEF SystemsGrounded
    <2> QED
        BY <2>13, <2>14, <2>15, <2>16 DEF IInv
<1> QED
    BY <1>3, <1>4

LEMMA NextInv == IInv /\ [Next]_vars => IInv'
<1> SUFFICES ASSUME IInv, [Next]_vars PROVE IInv'
    OBVIOUS
<1>1. ASSUME CInv', pc' # "done"
      PROVE  IInv'
    BY <1>1 DEF IInv, SeverityJustified, SeriousNotDropped, SystemsGrounded
<1>2. CASE Enrich
    <2>1. pc' # "done"
        BY <1>2 DEF Enrich, NotWanted, ToolAnswers, ToolRaises
    <2> QED
        BY <1>1, <1>2, <2>1, EnrichLoop DEF IInv
<1>3. CASE CallRaises
    <2>1. pc' # "done"
        BY <1>3 DEF CallRaises, Ask, NextTier, Conclude
    <2> QED
        BY <1>1, <1>3, <2>1, CallRaisesLoop DEF IInv
<1>4. CASE Unparseable
    <2>1. pc' # "done"
        BY <1>4 DEF Unparseable, Ask, NextTier, Conclude
    <2> QED
        BY <1>1, <1>4, <2>1, UnparseableLoop DEF IInv
<1>5. CASE Parses
    <2>1. pc' # "done"
        BY <1>5 DEF Parses, Ask, NextTier, Conclude
    <2> QED
        BY <1>1, <1>5, <2>1, ParsesLoop DEF IInv
<1>6. CASE ApplyGuardrails
    BY <1>6, ApplyGuardrailsInv
<1>7. CASE Ended \/ UNCHANGED vars
    <2>1. /\ UNCHANGED <<pc, incident, toolCalls, enriched, lookups, output>>
          /\ UNCHANGED <<tier, repairing, attempt, candidate, answered, chosen>>
          /\ UNCHANGED <<llmCalls, parsed>>
        BY <1>7 DEF Ended, vars, classifying, history
    <2>2. TypeOK'
        BY <2>1 DEF IInv, CInv, TypeOK
    <2>3. CInv'
        BY <2>1, <2>2 DEF IInv, CInv, KeptIsHeard, Unheard, ParsedIsKept, CallsCounted,
            Behind, EndsHeard
    <2>4. SeverityJustified' /\ SeriousNotDropped' /\ SystemsGrounded'
        BY <2>1 DEF IInv, SeverityJustified, SeriousNotDropped, SystemsGrounded
    <2> QED
        BY <2>3, <2>4 DEF IInv
<1> QED
    BY <1>2, <1>3, <1>4, <1>5, <1>6, <1>7 DEF Next

(***************************************************************************)
(* The invariant holds in every reachable state.                           *)
(***************************************************************************)
THEOREM IntakeInvariant == Spec => []IInv
<1>1. Init => IInv
    BY InitLoop DEF IInv, Init, SeverityJustified, SeriousNotDropped, SystemsGrounded
<1> QED
    BY <1>1, NextInv, PTL DEF Spec

(***************************************************************************)
(* Every reachable state of an intake run is well typed.                   *)
(***************************************************************************)
THEOREM IntakeTypeCorrect == Spec => []TypeOK
<1>1. IInv => TypeOK
    BY DEF IInv, CInv
<1> QED
    BY <1>1, IntakeInvariant, PTL

(***************************************************************************)
(* agent.py _apply_guardrails: the severity is the more severe of what the *)
(* provider reported and what the model was certain of, for any severities *)
(* and after any course of the tiers.                                      *)
(***************************************************************************)
THEOREM SeverityCorrect == Spec => []SeverityJustified
<1>1. IInv => SeverityJustified
    BY DEF IInv
<1> QED
    BY <1>1, IntakeInvariant, PTL

(***************************************************************************)
(* agent.py _apply_guardrails: no serious incident is recommended to be    *)
(* dropped, for any configured least triage.                               *)
(***************************************************************************)
THEOREM SeriousKept == Spec => []SeriousNotDropped
<1>1. IInv => SeriousNotDropped
    BY DEF IInv
<1> QED
    BY <1>1, IntakeInvariant, PTL

(***************************************************************************)
(* agent.py _validate_systems: what the incident or the catalog knows is   *)
(* kept and nothing else, for any number of claims and any catalog.        *)
(***************************************************************************)
THEOREM SystemsCorrect == Spec => []SystemsGrounded
<1>1. IInv => SystemsGrounded
    BY DEF IInv
<1> QED
    BY <1>1, IntakeInvariant, PTL

(***************************************************************************)
(* agent.py _classify: an answer that was parsed reaches the guardrails,   *)
(* whatever the tiers behind it do.                                        *)
(***************************************************************************)
THEOREM ParsedNeverLost == Spec => []ParsedIsUsed
<1>1. IInv => ParsedIsUsed
    BY DEF IInv, CInv, ParsedIsKept, ParsedIsUsed
<1> QED
    BY <1>1, IntakeInvariant, PTL

(***************************************************************************)
(* agent.py _classify: the agent fails only if every attempt of every tier *)
(* raised, for any number of attempts.                                     *)
(***************************************************************************)
THEOREM FailureIsUnreachable == Spec => []FailsOnlyUnreachable
<1>1. IInv => FailsOnlyUnreachable
    BY DEF IInv, CInv, Unheard, EndsHeard, FailsOnlyUnreachable
<1> QED
    BY <1>1, IntakeInvariant, PTL

(***************************************************************************)
(* agent.py _classify and _enrich: tiers, questions and attempts multiply, *)
(* and stay within their product; the tool calls within theirs.            *)
(***************************************************************************)
THEOREM CallsWithinBudget == Spec => []CallsBudgeted
<1>1. IInv => CallsBudgeted
    <2> SUFFICES ASSUME IInv PROVE CallsBudgeted
        OBVIOUS
    <2>1. llmCalls <= Len(Tiers) * (2 * MaxAttempts) /\ toolCalls <= MaxToolCalls
        BY DEF IInv, CInv, CallsCounted
    <2>2. Len(Tiers) * 2 * MaxAttempts = Len(Tiers) * (2 * MaxAttempts)
        <3>1. CASE Len(Tiers) = 1
            BY <3>1, Config
        <3>2. CASE Len(Tiers) = 2
            BY <3>2, Config
        <3> QED
            BY <3>1, <3>2, Config
    <2> QED
        BY <2>1, <2>2 DEF CallsBudgeted
<1> QED
    BY <1>1, IntakeInvariant, PTL

(***************************************************************************)
(* The guardrails hold together whatever the model, the provider and the   *)
(* catalog say.                                                            *)
(***************************************************************************)
THEOREM GuardrailsAlwaysHold == Spec => []GuardrailsHold
BY SeverityCorrect, SeriousKept, SystemsCorrect, PTL DEF GuardrailsHold

(***************************************************************************)
(* No answer is lost, for any tiers and attempts.                          *)
(***************************************************************************)
THEOREM AnswersAreUsed == Spec => []AnswersUsed
BY ParsedNeverLost, FailureIsUnreachable, PTL DEF AnswersUsed
===============================================================================
