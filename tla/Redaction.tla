------------------------------- MODULE Redaction -------------------------------
(***************************************************************************)
(* DefaultRedactor (libs/redaction/redactor.py): the detectors run one     *)
(* after the other, each on the text the one before it left.  A text is a  *)
(* list of tokens: values, which some detectors match, and placeholders,   *)
(* which none matches.  Matches that cover part of a token only are not    *)
(* modelled, nor a text that holds what looks like a placeholder already.  *)
(***************************************************************************)
EXTENDS Naturals, Sequences, FiniteSets, SequencesExt

CONSTANTS
    Detectors,      \* the detectors in their order
    Matching        \* the values, each with the set of detectors that match it

Values == DOMAIN Matching

ASSUME RedactionAssumption ==
    /\ Detectors \in Seq(STRING) /\ "none" \notin Range(Detectors)
    /\ \A v \in Values : Matching[v] \subseteq Range(Detectors)

Value(v) == [value |-> v, mask |-> "none", n |-> 0]

\* A text before the redaction.
PlainTexts == Seq({Value(v) : v \in Values})

Placeholder(d, n) == [value |-> "none", mask |-> d, n |-> n]

\* What redact() keeps while it runs: the text so far, the placeholder of each
\* value met and the index each detector has reached.
Blank(text) == [out     |-> text,
                mapping |-> [v \in {} |-> Placeholder("none", 0)],
                counter |-> [d \in Range(Detectors) |-> 0]]

\* Mutant of PlaceholderFor: every match gets a placeholder of its own.
PlaceholderForEach(r, i, d) ==
    LET v == r.out[i].value
        p == Placeholder(d, r.counter[d] + 1)
    IN  [out     |-> [r.out EXCEPT ![i] = p],
         mapping |-> r.mapping,
         counter |-> [r.counter EXCEPT ![d] = @ + 1]]

\* placeholder_for: a value met before keeps its placeholder.
PlaceholderFor(r, i, d) ==
    LET v == r.out[i].value
        p == Placeholder(d, r.counter[d] + 1)
    IN  IF v \in DOMAIN r.mapping
        THEN [r EXCEPT !.out[i] = r.mapping[v]]
        ELSE [out     |-> [r.out EXCEPT ![i] = p],
              mapping |-> [w \in DOMAIN r.mapping \cup {v} |->
                              IF w = v THEN p ELSE r.mapping[w]],
              counter |-> [r.counter EXCEPT ![d] = @ + 1]]

Matched(token, d) == token.mask = "none" /\ d \in Matching[token.value]

\* The detector d at place i of the text.
Substitute(r, d, i) == IF Matched(r.out[i], d) THEN PlaceholderFor(r, i, d) ELSE r

\* pattern.sub: one detector, over the text from left to right.
Sub(r, d) ==
    LET upTo[i \in 0..Len(r.out)] ==
            IF i = 0 THEN r ELSE Substitute(upTo[i - 1], d, i)
    IN  upTo[Len(r.out)]

\* The detectors in their order, each on the text the one before it left.
Redact(text) ==
    LET after[k \in 0..Len(Detectors)] ==
            IF k = 0 THEN Blank(text) ELSE Sub(after[k - 1], Detectors[k])
    IN  after[Len(Detectors)]

\* RedactionResult.total, the sum of the counts, as the placeholders counted.
Issued(r) == UNION {{d} \X (1..r.counter[d]) : d \in DOMAIN r.counter}

Total(r) == Cardinality(Issued(r))
===============================================================================
