------------------------- MODULE ConnectorClientProofs -------------------------
(***************************************************************************)
(* Proofs about ConnectorClient for any bounds of the configuration, any   *)
(* vendors, and whatever they hold, add and answer.                        *)
(***************************************************************************)
EXTENDS ConnectorClient, SequenceTheorems, FiniteSetTheorems, TLAPS

Requesting == pc \in {"sending", "sleeping"}

(***************************************************************************)
(* The types without that of `wait', which nothing bounded depends on.     *)
(***************************************************************************)
Typed ==
    /\ pc \in {"called", "sending", "sleeping", "listed", "failed", "answered"}
    /\ cap \in Caps
    /\ held \in Seq(Nat) /\ first \in Seq(Nat) /\ items \in Seq(Nat)
    /\ offset \in Nat
    /\ pages \in 0..MaxPages
    /\ attempt \in 0..MaxRetries
    /\ sent \in Nat

\* What has been sent: every request of the pages behind, and for this one the
\* retries that failed; and there is a page left to ask for.
SentCounted ==
    /\ pc = "called" => sent = 0 /\ pages = 0 /\ attempt = 0
    /\ pc = "sending" => sent <= pages * (MaxRetries + 1) + attempt
    /\ pc = "sleeping" => sent <= pages * (MaxRetries + 1) + attempt
    /\ Requesting => pages < MaxPages
    /\ sent <= RequestBound

BInv == Typed /\ SentCounted /\ Len(items) <= cap

----------------------------------------------------------------------------
LEMMA Config ==
    /\ MaxPages \in Nat \ {0} /\ MaxRetries \in Nat /\ PageLimit \in Nat \ {0}
    /\ Caps \subseteq Nat \ {0}
BY ConnectorAssumption

\* One more of n times k is k more, and within the product as long as it is one
\* of the n.
LEMMA OneMoreTimes ==
    ASSUME NEW p \in Nat, NEW n \in Nat, NEW k \in Nat, p < n
    PROVE  /\ p * k \in Nat /\ n * k \in Nat
           /\ (p + 1) * k = p * k + k
           /\ (p + 1) * k <= n * k
<1>1. p * k \in Nat /\ n * k \in Nat /\ (p + 1) * k = p * k + k
    OBVIOUS
<1>2. n - (p + 1) \in Nat /\ n = (p + 1) + (n - (p + 1))
    OBVIOUS
<1>3. PICK d \in Nat : n = (p + 1) + d
    BY <1>2
<1>4. n * k = (p + 1) * k + d * k
    BY <1>3
<1>5. d * k \in Nat /\ (p + 1) * k \in Nat
    OBVIOUS
<1> QED
    BY <1>1, <1>4, <1>5

\* The requests of one page more are MaxRetries + 1 more.
LEMMA PageMore ==
    ASSUME NEW p \in Nat, p < MaxPages
    PROVE  /\ p * (MaxRetries + 1) \in Nat
           /\ (p + 1) * (MaxRetries + 1) = p * (MaxRetries + 1) + MaxRetries + 1
           /\ (p + 1) * (MaxRetries + 1) <= RequestBound
           /\ RequestBound \in Nat
<1> DEFINE k == MaxRetries + 1
<1>1. k \in Nat /\ MaxPages \in Nat
    BY Config
<1>2. RequestBound = MaxPages * k
    BY DEF RequestBound
<1> HIDE DEF k
<1>3. /\ p * k \in Nat /\ MaxPages * k \in Nat
      /\ (p + 1) * k = p * k + k
      /\ (p + 1) * k <= MaxPages * k
    BY <1>1, OneMoreTimes
<1>4. p * k + k = p * k + MaxRetries + 1
    <2> DEFINE product == p * k
    <2>1. product \in Nat
        BY <1>3
    <2> HIDE DEF product
    <2>2. product + k = product + MaxRetries + 1
        BY <2>1, Config DEF k
    <2> QED
        BY <2>2 DEF product
<1> QED
    BY <1>2, <1>3, <1>4 DEF k

\* There is room for the request that is out.
LEMMA OneMoreRequest ==
    ASSUME BInv, pc = "sending"
    PROVE  /\ CountRequest => sent' = sent + 1
           /\ sent + 1 <= pages * (MaxRetries + 1) + attempt + 1
           /\ sent + 1 <= (pages + 1) * (MaxRetries + 1)
           /\ sent + 1 <= RequestBound
<1>1. /\ sent <= pages * (MaxRetries + 1) + attempt /\ sent \in Nat
      /\ pages \in Nat /\ pages < MaxPages
      /\ attempt \in Nat /\ attempt <= MaxRetries
    BY Config DEF BInv, Typed, SentCounted, Requesting
<1>2. /\ pages * (MaxRetries + 1) \in Nat
      /\ (pages + 1) * (MaxRetries + 1) = pages * (MaxRetries + 1) + MaxRetries + 1
      /\ (pages + 1) * (MaxRetries + 1) <= RequestBound
      /\ RequestBound \in Nat
    BY <1>1, PageMore
<1>3. sent + 1 <= RequestBound
    BY <1>1, <1>2, Config
<1>4. CountRequest => sent' = sent + 1
    BY <1>1, <1>2, <1>3 DEF CountRequest, Lesser
<1> QED
    BY <1>1, <1>2, <1>3, <1>4, Config

LEMMA InitBounded == Init => BInv
<1> SUFFICES ASSUME Init PROVE BInv
    OBVIOUS
<1>1. held \in Seq(Nat)
    <2>1. PICK n \in 0..MaxHeld : held = [i \in 1..n |-> i]
        BY DEF Init
    <2>2. n \in Nat /\ held \in [1..n -> Nat]
        BY <2>1, ConnectorAssumption
    <2> QED
        BY <2>2, SeqDef
<1>2. items \in Seq(Nat) /\ Len(items) = 0
    BY EmptySeq DEF Init
<1>3. cap \in Nat \ {0}
    BY Config DEF Init
<1>4. Typed
    BY <1>1, <1>2, Config DEF Init, Typed
<1>5. RequestBound \in Nat
    BY Config, PageMore
<1>6. SentCounted
    BY <1>5 DEF Init, SentCounted, Requesting
<1> QED
    BY <1>2, <1>3, <1>4, <1>6 DEF BInv

\* What the vendor lists is a sequence of its items.
LEMMA PageTyped ==
    ASSUME Typed
    PROVE  Page \in Seq(Nat) /\ items \o Page \in Seq(Nat)
<1>1. Len(held) \in Nat /\ offset \in Nat /\ PageLimit \in Nat
    BY Config, LenProperties DEF Typed
<1> DEFINE upto == Lesser(offset + PageLimit, Len(held))
<1>2. upto \in Int /\ upto <= Len(held)
    BY <1>1 DEF Lesser
<1>3. \A i \in (offset + 1)..upto : held[i] \in Nat
    BY <1>1, <1>2, ElementOfSeq DEF Typed
<1>4. Page \in Seq(Nat)
    BY <1>1, <1>2, <1>3, SubSeqProperties DEF Page
<1> QED
    BY <1>4, ConcatProperties DEF Typed

\* What is collected is cut at the cap.
LEMMA CutTyped ==
    ASSUME NEW all \in Seq(Nat), NEW n \in Nat
    PROVE  /\ SubSeq(all, 1, Lesser(n, Len(all))) \in Seq(Nat)
           /\ Len(SubSeq(all, 1, Lesser(n, Len(all)))) <= n
<1>1. Len(all) \in Nat
    BY LenProperties
<1> DEFINE m == Lesser(n, Len(all))
<1>2. m \in Nat /\ m <= n /\ m <= Len(all)
    BY <1>1 DEF Lesser
<1>3. \A i \in 1..m : all[i] \in Nat
    BY <1>1, <1>2, ElementOfSeq
<1> HIDE DEF m
<1>4. SubSeq(all, 1, m) \in Seq(Nat) /\ Len(SubSeq(all, 1, m)) = IF 1 <= m THEN m - 1 + 1 ELSE 0
    BY <1>2, <1>3, SubSeqProperties
<1> QED
    BY <1>2, <1>4 DEF m

LEMMA CollectBounded ==
    ASSUME BInv, NEW last, Collect(last)
    PROVE  BInv'
<1> DEFINE all == items \o Page
<1>1. /\ pc = "sending" /\ CountRequest /\ pages' = pages + 1
      /\ items' = SubSeq(all, 1, Lesser(cap, Len(all))) /\ attempt' = 0
      /\ held' = held /\ cap' = cap /\ first' = first
      /\ \/ pc' = "listed" /\ offset' = offset
         \/ pc' = "sending" /\ offset' = NextOffset /\ ~PagesUsedUp
    BY DEF Collect, Goto, setting
<1>2. all \in Seq(Nat)
    BY PageTyped DEF BInv
<1>3. cap \in Nat
    BY Config DEF BInv, Typed
<1>4. items' \in Seq(Nat) /\ Len(items') <= cap
    BY <1>1, <1>2, <1>3, CutTyped
<1>5. pages \in Nat /\ pages < MaxPages /\ sent \in Nat
    BY <1>1 DEF BInv, Typed, SentCounted, Requesting
<1>6. sent' = sent + 1 /\ sent' <= (pages + 1) * (MaxRetries + 1) /\ sent' <= RequestBound
    BY <1>1, OneMoreRequest
<1>7. Typed'
    <2>1. pages' \in 0..MaxPages /\ sent' \in Nat /\ attempt' \in 0..MaxRetries
        BY <1>1, <1>5, <1>6, Config
    <2>2. offset' \in Nat
        BY <1>1, Config DEF NextOffset, BInv, Typed
    <2> QED
        BY <1>1, <1>4, <2>1, <2>2 DEF BInv, Typed
<1>8. SentCounted'
    <2>1. pc' = "sending" => pages' < MaxPages
        BY <1>1, <1>5, Config DEF PagesUsedUp
    <2>2. (pages + 1) * (MaxRetries + 1) \in Nat
        BY <1>5, Config, PageMore
    <2>3. sent' <= pages' * (MaxRetries + 1) + attempt'
        BY <1>1, <1>6, <2>2
    <2>4. RequestBound' = RequestBound
        BY DEF RequestBound
    <2> QED
        BY <1>1, <1>6, <2>1, <2>3, <2>4 DEF SentCounted, Requesting
<1> QED
    BY <1>1, <1>4, <1>7, <1>8 DEF BInv

LEMMA RetryBounded ==
    ASSUME BInv, NEW delay, Retry(delay)
    PROVE  BInv'
<1>1. /\ pc = "sending" /\ CountRequest
      /\ UNCHANGED <<held, cap, first, items, offset, pages>>
      /\ \/ pc' = "sleeping" /\ attempt < MaxRetries /\ attempt' = attempt + 1
         \/ pc' = "failed" /\ attempt' = attempt
    BY DEF Retry, Goto, setting
<1>2. /\ sent' = sent + 1 /\ sent' <= RequestBound
      /\ sent' <= pages * (MaxRetries + 1) + attempt + 1
    BY <1>1, OneMoreRequest
<1>3. /\ attempt \in Nat /\ attempt <= MaxRetries /\ sent \in Nat
      /\ pages \in Nat /\ pages < MaxPages
    BY <1>1, Config DEF BInv, Typed, SentCounted, Requesting
<1>4. Typed'
    <2>1. attempt' \in 0..MaxRetries /\ sent' \in Nat
        BY <1>1, <1>2, <1>3, Config
    <2> QED
        BY <1>1, <2>1 DEF BInv, Typed
<1>5. SentCounted'
    <2>1. pages * (MaxRetries + 1) \in Nat
        BY <1>3, PageMore
    <2>2. pc' = "sleeping" => sent' <= pages' * (MaxRetries + 1) + attempt'
        BY <1>1, <1>2, <1>3, <2>1
    <2>3. RequestBound' = RequestBound
        BY DEF RequestBound
    <2> QED
        BY <1>1, <1>2, <1>3, <2>2, <2>3 DEF SentCounted, Requesting
<1> QED
    BY <1>1, <1>4, <1>5 DEF BInv

\* A step that neither receives nor retries: it counts at most one request, and
\* asks for no page that was not asked for.
LEMMA GiveUpBounded ==
    ASSUME BInv, GiveUpAtOnce
    PROVE  BInv'
<1>1. /\ pc = "sending" /\ pc' = "failed" /\ CountRequest
      /\ UNCHANGED <<held, cap, first, items, offset, pages, attempt>>
    BY DEF GiveUpAtOnce, Goto, setting, progress
<1>2. sent' = sent + 1 /\ sent' <= RequestBound /\ sent \in Nat
    BY <1>1, OneMoreRequest DEF BInv, Typed
<1>3. Typed'
    BY <1>1, <1>2 DEF BInv, Typed
<1>4. SentCounted'
    BY <1>1, <1>2 DEF SentCounted, Requesting, RequestBound
<1> QED
    BY <1>1, <1>3, <1>4 DEF BInv

\* Items are added anywhere: those in front keep their place, those behind move
\* back by one.
LEMMA GrownIs ==
    ASSUME Typed, NEW i \in 0..Len(held)
    PROVE  LET new == SubSeq(held, 1, i) \o <<Len(held) + 1>> \o SubSeq(held, i + 1, Len(held))
           IN  /\ new \in Seq(Nat) /\ Len(new) = Len(held) + 1
               /\ \A j \in 1..i : new[j] = held[j]
               /\ \A j \in (i + 1)..Len(held) : new[j + 1] = held[j]
<1> DEFINE front == SubSeq(held, 1, i)
<1> DEFINE back == SubSeq(held, i + 1, Len(held))
<1> DEFINE upToNew == front \o <<Len(held) + 1>>
<1> DEFINE new == upToNew \o back
<1>1. /\ Len(held) \in Nat /\ i \in Nat /\ i <= Len(held)
      /\ \A j \in 1..Len(held) : held[j] \in Nat
    BY LenProperties, ElementOfSeq DEF Typed
<1>2. /\ front \in Seq(Nat) /\ Len(front) = i
      /\ \A j \in 1..i : front[j] = held[j]
    <2>1. /\ front \in Seq(Nat) /\ Len(front) = IF 1 <= i THEN i - 1 + 1 ELSE 0
          /\ \A j \in 1..(i - 1 + 1) : front[j] = held[1 + j - 1]
        BY <1>1, SubSeqProperties
    <2> QED
        BY <1>1, <2>1
<1>3. /\ back \in Seq(Nat) /\ Len(back) = Len(held) - i
      /\ \A j \in 1..(Len(held) - i) : back[j] = held[i + j]
    <2>1. /\ back \in Seq(Nat)
          /\ Len(back) = IF i + 1 <= Len(held) THEN Len(held) - (i + 1) + 1 ELSE 0
          /\ \A j \in 1..(Len(held) - (i + 1) + 1) : back[j] = held[(i + 1) + j - 1]
        BY <1>1, SubSeqProperties
    <2> QED
        BY <1>1, <2>1
<1>4. <<Len(held) + 1>> \in Seq(Nat) /\ Len(<<Len(held) + 1>>) = 1
    BY <1>1
<1> HIDE DEF front, back
<1>5. /\ upToNew \in Seq(Nat) /\ Len(upToNew) = i + 1
      /\ \A j \in 1..i : upToNew[j] = front[j]
    <2>1. /\ upToNew \in Seq(Nat) /\ Len(upToNew) = Len(front) + 1
          /\ \A j \in 1..(Len(front) + 1) :
                 upToNew[j] = IF j <= Len(front) THEN front[j] ELSE <<Len(held) + 1>>[j - Len(front)]
        BY <1>2, <1>4, ConcatProperties
    <2> QED
        BY <1>1, <1>2, <2>1
<1> HIDE DEF upToNew
<1>6. /\ new \in Seq(Nat) /\ Len(new) = Len(held) + 1
      /\ \A j \in 1..(Len(held) + 1) :
             new[j] = IF j <= i + 1 THEN upToNew[j] ELSE back[j - (i + 1)]
    <2>1. /\ new \in Seq(Nat) /\ Len(new) = Len(upToNew) + Len(back)
          /\ \A j \in 1..(Len(upToNew) + Len(back)) :
                 new[j] = IF j <= Len(upToNew) THEN upToNew[j] ELSE back[j - Len(upToNew)]
        BY <1>3, <1>5, ConcatProperties
    <2>2. Len(upToNew) + Len(back) = Len(held) + 1
        BY <1>1, <1>3, <1>5
    <2> QED
        BY <1>5, <2>1, <2>2
<1> HIDE DEF new
<1>7. ASSUME NEW j \in 1..i PROVE new[j] = held[j]
    BY <1>1, <1>2, <1>5, <1>6
<1>8. ASSUME NEW j \in (i + 1)..Len(held) PROVE new[j + 1] = held[j]
    <2>1. /\ j + 1 \in 1..(Len(held) + 1) /\ ~(j + 1 <= i + 1)
          /\ (j + 1) - (i + 1) = j - i /\ j - i \in 1..(Len(held) - i) /\ i + (j - i) = j
        BY <1>1
    <2> QED
        BY <1>3, <1>6, <2>1
<1> QED
    BY <1>6, <1>7, <1>8 DEF new, upToNew, front, back

LEMMA NextBounded == BInv /\ [Next]_vars => BInv'
<1> SUFFICES ASSUME BInv, [Next]_vars PROVE BInv'
    OBVIOUS
<1>1. CASE Receive
    BY <1>1, CollectBounded DEF Receive, PagerDutyPage, ServiceNowPage, ConfluencePage
<1>2. CASE Throttled \/ Unavailable
    BY <1>2, RetryBounded DEF Throttled, Unavailable
<1>3. CASE GiveUpAtOnce
    BY <1>3, GiveUpBounded
<1>4. CASE Grow
    <2>1. PICK i \in 0..Len(held) :
              held' = SubSeq(held, 1, i) \o <<Len(held) + 1>>
                          \o SubSeq(held, i + 1, Len(held))
        BY <1>4 DEF Grow
    <2>2. held' \in Seq(Nat)
        BY <2>1, GrownIs DEF BInv
    <2> QED
        BY <1>4, <2>2 DEF Grow, BInv, Typed, SentCounted, Requesting, RequestBound,
            setting, progress
<1>5. CASE RejectCall \/ AcceptCall \/ WakeUp \/ Reply
    <2>1. /\ UNCHANGED <<held, cap, first, items, offset, pages, attempt, sent>>
          /\ \/ pc = "called" /\ pc' \in {"answered", "sending"}
             \/ pc = "sleeping" /\ pc' = "sending"
             \/ pc \in {"listed", "failed"} /\ pc' = "answered"
        BY <1>5 DEF RejectCall, AcceptCall, WakeUp, Reply, Goto, setting, progress
    <2>2. Typed'
        BY <2>1 DEF BInv, Typed
    <2>3. SentCounted'
        <3>1. pc = "called" => pages * (MaxRetries + 1) + attempt = 0 /\ pages < MaxPages
            BY Config DEF BInv, SentCounted
        <3> QED
            BY <2>1, <3>1 DEF BInv, SentCounted, Requesting, RequestBound
    <2> QED
        BY <2>1, <2>2, <2>3 DEF BInv
<1>6. CASE Answered \/ UNCHANGED vars
    BY <1>6 DEF Answered, vars, BInv, Typed, SentCounted, Requesting, RequestBound
<1> QED
    BY <1>1, <1>2, <1>3, <1>4, <1>5, <1>6 DEF Next, Answer

(***************************************************************************)
(* _get and _get_list: max_pages, max_retries and max_items bound a call   *)
(* together, for any configuration and any vendor.                         *)
(***************************************************************************)
THEOREM CallBounded == Spec => []Bounded
<1>1. BInv => Bounded
    BY DEF BInv, SentCounted, Bounded
<1> QED
    BY <1>1, InitBounded, NextBounded, PTL DEF Spec

(***************************************************************************)
(* The types, the waiting time among them.                                 *)
(***************************************************************************)
\* 2 ^ n counts the subsets of a set of n.
LEMMA PowerOfTwo ==
    ASSUME NEW n \in Nat
    PROVE  2 ^ n \in Nat
<1>1. IsFiniteSet(1..n) /\ Cardinality(1..n) = n
    BY FS_Interval
<1>2. IsFiniteSet(SUBSET (1..n)) /\ Cardinality(SUBSET (1..n)) = 2 ^ n
    BY <1>1, FS_SUBSET
<1> QED
    BY <1>2, FS_CardinalityType

\* _backoff: never negative, and never more than backoff_max_s.
LEMMA BackoffIs ==
    ASSUME attempt \in Nat
    PROVE  Backoff \in Nat /\ Backoff <= BackoffMax
<1>1. BackoffBase \in Nat /\ BackoffMax \in Nat /\ 2 ^ attempt \in Nat
    BY PowerOfTwo, ConnectorAssumption
<1> DEFINE doubled == BackoffBase * 2 ^ attempt
<1>2. doubled \in Nat
    BY <1>1
<1>3. Backoff = IF BackoffMax < doubled THEN BackoffMax ELSE doubled
    BY DEF Backoff, Lesser
<1> HIDE DEF doubled
<1> QED
    BY <1>1, <1>2, <1>3

\* The waits there are: one of the backoff, or one the vendor asked for.
Waits == 0..BackoffMax \cup (RetryAfters \cap Nat)

WInv == vendor \in Vendors /\ wait \in Waits /\ ok \in BOOLEAN

LEMMA NextWait == BInv /\ WInv /\ [Next]_vars => WInv'
<1> SUFFICES ASSUME BInv, WInv, [Next]_vars PROVE WInv'
    OBVIOUS
<1>1. ASSUME NEW delay \in Waits, Retry(delay) PROVE WInv'
    BY <1>1 DEF Retry, Goto, setting, WInv
<1>2. CASE Throttled \/ Unavailable
    <2>1. Backoff \in Waits
        <3>1. attempt \in Nat
            BY Config DEF BInv, Typed
        <3>2. Backoff \in Nat /\ Backoff <= BackoffMax
            BY <3>1, BackoffIs
        <3> QED
            BY <3>2, ConnectorAssumption DEF Waits
    <2>2. \A s \in RetryAfters : (IF s < 0 THEN 0 ELSE s) \in Waits
        BY ConnectorAssumption DEF Waits
    <2> QED
        BY <1>1, <1>2, <2>1, <2>2 DEF Throttled, Unavailable
<1>3. CASE Receive
    BY <1>3 DEF Receive, PagerDutyPage, ServiceNowPage, ConfluencePage, Collect, setting, WInv
<1>4. CASE GiveUpAtOnce \/ RejectCall \/ AcceptCall \/ Grow
    BY <1>4 DEF GiveUpAtOnce, RejectCall, AcceptCall, Grow, setting, WInv
<1>5. CASE WakeUp
    BY <1>5, ConnectorAssumption DEF WakeUp, setting, WInv, Waits
<1>6. CASE Reply
    <2>1. ok' \in BOOLEAN
        BY <1>6, Zenon DEF Reply
    <2> QED
        BY <1>6, <2>1 DEF Reply, setting, WInv
<1>7. CASE Answered \/ UNCHANGED vars
    BY <1>7 DEF Answered, vars, setting, WInv
<1> QED
    BY <1>2, <1>3, <1>4, <1>5, <1>6, <1>7 DEF Next, Answer

(***************************************************************************)
(* The types of a call, however it is throttled: the attempts and the      *)
(* pages within their bounds, and no wait longer than backoff_max_s unless *)
(* it is the one that the vendor's Retry-After asked for.                  *)
(***************************************************************************)
THEOREM CallTyped == Spec => []TypeOK
<1>1. Init => WInv
    <2>1. Init => ok \in BOOLEAN
        BY DEF Init
    <2>2. Init => wait \in Waits /\ vendor \in Vendors
        BY ConnectorAssumption DEF Init, Waits
    <2> QED
        BY <2>1, <2>2 DEF WInv
<1>2. BInv /\ WInv => TypeOK
    <2> SUFFICES ASSUME BInv, WInv PROVE TypeOK
        OBVIOUS
    <2>1. RequestBound \in Nat
        BY Config, PageMore
    <2>2. sent \in 0..(RequestBound + 1)
        BY <2>1 DEF BInv, Typed, SentCounted
    <2> QED
        BY <2>2 DEF BInv, Typed, WInv, Waits, TypeOK
<1> QED
    BY <1>1, <1>2, InitBounded, NextBounded, NextWait, PTL DEF Spec

----------------------------------------------------------------------------
(***************************************************************************)
(* Nothing is skipped.  As long as the call pages, an item there was when  *)
(* it began is collected or lies behind the offset, where insertions can   *)
(* only push it further back.                                              *)
(***************************************************************************)
Ahead(x) == \E j \in (offset + 1)..Len(held) : held[j] = x

Paging == pc \in {"called", "sending", "sleeping"}

SkippedNone == Len(items) < cap /\ pages < MaxPages => Elements(first) \subseteq Elements(items)

SInv ==
    /\ pc = "called" => offset = 0 /\ items = <<>>
    /\ Paging => \A x \in Elements(first) : x \in Elements(items) \/ Ahead(x)
    /\ pc = "listed" => SkippedNone
    /\ ok => pc = "answered" /\ SkippedNone

\* The page and what is collected with it, item by item.
LEMMA PageItems ==
    ASSUME Typed
    PROVE  LET upto == Lesser(offset + PageLimit, Len(held))
               got  == IF offset + 1 <= upto THEN upto - offset ELSE 0
           IN  /\ Page \in Seq(Nat) /\ Len(Page) = got
               /\ \A i \in 1..got : Page[i] = held[offset + i]
               /\ items \o Page \in Seq(Nat)
               /\ Len(items \o Page) = Len(items) + got
               /\ \A i \in 1..Len(items) : (items \o Page)[i] = items[i]
               /\ \A i \in 1..got : (items \o Page)[Len(items) + i] = held[offset + i]
<1> DEFINE upto == Lesser(offset + PageLimit, Len(held))
<1> DEFINE got == IF offset + 1 <= upto THEN upto - offset ELSE 0
<1>1. Len(held) \in Nat /\ offset \in Nat /\ PageLimit \in Nat
    BY Config, LenProperties DEF Typed
<1>2. upto \in Nat /\ upto <= Len(held)
    BY <1>1 DEF Lesser
<1>3. \A i \in (offset + 1)..upto : held[i] \in Nat
    BY <1>1, <1>2, ElementOfSeq DEF Typed
<1>4. Page = SubSeq(held, offset + 1, upto)
    BY DEF Page
<1> HIDE DEF upto
<1>5. /\ Page \in Seq(Nat)
      /\ Len(Page) = IF offset + 1 <= upto THEN upto - (offset + 1) + 1 ELSE 0
      /\ \A i \in 1..(upto - (offset + 1) + 1) : Page[i] = held[(offset + 1) + i - 1]
    BY <1>1, <1>2, <1>3, <1>4, SubSeqProperties
<1>6. Len(Page) = got /\ \A i \in 1..got : Page[i] = held[offset + i]
    BY <1>1, <1>2, <1>5
<1>7. items \in Seq(Nat) /\ Len(items) \in Nat /\ got \in Nat
    BY <1>1, <1>2, LenProperties DEF Typed
<1>8. /\ items \o Page \in Seq(Nat)
      /\ Len(items \o Page) = Len(items) + Len(Page)
      /\ \A i \in 1..(Len(items) + Len(Page)) :
             (items \o Page)[i] = IF i <= Len(items) THEN items[i] ELSE Page[i - Len(items)]
    BY <1>5, <1>7, ConcatProperties
<1> HIDE DEF got
<1>9. \A i \in 1..Len(items) : (items \o Page)[i] = items[i]
    BY <1>6, <1>7, <1>8
<1>10. \A i \in 1..got : (items \o Page)[Len(items) + i] = held[offset + i]
    <2> SUFFICES ASSUME NEW i \in 1..got
                 PROVE  (items \o Page)[Len(items) + i] = held[offset + i]
        OBVIOUS
    <2>1. Len(items) + i \in 1..(Len(items) + Len(Page)) /\ ~(Len(items) + i <= Len(items))
          /\ (Len(items) + i) - Len(items) = i
        BY <1>6, <1>7
    <2> QED
        BY <1>6, <1>8, <2>1
<1> QED
    BY <1>5, <1>6, <1>8, <1>9, <1>10 DEF upto, got

\* Below the cap, what is collected is kept whole.
LEMMA CutNothing ==
    ASSUME NEW all \in Seq(Nat), NEW n \in Nat, Len(all) < n
    PROVE  SubSeq(all, 1, Lesser(n, Len(all))) = all
<1>1. Lesser(n, Len(all)) = Len(all)
    BY LenProperties DEF Lesser
<1> QED
    BY <1>1, SubSeqFull

\* A page takes the items in front of the next offset.
LEMMA CollectSkipsNone ==
    ASSUME BInv, SInv, NEW last, Collect(last),
           last => Len(held) <= offset + PageLimit
    PROVE  SInv'
<1> DEFINE all == items \o Page
<1>1. /\ pc = "sending" /\ pages' = pages + 1 /\ ok' = ok
      /\ items' = SubSeq(all, 1, Lesser(cap, Len(all)))
      /\ held' = held /\ cap' = cap /\ first' = first
      /\ \/ pc' = "listed" /\ offset' = offset /\ (Len(all) >= cap \/ last \/ PagesUsedUp)
         \/ pc' = "sending" /\ offset' = NextOffset /\ ~(Len(all) >= cap)
    BY DEF Collect, Goto, setting
<1>2. /\ all \in Seq(Nat) /\ Len(all) \in Nat /\ cap \in Nat /\ offset \in Nat
      /\ Len(held) \in Nat /\ PageLimit \in Nat /\ pages \in Nat /\ Len(items) \in Nat
    BY PageItems, Config, LenProperties DEF BInv, Typed
<1>3. ~ok
    BY <1>1 DEF SInv
<1>4. ASSUME Len(all) < cap
      PROVE  items' = all
    BY <1>1, <1>2, <1>4, CutNothing
<1>5. \A x \in Elements(first) : x \in Elements(all) \/ \E j \in (offset + PageLimit + 1)..Len(held) : held[j] = x
    <2> SUFFICES ASSUME NEW x \in Elements(first),
                        ~ \E j \in (offset + PageLimit + 1)..Len(held) : held[j] = x
                 PROVE  x \in Elements(all)
        OBVIOUS
    <2>1. x \in Elements(items) \/ Ahead(x)
        BY <1>1 DEF SInv, Paging
    <2>2. CASE x \in Elements(items)
        <3>1. PICK i \in 1..Len(items) : items[i] = x
            BY <2>2 DEF Elements
        <3>2. all[i] = x /\ i \in 1..Len(all)
            BY <1>2, <3>1, PageItems DEF BInv, Lesser
        <3> QED
            BY <3>2 DEF Elements
    <2>3. CASE Ahead(x)
        <3>1. PICK j \in (offset + 1)..Len(held) : held[j] = x
            BY <2>3 DEF Ahead
        <3>2. j <= offset + PageLimit
            BY <1>2, <3>1
        <3> DEFINE upto == Lesser(offset + PageLimit, Len(held))
        <3> DEFINE got == IF offset + 1 <= upto THEN upto - offset ELSE 0
        <3>3. j - offset \in 1..got
            BY <1>2, <3>1, <3>2 DEF Lesser
        <3>4. offset + (j - offset) = j
            BY <1>2, <3>1
        <3>5. /\ Len(all) = Len(items) + got
              /\ \A i \in 1..got : all[Len(items) + i] = held[offset + i]
            BY PageItems DEF BInv
        <3>6. got \in Nat
            BY <1>2 DEF Lesser
        <3> HIDE DEF got
        <3>7. all[Len(items) + (j - offset)] = x
            BY <3>1, <3>3, <3>4, <3>5
        <3>8. Len(items) + (j - offset) \in 1..Len(all)
            BY <1>2, <3>3, <3>5, <3>6
        <3> QED
            BY <3>7, <3>8 DEF Elements
    <2> QED
        BY <2>1, <2>2, <2>3
<1> HIDE DEF all
<1>6. CASE pc' = "listed"
    <2> SUFFICES SkippedNone'
        BY <1>1, <1>3, <1>6 DEF SInv, Paging
    <2> SUFFICES ASSUME Len(items') < cap, pages' < MaxPages
                 PROVE  Elements(first) \subseteq Elements(items')
        BY <1>1 DEF SkippedNone, Elements
    <2>1. ~PagesUsedUp
        BY <1>1, <1>2, Config DEF PagesUsedUp
    <2>2. Len(all) < cap
        <3>1. SUFFICES ASSUME Len(all) >= cap PROVE ~(Len(items') < cap)
            BY <1>2
        <3>2. Lesser(cap, Len(all)) = cap
            BY <1>2, <3>1 DEF Lesser
        <3>3. \A i \in 1..cap : all[i] \in Nat
            BY <1>2, <3>1, ElementOfSeq
        <3>4. Len(SubSeq(all, 1, cap)) = IF 1 <= cap THEN cap - 1 + 1 ELSE 0
            BY <1>2, <3>3, SubSeqProperties
        <3> QED
            BY <1>1, <1>2, <3>2, <3>4
    <2>3. Len(held) <= offset + PageLimit
        BY <1>1, <1>2, <1>6, <2>1, <2>2
    <2>4. (offset + PageLimit + 1)..Len(held) = {}
        BY <1>2, <2>3
    <2> QED
        BY <1>4, <1>5, <2>2, <2>4
<1>7. CASE pc' = "sending"
    <2>1. Len(all) < cap /\ offset' = offset + PageLimit
        BY <1>1, <1>2, <1>7 DEF NextOffset
    <2>2. items' = all
        BY <1>4, <2>1
    <2>3. \A x \in Elements(first)' : x \in Elements(items)' \/ Ahead(x)'
        BY <1>1, <1>5, <2>1, <2>2 DEF Ahead, Elements
    <2> QED
        BY <1>1, <1>3, <1>7, <2>3 DEF SInv
<1> QED
    BY <1>1, <1>6, <1>7

\* An item inserted anywhere moves what lies behind the offset further back.
LEMMA GrowSkipsNone ==
    ASSUME BInv, SInv, Grow
    PROVE  SInv'
<1>1. /\ pc # "answered" /\ UNCHANGED <<pc, ok, first, items, offset, pages, cap>>
    BY DEF Grow, setting, progress
<1>2. PICK i \in 0..Len(held) :
          held' = SubSeq(held, 1, i) \o <<Len(held) + 1>> \o SubSeq(held, i + 1, Len(held))
    BY DEF Grow
<1>3. /\ Len(held) \in Nat /\ i \in Nat /\ i <= Len(held) /\ offset \in Nat
      /\ Len(held') = Len(held) + 1
      /\ \A j \in 1..i : held'[j] = held[j]
      /\ \A j \in (i + 1)..Len(held) : held'[j + 1] = held[j]
    <2>1. held \in Seq(Nat) /\ offset \in Nat
        BY DEF BInv, Typed
    <2>2. Len(held) \in Nat /\ i \in Nat /\ i <= Len(held)
        BY <1>2, <2>1, LenProperties
    <2>3. /\ Len(held') = Len(held) + 1
          /\ \A j \in 1..i : held'[j] = held[j]
          /\ \A j \in (i + 1)..Len(held) : held'[j + 1] = held[j]
        BY <1>2, GrownIs DEF BInv
    <2> QED
        BY <2>1, <2>2, <2>3
<1>4. ASSUME NEW x, Ahead(x) PROVE Ahead(x)'
    <2>1. PICK j \in (offset + 1)..Len(held) : held[j] = x
        BY <1>4 DEF Ahead
    <2>2. CASE j <= i
        <3>1. j \in 1..i /\ j \in (offset + 1)..Len(held')
            BY <1>3, <2>1, <2>2
        <3> QED
            BY <1>1, <1>3, <2>1, <3>1 DEF Ahead
    <2>3. CASE ~(j <= i)
        <3>1. j \in (i + 1)..Len(held) /\ j + 1 \in (offset + 1)..Len(held')
            BY <1>3, <2>1, <2>3
        <3> QED
            BY <1>1, <1>3, <2>1, <3>1 DEF Ahead
    <2> QED
        BY <2>2, <2>3
<1>5. Elements(first)' = Elements(first) /\ Elements(items)' = Elements(items)
    BY <1>1 DEF Elements
<1> QED
    BY <1>1, <1>4, <1>5 DEF SInv, Paging, SkippedNone

LEMMA InitSkipsNone == Init => SInv
<1> SUFFICES ASSUME Init PROVE SInv
    OBVIOUS
<1>1. ASSUME NEW x \in Elements(first) PROVE Ahead(x)
    BY <1>1 DEF Init, Elements, Ahead
<1> QED
    BY <1>1 DEF Init, SInv

LEMMA NextSkipsNone == BInv /\ SInv /\ [Next]_vars => SInv'
<1> SUFFICES ASSUME BInv, SInv, [Next]_vars PROVE SInv'
    OBVIOUS
<1>0. Len(held) \in Nat /\ offset \in Nat /\ PageLimit \in Nat \ {0}
    BY Config, LenProperties DEF BInv, Typed
<1>1. CASE Receive
    <2>1. ~MoreToCome => Len(held) <= offset + PageLimit
        BY <1>0 DEF MoreToCome
    <2>2. Len(Page) < PageLimit => Len(held) <= offset + PageLimit
        <3>1. Len(Page) = IF offset + 1 <= Lesser(offset + PageLimit, Len(held))
                          THEN Lesser(offset + PageLimit, Len(held)) - offset ELSE 0
            BY PageItems DEF BInv
        <3> QED
            BY <1>0, <3>1 DEF Lesser
    <2> QED
        BY <1>1, <2>1, <2>2, CollectSkipsNone
            DEF Receive, PagerDutyPage, ServiceNowPage, ConfluencePage
<1>2. CASE Throttled \/ Unavailable \/ GiveUpAtOnce
    <2>1. /\ pc = "sending" /\ pc' \in {"sleeping", "failed"}
          /\ UNCHANGED <<held, first, ok, items, offset, pages, cap>>
        BY <1>2 DEF Throttled, Unavailable, Retry, GiveUpAtOnce, Goto, setting, progress
    <2> QED
        BY <2>1 DEF SInv, Paging, Ahead, Elements
<1>3. CASE Grow
    BY <1>3, GrowSkipsNone
<1>4. CASE RejectCall \/ AcceptCall \/ WakeUp
    <2>1. /\ \/ pc = "called" /\ pc' \in {"sending", "answered"}
             \/ pc = "sleeping" /\ pc' = "sending"
          /\ UNCHANGED <<held, first, ok, items, offset, pages, cap>>
        BY <1>4 DEF RejectCall, AcceptCall, WakeUp, Goto, setting, progress
    <2> QED
        BY <2>1 DEF SInv, Paging, Ahead, Elements
<1>5. CASE Reply
    <2>1. /\ pc' = "answered" /\ UNCHANGED <<held, first, items, offset, pages, cap>>
          /\ \/ pc = "listed"
             \/ pc = "failed" /\ ok' = FALSE
        BY <1>5 DEF Reply, setting, progress
    <2> QED
        BY <2>1 DEF SInv, Paging, SkippedNone, Elements
<1>6. CASE Answered \/ UNCHANGED vars
    <2>1. UNCHANGED <<pc, held, first, ok, items, offset, pages, cap>>
        BY <1>6 DEF Answered, vars
    <2>2. /\ Elements(first)' = Elements(first) /\ Elements(items)' = Elements(items)
          /\ \A x : Ahead(x)' <=> Ahead(x)
        BY <2>1 DEF Elements, Ahead
    <2>3. SkippedNone' <=> SkippedNone
        BY <2>1, <2>2 DEF SkippedNone
    <2> QED
        BY <2>1, <2>2, <2>3 DEF SInv, Paging
<1> QED
    BY <1>1, <1>2, <1>3, <1>4, <1>5, <1>6 DEF Next, Answer

(***************************************************************************)
(* _get_list of the three connectors: whatever is added while the call     *)
(* pages, a call that neither the cap nor the page bound ended has every   *)
(* item there was when it began.                                           *)
(***************************************************************************)
THEOREM ListComplete == Spec => []NothingSkipped
<1>1. SInv => NothingSkipped
    BY DEF SInv, SkippedNone, NothingSkipped
<1>2. Init => BInv /\ SInv
    BY InitBounded, InitSkipsNone
<1>3. BInv /\ SInv /\ [Next]_vars => (BInv /\ SInv)'
    BY NextBounded, NextSkipsNone
<1> QED
    BY <1>1, <1>2, <1>3, PTL DEF Spec

----------------------------------------------------------------------------
(***************************************************************************)
(* The list is exact while nothing is added: what is collected is what the *)
(* vendor lists in front of the offset, and the offset counts the pages.   *)
(***************************************************************************)
Wanted == Lesser(Len(first), Lesser(cap, MaxPages * PageLimit))

Exact == items = SubSeq(first, 1, Wanted)

EInv ==
    /\ Len(held) >= Len(first)
    /\ held = first =>
           /\ Requesting => /\ offset = pages * PageLimit /\ offset <= Len(first)
                            /\ items = SubSeq(first, 1, offset)
           /\ pc = "listed" \/ ok => Exact

\* Sequences that agree up to k have the same first k items.
LEMMA SamePrefix ==
    ASSUME NEW s \in Seq(Nat), NEW t \in Seq(Nat), NEW k \in Nat,
           k <= Len(s), k <= Len(t), \A i \in 1..k : s[i] = t[i]
    PROVE  SubSeq(s, 1, k) = SubSeq(t, 1, k)
<1>1. Len(s) \in Nat /\ Len(t) \in Nat
    BY LenProperties
<1>2. (\A i \in 1..k : s[i] \in Nat) /\ (\A i \in 1..k : t[i] \in Nat)
    BY <1>1, ElementOfSeq
<1>3. /\ SubSeq(s, 1, k) \in Seq(Nat) /\ SubSeq(t, 1, k) \in Seq(Nat)
      /\ Len(SubSeq(s, 1, k)) = IF 1 <= k THEN k - 1 + 1 ELSE 0
      /\ Len(SubSeq(t, 1, k)) = IF 1 <= k THEN k - 1 + 1 ELSE 0
      /\ \A i \in 1..(k - 1 + 1) : SubSeq(s, 1, k)[i] = s[1 + i - 1]
      /\ \A i \in 1..(k - 1 + 1) : SubSeq(t, 1, k)[i] = t[1 + i - 1]
    BY <1>2, SubSeqProperties
<1>4. Len(SubSeq(s, 1, k)) = k /\ Len(SubSeq(t, 1, k)) = k
    BY <1>3
<1>5. \A i \in 1..k : SubSeq(s, 1, k)[i] = SubSeq(t, 1, k)[i]
    BY <1>3
<1> QED
    BY <1>3, <1>4, <1>5, SeqEqual

\* A prefix: its length and its items.
LEMMA PrefixIs ==
    ASSUME NEW s \in Seq(Nat), NEW k \in Nat, k <= Len(s)
    PROVE  /\ Len(SubSeq(s, 1, k)) = k
           /\ \A i \in 1..k : SubSeq(s, 1, k)[i] = s[i]
<1>1. \A i \in 1..k : s[i] \in Nat
    BY LenProperties, ElementOfSeq
<1>2. /\ Len(SubSeq(s, 1, k)) = IF 1 <= k THEN k - 1 + 1 ELSE 0
      /\ \A i \in 1..(k - 1 + 1) : SubSeq(s, 1, k)[i] = s[1 + i - 1]
    BY <1>1, SubSeqProperties
<1> QED
    BY <1>2

LEMMA CollectExact ==
    ASSUME BInv, SInv, EInv, NEW last, Collect(last),
           last => Len(held) <= offset + PageLimit,
           ~last => offset + PageLimit <= Len(held),
           held = first
    PROVE  EInv'
<1> DEFINE all == items \o Page
<1> DEFINE m == Lesser(offset + PageLimit, Len(first))
<1>1. /\ pc = "sending" /\ pages' = pages + 1 /\ ok' = ok
      /\ items' = SubSeq(all, 1, Lesser(cap, Len(all)))
      /\ held' = held /\ cap' = cap /\ first' = first
      /\ \/ pc' = "listed" /\ (Len(all) >= cap \/ last \/ PagesUsedUp)
         \/ /\ pc' = "sending" /\ offset' = NextOffset
            /\ ~(Len(all) >= cap) /\ ~last /\ ~PagesUsedUp
    BY DEF Collect, Goto, setting
<1>2. /\ cap \in Nat /\ offset \in Nat /\ Len(first) \in Nat /\ PageLimit \in Nat
      /\ pages \in Nat /\ pages < MaxPages /\ first \in Seq(Nat)
    BY <1>1, Config, LenProperties DEF BInv, Typed, SentCounted, Requesting
<1>3. /\ offset = pages * PageLimit /\ offset <= Len(first)
      /\ items = SubSeq(first, 1, offset)
    BY <1>1 DEF EInv, Requesting
<1>4. Len(items) = offset /\ \A i \in 1..offset : items[i] = first[i]
    BY <1>2, <1>3, PrefixIs
<1>5. m \in Nat /\ offset <= m /\ m <= Len(first)
    BY <1>2, <1>3 DEF Lesser
<1> DEFINE got == IF offset + 1 <= m THEN m - offset ELSE 0
<1>6. got = m - offset /\ got \in Nat
    BY <1>2, <1>5
<1>7. /\ all \in Seq(Nat) /\ Len(all) = Len(items) + got
      /\ \A i \in 1..Len(items) : all[i] = items[i]
      /\ \A i \in 1..got : all[Len(items) + i] = first[offset + i]
    BY PageItems DEF BInv
<1> HIDE DEF got, all
<1>8. Len(all) = m
    BY <1>2, <1>4, <1>5, <1>6, <1>7
<1>9. \A i \in 1..m : all[i] = first[i]
    <2> SUFFICES ASSUME NEW i \in 1..m PROVE all[i] = first[i]
        OBVIOUS
    <2>1. CASE i <= offset
        <3>1. i \in 1..offset
            BY <1>2, <2>1
        <3> QED
            BY <1>4, <1>7, <3>1
    <2>2. CASE ~(i <= offset)
        <3>1. i - offset \in 1..got /\ offset + (i - offset) = i
            BY <1>2, <1>5, <1>6, <2>2
        <3> QED
            BY <1>4, <1>7, <3>1
    <2> QED
        BY <2>1, <2>2
<1> DEFINE k == Lesser(cap, m)
<1>10. k \in Nat /\ k <= m
    BY <1>2, <1>5 DEF Lesser
<1>11. items' = SubSeq(first, 1, k)
    <2>1. k <= Len(all) /\ k <= Len(first) /\ \A i \in 1..k : all[i] = first[i]
        BY <1>2, <1>5, <1>8, <1>9, <1>10
    <2>2. items' = SubSeq(all, 1, k)
        BY <1>1, <1>8
    <2> HIDE DEF k
    <2> QED
        BY <1>2, <1>7, <1>10, <2>1, <2>2, SamePrefix
<1> DEFINE bound == MaxPages * PageLimit
<1> DEFINE next == (pages + 1) * PageLimit
<1>12. /\ bound \in Nat /\ next \in Nat /\ next <= bound
       /\ next = offset + PageLimit
       /\ pages + 1 >= MaxPages => next = bound
    <2>1. /\ bound \in Nat /\ next = pages * PageLimit + PageLimit /\ next <= bound
          /\ pages * PageLimit \in Nat
        BY <1>2, Config, OneMoreTimes
    <2>2. ASSUME pages + 1 >= MaxPages PROVE pages + 1 = MaxPages
        BY <1>2, <2>2, Config
    <2> QED
        BY <1>2, <1>3, <2>1, <2>2
<1>13. Wanted = Lesser(Len(first), Lesser(cap, bound))
    BY DEF Wanted
<1>14. Wanted' = Wanted
    BY <1>1 DEF Wanted
<1>15. CASE pc' = "listed"
    <2>1. m >= cap \/ Len(first) <= offset + PageLimit \/ pages + 1 >= MaxPages
        BY <1>1, <1>8, <1>15 DEF PagesUsedUp
    <2> HIDE DEF bound, next
    <2>2. k = Wanted
        BY <1>2, <1>12, <1>13, <2>1 DEF Lesser
    <2>3. Exact'
        BY <1>1, <1>11, <1>14, <2>2 DEF Exact
    <2> QED
        BY <1>1, <1>15, <2>3 DEF EInv, Requesting
<1>16. CASE pc' = "sending"
    <2>1. ~(m >= cap) /\ offset + PageLimit <= Len(first) /\ offset' = offset + PageLimit
        BY <1>1, <1>8, <1>16 DEF NextOffset
    <2>2. m = offset + PageLimit /\ k = m
        BY <1>2, <1>5, <2>1 DEF Lesser
    <2>3. offset' = pages' * PageLimit /\ offset' <= Len(first)
        BY <1>1, <1>2, <1>5, <1>12, <2>1, <2>2
    <2>4. items' = SubSeq(first, 1, offset')
        BY <1>11, <2>1, <2>2
    <2>5. ok => Exact'
        BY <1>1 DEF SInv
    <2> QED
        BY <1>1, <1>16, <2>3, <2>4, <2>5 DEF EInv, Requesting
<1> QED
    BY <1>1, <1>15, <1>16

LEMMA NextExact == BInv /\ SInv /\ EInv /\ [Next]_vars => EInv'
<1> SUFFICES ASSUME BInv, SInv, EInv, [Next]_vars PROVE EInv'
    OBVIOUS
<1>0. /\ Len(held) \in Nat /\ Len(first) \in Nat /\ offset \in Nat
      /\ PageLimit \in Nat \ {0} /\ Len(held) >= Len(first)
    BY Config, LenProperties DEF BInv, Typed, EInv
<1>1. CASE Receive
    <2>1. MoreToCome <=> offset + PageLimit < Len(held)
        BY DEF MoreToCome
    <2>2. Len(Page) < PageLimit <=> Len(held) < offset + PageLimit
        <3>1. Len(Page) = IF offset + 1 <= Lesser(offset + PageLimit, Len(held))
                          THEN Lesser(offset + PageLimit, Len(held)) - offset ELSE 0
            BY PageItems DEF BInv
        <3> QED
            BY <1>0, <3>1 DEF Lesser
    <2>3. held' = held /\ first' = first
        BY <1>1 DEF Receive, PagerDutyPage, ServiceNowPage, ConfluencePage, Collect, setting
    <2>4. CASE held = first /\ PagerDutyPage
        <3>1. Collect(~MoreToCome)
            BY <2>4 DEF PagerDutyPage
        <3>2. ~MoreToCome => Len(held) <= offset + PageLimit
            BY <1>0, <2>1
        <3>3. ~(~MoreToCome) => offset + PageLimit <= Len(held)
            BY <1>0, <2>1
        <3> QED
            BY <2>4, <3>1, <3>2, <3>3, CollectExact
    <2>5. CASE held = first /\ ServiceNowPage
        <3>1. Collect(Len(Page) < PageLimit)
            BY <2>5 DEF ServiceNowPage
        <3>2. Len(Page) < PageLimit => Len(held) <= offset + PageLimit
            BY <1>0, <2>2
        <3>3. ~(Len(Page) < PageLimit) => offset + PageLimit <= Len(held)
            BY <1>0, <2>2
        <3> QED
            BY <2>5, <3>1, <3>2, <3>3, CollectExact
    <2>6. CASE held = first /\ ConfluencePage
        <3>1. Collect(~MoreToCome \/ Len(Page) < PageLimit)
            BY <2>6 DEF ConfluencePage
        <3>2. (~MoreToCome \/ Len(Page) < PageLimit) => Len(held) <= offset + PageLimit
            BY <1>0, <2>1, <2>2
        <3>3. ~(~MoreToCome \/ Len(Page) < PageLimit) => offset + PageLimit <= Len(held)
            BY <1>0, <2>1, <2>2
        <3> QED
            BY <2>6, <3>1, <3>2, <3>3, CollectExact
    <2>7. CASE held # first
        BY <1>0, <2>3, <2>7 DEF EInv
    <2> QED
        BY <1>1, <2>4, <2>5, <2>6, <2>7 DEF Receive
<1>2. CASE Throttled \/ Unavailable \/ GiveUpAtOnce
    <2>1. /\ pc = "sending" /\ pc' \in {"sleeping", "failed"}
          /\ UNCHANGED <<held, first, ok, items, offset, pages, cap>>
        BY <1>2 DEF Throttled, Unavailable, Retry, GiveUpAtOnce, Goto, setting, progress
    <2> QED
        BY <2>1 DEF EInv, Requesting, Exact, Wanted
<1>3. CASE Grow
    <2>1. PICK i \in 0..Len(held) :
              held' = SubSeq(held, 1, i) \o <<Len(held) + 1>>
                          \o SubSeq(held, i + 1, Len(held))
        BY <1>3 DEF Grow
    <2>2. first' = first
        BY <1>3 DEF Grow, setting
    <2>3. Len(held') = Len(held) + 1
        BY <2>1, GrownIs DEF BInv
    <2>4. held' # first'
        BY <1>0, <2>2, <2>3
    <2>5. Len(held') >= Len(first')
        BY <1>0, <2>2, <2>3
    <2> QED
        BY <2>4, <2>5 DEF EInv
<1>4. CASE RejectCall \/ AcceptCall \/ WakeUp
    <2>1. /\ \/ pc = "called" /\ pc' \in {"sending", "answered"}
             \/ pc = "sleeping" /\ pc' = "sending"
          /\ UNCHANGED <<held, first, ok, items, offset, pages, cap>>
        BY <1>4 DEF RejectCall, AcceptCall, WakeUp, Goto, setting, progress
    <2>2. CASE pc = "sleeping"
        BY <2>1, <2>2 DEF EInv, Requesting, Exact, Wanted
    <2>3. CASE pc = "called"
        <3>1. offset = 0 /\ items = <<>> /\ pages = 0 /\ ~ok
            BY <2>3 DEF SInv, BInv, SentCounted
        <3>2. pages * PageLimit = 0
            BY <1>0, <3>1
        <3>3. SubSeq(first, 1, 0) = <<>>
            BY SubSeqEmpty
        <3> QED
            BY <1>0, <2>1, <2>3, <3>1, <3>2, <3>3 DEF EInv, Requesting
    <2> QED
        BY <2>1, <2>2, <2>3
<1>5. CASE Reply
    <2>1. /\ pc' = "answered" /\ UNCHANGED <<held, first, items, offset, pages, cap>>
          /\ \/ pc = "listed"
             \/ pc = "failed" /\ ok' = FALSE
        BY <1>5 DEF Reply, setting, progress
    <2> QED
        BY <2>1 DEF EInv, Requesting, Exact, Wanted
<1>6. CASE Answered \/ UNCHANGED vars
    <2>1. UNCHANGED <<pc, held, first, ok, items, offset, pages, cap>>
        BY <1>6 DEF Answered, vars
    <2> QED
        BY <2>1 DEF EInv, Requesting, Exact, Wanted
<1> QED
    BY <1>1, <1>2, <1>3, <1>4, <1>5, <1>6 DEF Next, Answer

(***************************************************************************)
(* _get_list of the three connectors: while nothing is added, a successful *)
(* call returns the first items, in order, up to the cap and the pages     *)
(* that fit, whatever was retried and whichever signal ended it.           *)
(***************************************************************************)
THEOREM ListIsExact == Spec => []ListExact
<1>1. EInv => ListExact
    <2> SUFFICES ASSUME EInv, ok, held = first
                 PROVE  items = SubSeq(first, 1, Lesser(Len(first),
                                           Lesser(cap, MaxPages * PageLimit)))
        BY DEF ListExact
    <2> QED
        BY DEF EInv, Exact, Wanted
<1>2. Init => BInv /\ SInv /\ EInv
    <2>1. Init => EInv
        <3> SUFFICES ASSUME Init PROVE EInv
            OBVIOUS
        <3>1. Typed
            BY InitBounded DEF BInv
        <3>2. Len(held) \in Nat
            BY <3>1, LenProperties DEF Typed
        <3> QED
            BY <3>2 DEF Init, EInv, Requesting
    <2> QED
        BY <2>1, InitBounded, InitSkipsNone
<1>3. BInv /\ SInv /\ EInv /\ [Next]_vars => (BInv /\ SInv /\ EInv)'
    BY NextBounded, NextSkipsNone, NextExact
<1> QED
    BY <1>1, <1>2, <1>3, PTL DEF Spec

(***************************************************************************)
(* The list of a call is exact while nothing is added and complete in any  *)
(* case, for any vendors, caps and pages.                                  *)
(***************************************************************************)
THEOREM ListIsFaithful == Spec => []ListFaithful
BY ListComplete, ListIsExact, PTL DEF ListFaithful
===============================================================================
