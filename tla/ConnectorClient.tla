---------------------------- MODULE ConnectorClient ----------------------------
(***************************************************************************)
(* One call of a listing tool of an MCP connector: the server's call_tool, *)
(* the client's paging loop (_get_list) and the retry loop under it        *)
(* (_get).  The PagerDuty, ServiceNow and Confluence clients share both    *)
(* loops and differ in the signal that ends the paging.  Meanwhile what    *)
(* the vendor holds may grow.  A tool that fetches one record is a list    *)
(* with a single page.                                                     *)
(***************************************************************************)
EXTENDS Integers, Sequences

CONSTANTS
    Vendors,        \* the connectors under study
    Caps,           \* the values `cap' may take: max_items of call or config
    PageLimit,      \* config.page_limit
    MaxPages,       \* config.max_pages
    MaxRetries,     \* config.max_retries
    BackoffBase,    \* config.backoff_base_s
    BackoffMax,     \* config.backoff_max_s
    RetryAfters,    \* the Retry-After values that occur
    MaxHeld,        \* bound on what the vendor holds when it is called
    MaxGrowth       \* bound on what is added during the call

ASSUME ConnectorAssumption ==
    /\ Vendors \subseteq {"pagerduty", "servicenow", "confluence"}
    /\ Caps \subseteq Nat \ {0}
    /\ PageLimit \in Nat \ {0}
    /\ MaxPages \in Nat \ {0}
    /\ MaxRetries \in Nat
    /\ BackoffBase \in Nat /\ BackoffMax \in Nat
    /\ RetryAfters \subseteq Int
    /\ MaxHeld \in Nat /\ MaxGrowth \in Nat

VARIABLES
    pc,         \* "called", "sending", "sleeping", "listed", "failed", "answered"
    vendor,     \* the connector called
    cap,        \* the most items the caller takes
    held,       \* what the vendor holds, in the order it lists it
    first,      \* what it held when the tool was called
    items,      \* the items collected
    offset,     \* the offset of the page asked for
    pages,      \* the pages received
    attempt,    \* the retries of this page
    wait,       \* how long the client sleeps before it asks again
    sent,       \* the requests sent, counted up to one above their bound
    ok          \* ToolResult.ok, once answered

progress == <<items, offset, pages, attempt>>
setting  == <<vendor, cap, first>>
vars == <<pc, vendor, cap, held, first, items, offset, pages, attempt, wait, sent, ok>>

Lesser(a, b) == IF a < b THEN a ELSE b

\* The requests one call may send.
RequestBound == MaxPages * (MaxRetries + 1)

Init ==
    /\ pc = "called"
    /\ vendor \in Vendors
    /\ cap \in Caps
    /\ \E n \in 0..MaxHeld : held = [i \in 1..n |-> i]
    /\ first = held
    /\ items = <<>>
    /\ offset = 0 /\ pages = 0 /\ attempt = 0 /\ wait = 0 /\ sent = 0
    /\ ok = FALSE

Goto(from, to) == pc = from /\ pc' = to

\* call_tool: an unknown or mutating tool or invalid parameters.
RejectCall ==
    /\ Goto("called", "answered")
    /\ UNCHANGED <<held, wait, sent, ok, setting, progress>>

AcceptCall ==
    /\ Goto("called", "sending")
    /\ UNCHANGED <<held, wait, sent, ok, setting, progress>>

----------------------------------------------------------------------------
(***************************************************************************)
(* The vendor's answer to a request, and what the client makes of it.      *)
(***************************************************************************)
CountRequest == sent' = Lesser(sent + 1, RequestBound + 1)

\* What the vendor lists from the offset asked for, and whether more follows.
Page == SubSeq(held, offset + 1, Lesser(offset + PageLimit, Len(held)))

MoreToCome == offset + PageLimit < Len(held)

\* Mutant of PagesUsedUp: the page count is compared before it is increased.
PagesUsedUpLate == pages >= MaxPages

PagesUsedUp == pages + 1 >= MaxPages

\* Mutant of NextOffset: the offset grows by all that has been collected.
NextOffsetByTotal == offset + Len(items) + Len(Page)

NextOffset == offset + PageLimit

\* A page: collect it, then stop at the cap, the last page or the page bound.
Collect(last) ==
    LET all == items \o Page IN
    /\ CountRequest
    /\ pages' = pages + 1
    /\ items' = SubSeq(all, 1, Lesser(cap, Len(all)))
    /\ attempt' = 0
    /\ IF Len(all) >= cap \/ last \/ PagesUsedUp
       THEN Goto("sending", "listed") /\ UNCHANGED offset
       ELSE Goto("sending", "sending") /\ offset' = NextOffset
    /\ UNCHANGED <<held, wait, ok, setting>>

\* PagerDuty says `more' as long as there is more.
PagerDutyPage == vendor = "pagerduty" /\ Collect(~MoreToCome)

\* ServiceNow says nothing: a page that is not full is the last one.
ServiceNowPage == vendor = "servicenow" /\ Collect(Len(Page) < PageLimit)

\* Confluence links to the next page; a page that is not full ends it too.
ConfluencePage ==
    /\ vendor = "confluence"
    /\ Collect(~MoreToCome \/ Len(Page) < PageLimit)

Receive == PagerDutyPage \/ ServiceNowPage \/ ConfluencePage

\* 401, 403, 404, another status, or a body that is not JSON: no retry.
GiveUpAtOnce ==
    /\ Goto("sending", "failed")
    /\ CountRequest
    /\ UNCHANGED <<held, wait, ok, setting, progress>>

Backoff == Lesser(BackoffMax, BackoffBase * 2 ^ attempt)

\* Mutant of Retry: the retry is not counted.
RetryUncounted(delay) ==
    /\ CountRequest
    /\ IF attempt < MaxRetries
       THEN Goto("sending", "sleeping") /\ wait' = delay
       ELSE Goto("sending", "failed") /\ UNCHANGED wait
    /\ UNCHANGED <<held, ok, attempt, setting, items, offset, pages>>

\* Sleep and ask again, as long as retries are left.
Retry(delay) ==
    /\ CountRequest
    /\ IF attempt < MaxRetries
       THEN Goto("sending", "sleeping") /\ wait' = delay /\ attempt' = attempt + 1
       ELSE Goto("sending", "failed") /\ UNCHANGED <<wait, attempt>>
    /\ UNCHANGED <<held, ok, setting, items, offset, pages>>

\* 429: Retry-After if it is a number (not below zero), else the backoff.
Throttled ==
    \/ Retry(Backoff)
    \/ \E s \in RetryAfters : Retry(IF s < 0 THEN 0 ELSE s)

\* 5xx, or the transport raised.
Unavailable == Retry(Backoff)

Answer == Receive \/ GiveUpAtOnce \/ Throttled \/ Unavailable

WakeUp ==
    /\ Goto("sleeping", "sending")
    /\ wait' = 0
    /\ UNCHANGED <<held, sent, ok, setting, progress>>

----------------------------------------------------------------------------
\* The handler validates the rows and call_tool wraps the result; a row that
\* does not validate, like an error of the client, is a failed result.
Reply ==
    /\ \/ pc = "listed" /\ ok' \in BOOLEAN
       \/ pc = "failed" /\ ok' = FALSE
    /\ pc' = "answered"
    /\ UNCHANGED <<held, wait, sent, setting, progress>>

\* A new item appears at any place of the vendor's listing.
Grow ==
    /\ pc # "answered"
    /\ Len(held) < Len(first) + MaxGrowth
    /\ \E i \in 0..Len(held) :
           held' = SubSeq(held, 1, i) \o <<Len(held) + 1>>
                       \o SubSeq(held, i + 1, Len(held))
    /\ UNCHANGED <<pc, wait, sent, ok, setting, progress>>

Answered == pc = "answered" /\ UNCHANGED vars

Next == RejectCall \/ AcceptCall \/ Answer \/ WakeUp \/ Reply \/ Grow \/ Answered

Spec == Init /\ [][Next]_vars

\* A request is answered or times out, a sleep ends, the server replies.
FairSpec == Spec /\ WF_vars(RejectCall \/ AcceptCall \/ Answer \/ WakeUp \/ Reply)

----------------------------------------------------------------------------
TypeOK ==
    /\ pc \in {"called", "sending", "sleeping", "listed", "failed", "answered"}
    /\ vendor \in Vendors
    /\ cap \in Caps
    /\ held \in Seq(Nat) /\ first \in Seq(Nat) /\ items \in Seq(Nat)
    /\ offset \in Nat
    /\ pages \in 0..MaxPages
    /\ attempt \in 0..MaxRetries
    /\ wait \in 0..BackoffMax \cup (RetryAfters \cap Nat)
    /\ sent \in 0..(RequestBound + 1)
    /\ ok \in BOOLEAN

Elements(s) == {s[i] : i \in 1..Len(s)}

(***************************************************************************)
(* The bounds of the configuration hold together: however the vendor       *)
(* answers, one call sends no more than max_pages times max_retries + 1    *)
(* requests, and no caller gets more than it asked for.                    *)
(***************************************************************************)
Bounded == sent <= RequestBound /\ Len(items) <= cap

(***************************************************************************)
(* The list is the vendor's list: while nothing is added, a successful     *)
(* call returns exactly the first items, in order, up to the cap and the   *)
(* pages that fit, whichever signal ends the paging and whatever was       *)
(* retried on the way.                                                     *)
(***************************************************************************)
ListExact ==
    ok /\ held = first =>
        items = SubSeq(first, 1, Lesser(Len(first), Lesser(cap, MaxPages * PageLimit)))

(***************************************************************************)
(* What was there is not skipped: when items are added while the client    *)
(* pages, it may see one twice, but a call that stopped at neither bound   *)
(* has seen every item there was when it began.                            *)
(***************************************************************************)
NothingSkipped ==
    ok /\ Len(items) < cap /\ pages < MaxPages =>
        Elements(first) \subseteq Elements(items)

(***************************************************************************)
(* Every call is answered, by a result or by an error.                     *)
(***************************************************************************)
EveryCallAnswered == pc = "called" ~> pc = "answered"

(***************************************************************************)
(* The list a call returns is faithful: exact if nothing was added while   *)
(* it paged, and complete in any case unless it stopped at a bound.        *)
(***************************************************************************)
ListFaithful == ListExact /\ NothingSkipped
===============================================================================
