-------------------------- MODULE InvestigationAccess --------------------------
(***************************************************************************)
(* Who may see and do what with the investigations (services/api/auth.py,  *)
(* db/repositories.py, the row-level security of the schema), and the      *)
(* listing that GET /investigations serves page by page: every page is a   *)
(* transaction of its own, and between two pages investigations are        *)
(* created, committed late, decided and change their status.               *)
(*                                                                         *)
(* A row is filtered twice, by the repository's clause on the caller's     *)
(* teams and by the database, which reads the teams from a setting of the  *)
(* transaction, joined by commas.                                          *)
(***************************************************************************)
EXTENDS Integers, Sequences, FiniteSets, Functions

CONSTANTS
    Principal,  \* the callers
    Claims,     \* Claims[p]: the roles and the teams in p's verified token
    Team,       \* the team ids, each the sequence of its comma-separated parts
    Id,         \* the investigation ids, ordered as the database orders uuids
    Status,     \* the statuses of a row
    Filters,    \* the status filters a listing is called with, or Any
    PageSize,   \* page_size
    MaxTime,    \* bound: the number of instants told apart
    MaxApprovals \* bound: the number of approvals kept

Any == "any"

\* A team id that is missing or empty.
NoTeam == <<"">>

ASSUME AccessAssumption ==
    /\ Team \subseteq Seq(STRING) \ {<<>>, NoTeam}
    /\ \A p \in Principal : Claims[p].teams \in Seq(Team \cup {NoTeam})
    /\ Id \subseteq Int /\ IsFiniteSet(Id)
    /\ "running" \in Status /\ Any \notin Status
    /\ Filters \subseteq Status \cup {Any}
    /\ PageSize \in Nat \ {0}
    /\ MaxTime \in Nat \ {0} /\ MaxApprovals \in Nat

VARIABLES
    clock,      \* the database's time
    pending,    \* pending[i]: the uncommitted create of investigation i, if any
    rows,       \* rows[i]: the committed row of investigation i, for each there is
    approvals,  \* the committed approvals: the investigation and the row's team_id
    listing,    \* the listing: whose, its filter, how far, the cursor to go on at
    shown,      \* the ids listed so far
    again,      \* the ids listed twice (history)
    stayed      \* the ids the listing was bound to show (history)

table == <<pending, rows, approvals>>
vars == <<clock, table, listing, shown, again, stayed>>

----------------------------------------------------------------------------
\* Roles and scope.  Unknown roles are ignored, an administrator has every role.
Role == {"viewer", "responder", "approver", "admin"}

Roles(p) == Claims[p].roles \cap Role

IsAdmin(p) == "admin" \in Roles(p)

HasAnyRole(p, wanted) == IsAdmin(p) \/ wanted \cap Roles(p) # {}

Scope(p) == [team_ids |-> Claims[p].teams, is_admin |-> IsAdmin(p)]

TeamClause(scope, team) == scope.is_admin \/ team \in Range(scope.team_ids)

\* apply_scope: ",".join(team_ids), the parts of all teams in a row.
Settings(scope) == [team_scope |-> Range(scope.team_ids),
                    is_admin   |-> scope.is_admin]

\* app_in_team_scope: the row's team is one of the parts split at the commas.
InTeamScope(settings, team) ==
    \/ settings.is_admin
    \/ team \in {<<part>> : part \in UNION {Range(t) : t \in settings.team_scope}}

Visible(p, team) ==
    /\ TeamClause(Scope(p), team)
    /\ InTeamScope(Settings(Scope(p)), team)

----------------------------------------------------------------------------
Idle == [by |-> "nobody", filter |-> Any, step |-> "idle", after |-> <<>>]

Init ==
    /\ clock = 1
    /\ pending = [i \in {} |-> 0]
    /\ rows = [i \in {} |-> 0]
    /\ approvals = {}
    /\ listing = Idle
    /\ shown = {} /\ again = {} /\ stayed = {}

Tick ==
    /\ clock < MaxTime
    /\ clock' = clock + 1
    /\ UNCHANGED <<table, listing, shown, again, stayed>>

\* team_id = body.team_id or principal.primary_team
TeamFor(p, asked) ==
    IF asked # NoTeam THEN asked
    ELSE IF Claims[p].teams # <<>> THEN Claims[p].teams[1] ELSE NoTeam

MayCreateIn(p, team) ==
    /\ team # NoTeam
    /\ IsAdmin(p) \/ team \in Range(Claims[p].teams)

\* create_investigation up to the flush: created_at is the time at which the
\* transaction began, the id is random.
Create(p, asked) ==
    /\ HasAnyRole(p, {"responder", "approver"})
    /\ MayCreateIn(p, TeamFor(p, asked))
    /\ \E i \in Id \ (DOMAIN pending \cup DOMAIN rows) :
           pending' = [j \in DOMAIN pending \cup {i} |->
                          IF j = i THEN [by |-> p, team |-> TeamFor(p, asked),
                                         created_at |-> clock]
                          ELSE pending[j]]
    /\ UNCHANGED <<clock, rows, approvals, listing, shown, again, stayed>>

\* The policy's WITH CHECK on the row of an insert.
Insertable(i) == InTeamScope(Settings(Scope(pending[i].by)), pending[i].team)

\* The policy refuses the insert: an error, and the transaction is rolled back.
RefuseCreate(i) ==
    /\ ~Insertable(i)
    /\ pending' = Restrict(pending, DOMAIN pending \ {i})
    /\ UNCHANGED <<clock, rows, approvals, listing, shown, again, stayed>>

\* The transaction commits.
CommitCreate(i) ==
    /\ Insertable(i)
    /\ rows' = [j \in DOMAIN rows \cup {i} |->
                   IF j = i THEN [team |-> pending[i].team, status |-> "running",
                                  created_at |-> pending[i].created_at]
                   ELSE rows[j]]
    /\ pending' = Restrict(pending, DOMAIN pending \ {i})
    /\ UNCHANGED <<clock, approvals, listing, shown, again, stayed>>

\* Mutant of ApprovalTeam: it belongs to the first team of its author.
ApprovalTeamOfAuthor(p, i) == TeamFor(p, NoTeam)

\* record_approval; an approval belongs to the team of its investigation.
ApprovalTeam(p, i) == rows[i].team

Approve(p, i) ==
    /\ Cardinality(approvals) < MaxApprovals
    /\ HasAnyRole(p, {"approver"})
    /\ Visible(p, rows[i].team)
    /\ approvals' = approvals \cup {[id |-> i, team |-> ApprovalTeam(p, i)]}
    /\ UNCHANGED <<clock, pending, rows, listing, shown, again, stayed>>

Matches(filter, status) == filter \in {Any, status}

\* set_status, at the end of a handler that sees the row.
SetStatus(i, s) ==
    /\ {p \in Principal : HasAnyRole(p, {"responder", "approver"})
                          /\ Visible(p, rows[i].team)} # {}
    /\ rows' = [rows EXCEPT ![i].status = s]
    /\ stayed' = IF Matches(listing.filter, s) THEN stayed ELSE stayed \ {i}
    /\ UNCHANGED <<clock, pending, approvals, listing, shown, again>>

----------------------------------------------------------------------------
\* The listing: newest first, ties broken by the id.
Key(i) == <<rows[i].created_at, i>>

Precedes(k, l) == k[1] < l[1] \/ (k[1] = l[1] /\ k[2] < l[2])

Fit(p, filter) ==
    {i \in DOMAIN rows : Visible(p, rows[i].team) /\ Matches(filter, rows[i].status)}

\* The first n in the order of the listing.
Newest(n, ids) ==
    {i \in ids : Cardinality({j \in ids \ {i} : Precedes(Key(i), Key(j))}) < n}

Beyond(k, after) == after = <<>> \/ Precedes(k, after)

\* repositories.list
List(limit, after, found) == Newest(limit, {i \in found : Beyond(Key(i), after)})

\* Mutant of Limit: no row beyond the page is asked for.
LimitExactly == PageSize

Limit == PageSize + 1

OpenListing(p, filter) ==
    /\ listing = Idle
    /\ HasAnyRole(p, {"viewer", "responder", "approver"})
    /\ listing' = [by |-> p, filter |-> filter, step |-> "paging", after |-> <<>>]
    /\ stayed' = Fit(p, filter)
    /\ UNCHANGED <<clock, table, shown, again>>

\* One page, and the cursor of the next one if there are rows beyond it.
ReadPage ==
    /\ listing.step = "paging"
    /\ LET found == List(Limit, listing.after, Fit(listing.by, listing.filter))
           page  == Newest(PageSize, found)
           last  == CHOOSE i \in page : \A j \in page : ~Precedes(Key(j), Key(i))
       IN  /\ shown' = shown \cup page
           /\ again' = again \cup (shown \cap page)
           /\ listing' = IF Cardinality(found) > PageSize
                         THEN [listing EXCEPT !.after = Key(last)]
                         ELSE [listing EXCEPT !.step = "done"]
    /\ UNCHANGED <<clock, table, stayed>>

Next ==
    \/ Tick
    \/ \E p \in Principal :
           \/ \E t \in Team \cup {NoTeam} : Create(p, t)
           \/ \E i \in DOMAIN rows : Approve(p, i)
           \/ \E f \in Filters : OpenListing(p, f)
    \/ \E i \in DOMAIN pending : CommitCreate(i) \/ RefuseCreate(i)
    \/ \E i \in DOMAIN rows : \E s \in Status \ {rows[i].status} : SetStatus(i, s)
    \/ ReadPage

Spec == Init /\ [][Next]_vars

----------------------------------------------------------------------------
TypeOK ==
    /\ clock \in 1..MaxTime
    /\ DOMAIN pending \cap DOMAIN rows = {}
    /\ \A i \in DOMAIN pending :
           pending[i] \in [by : Principal, team : Team, created_at : 1..MaxTime]
    /\ \A i \in DOMAIN rows :
           rows[i] \in [team : Team, status : Status, created_at : 1..MaxTime]
    /\ approvals \subseteq [id : DOMAIN rows, team : Team]
    /\ listing.step \in {"idle", "paging", "done"}
    /\ shown \cup again \cup stayed \subseteq DOMAIN rows

HasComma(team) == Len(team) > 1

(***************************************************************************)
(* A caller sees exactly the rows of the teams in the token, and an        *)
(* administrator all of them.  A team id with a comma, which the policy    *)
(* splits, opens no row of another team to its members, but only           *)
(* administrators see the rows of its own.                                 *)
(***************************************************************************)
OwnTeamsSeen ==
    \A p \in Principal : \A i \in DOMAIN rows :
        Visible(p, rows[i].team)
            <=> \/ IsAdmin(p)
                \/ rows[i].team \in Range(Claims[p].teams) /\ ~HasComma(rows[i].team)

(***************************************************************************)
(* What the router accepts, the database stores and its author sees; only  *)
(* for a team whose id has a comma does the policy refuse what the router  *)
(* let through, and then always: no row is stored that its author cannot   *)
(* see.                                                                    *)
(***************************************************************************)
AcceptedIsStored ==
    \A i \in DOMAIN pending :
        IF HasComma(pending[i].team) /\ ~IsAdmin(pending[i].by)
        THEN ~Insertable(i)
        ELSE Insertable(i) /\ Visible(pending[i].by, pending[i].team)

(***************************************************************************)
(* Whoever sees an investigation sees all of its approvals, and nobody     *)
(* else sees one, whichever team their author is of.                       *)
(***************************************************************************)
ApprovalsSeen ==
    \A a \in approvals : \A p \in Principal :
        Visible(p, a.team) <=> Visible(p, rows[a.id].team)

(***************************************************************************)
(* No investigation is listed twice, whatever is created or changed while  *)
(* the client pages.                                                       *)
(***************************************************************************)
NoneRepeated == again = {}

(***************************************************************************)
(* An investigation that was there when the listing began, and matched the *)
(* filter throughout, is listed by the time the last page has been read.   *)
(***************************************************************************)
NoneSkipped == listing.step = "done" => stayed \subseteq shown

(***************************************************************************)
(* The two filters, the router's check and an approval's own team come to  *)
(* one scope for each caller: the rows of its teams, the ones it stored    *)
(* among them, and the approvals of these.  Only a team id with a comma    *)
(* parts the filters, and then towards seeing less.                        *)
(***************************************************************************)
ScopeKept == OwnTeamsSeen /\ AcceptedIsStored /\ ApprovalsSeen

(***************************************************************************)
(* A listing shows what was there throughout, and shows it once, whatever  *)
(* is created, committed late or changed between its pages.                *)
(***************************************************************************)
PagesExact == NoneRepeated /\ NoneSkipped
===============================================================================
