----------------------- MODULE InvestigationAccessProofs -----------------------
(***************************************************************************)
(* Proofs about InvestigationAccess for any callers, teams, investigations *)
(* and page size, and for any length of the listing.                       *)
(***************************************************************************)
EXTENDS InvestigationAccess, FiniteSetTheorems, SequenceTheorems, WellFoundedInduction, TLAPS

----------------------------------------------------------------------------
(***************************************************************************)
(* The teams.                                                              *)
(***************************************************************************)

\* A team id has parts, and without a comma it is its only part.
LEMMA OnePart ==
    ASSUME NEW t \in Team
    PROVE  IF HasComma(t) THEN \A part : t # <<part>> ELSE t = <<t[1]>> /\ t[1] \in Range(t)
<1>1. t \in Seq(STRING) /\ t # <<>>
    BY AccessAssumption
<1>2. CASE HasComma(t)
    <2>1. ASSUME NEW part PROVE t # <<part>>
        <3>1. Len(<<part>>) = 1 /\ Len(t) > 1
            BY <1>2 DEF HasComma
        <3> QED
            BY <3>1
    <2> QED
        BY <1>2, <2>1
<1>3. CASE ~HasComma(t)
    <2>1. Len(t) = 1
        <3> DEFINE parts == Len(t)
        <3>1. parts \in Nat /\ parts # 0
            BY <1>1, EmptySeq
        <3>2. ~(parts > 1)
            BY <1>3 DEF HasComma
        <3> HIDE DEF parts
        <3>3. parts = 1
            BY <3>1, <3>2
        <3> QED
            BY <3>3 DEF parts
    <2>2. DOMAIN t = {1}
        BY <1>1, <2>1
    <2> QED
        BY <1>1, <1>3, <2>1, <2>2 DEF Range
<1> QED
    BY <1>2, <1>3

LEMMA TeamsOf ==
    ASSUME NEW p \in Principal
    PROVE  /\ Range(Claims[p].teams) \subseteq Team \cup {NoTeam}
           /\ Claims[p].teams # <<>> => Claims[p].teams[1] \in Range(Claims[p].teams)
<1>1. Claims[p].teams \in Seq(Team \cup {NoTeam})
    BY AccessAssumption
<1> QED
    BY <1>1 DEF Range

\* The policy lets the rows of the caller's own teams through, but for the
\* teams that it splits, and never the rows of a team with a comma.
LEMMA PolicyOfTeam ==
    ASSUME NEW p \in Principal, ~IsAdmin(p), NEW t \in Team
    PROVE  /\ HasComma(t) => ~InTeamScope(Settings(Scope(p)), t)
           /\ t \in Range(Claims[p].teams) /\ ~HasComma(t) => InTeamScope(Settings(Scope(p)), t)
<1> DEFINE mine == Range(Claims[p].teams)
<1>1. InTeamScope(Settings(Scope(p)), t)
          <=> t \in {<<part>> : part \in UNION {Range(u) : u \in mine}}
    BY DEF InTeamScope, Settings, Scope
<1>2. ASSUME HasComma(t) PROVE t \notin {<<part>> : part \in UNION {Range(u) : u \in mine}}
    BY <1>2, OnePart
<1>3. ASSUME t \in mine, ~HasComma(t)
      PROVE  t \in {<<part>> : part \in UNION {Range(u) : u \in mine}}
    BY <1>3, OnePart
<1> HIDE DEF mine
<1>4. ASSUME t \in mine, ~HasComma(t) PROVE InTeamScope(Settings(Scope(p)), t)
    BY <1>1, <1>3, <1>4
<1>5. ASSUME HasComma(t) PROVE ~InTeamScope(Settings(Scope(p)), t)
    BY <1>1, <1>2, <1>5
<1> QED
    BY <1>4, <1>5 DEF mine

\* What both filters let through.
LEMMA SeenOf ==
    ASSUME NEW p \in Principal, NEW t \in Team
    PROVE  Visible(p, t)
               <=> IsAdmin(p) \/ (t \in Range(Claims[p].teams) /\ ~HasComma(t))
<1>1. CASE IsAdmin(p)
    BY <1>1 DEF Visible, TeamClause, InTeamScope, Settings, Scope
<1>2. CASE ~IsAdmin(p)
    <2>1. TeamClause(Scope(p), t) <=> t \in Range(Claims[p].teams)
        BY <1>2 DEF TeamClause, Scope
    <2> QED
        BY <1>2, <2>1, PolicyOfTeam DEF Visible
<1> QED
    BY <1>1, <1>2

----------------------------------------------------------------------------
(***************************************************************************)
(* The order of the listing.                                               *)
(***************************************************************************)
RowsTyped ==
    /\ DOMAIN rows \subseteq Id
    /\ \A i \in DOMAIN rows :
           rows[i] \in [team : Team, status : Status, created_at : 1..MaxTime]

Newer(i, S) == {j \in S \ {i} : Precedes(Key(i), Key(j))}
Older(i, S) == {j \in S \ {i} : Precedes(Key(j), Key(i))}

LEMMA KeysOrdered ==
    ASSUME RowsTyped
    PROVE  /\ \A i \in DOMAIN rows : ~Precedes(Key(i), Key(i))
           /\ \A i, j \in DOMAIN rows :
                  i # j => Precedes(Key(i), Key(j)) \/ Precedes(Key(j), Key(i))
           /\ \A i, j, k \in DOMAIN rows :
                  Precedes(Key(i), Key(j)) /\ Precedes(Key(j), Key(k))
                      => Precedes(Key(i), Key(k))
<1>1. Id \subseteq Int /\ MaxTime \in Nat
    BY AccessAssumption
<1>2. \A i \in DOMAIN rows : i \in Int
    BY <1>1 DEF RowsTyped
<1>3. \A i \in DOMAIN rows : rows[i].created_at \in 1..MaxTime
    BY DEF RowsTyped
<1>4. \A i \in DOMAIN rows : rows[i].created_at \in Int
    BY <1>1, <1>3
<1> QED
    BY <1>2, <1>4 DEF Key, Precedes

\* The same with a cursor, which need not be the key of a row.
LEMMA CursorKeys ==
    ASSUME RowsTyped, NEW after \in Int \X Int, NEW i \in DOMAIN rows, NEW j \in DOMAIN rows,
           Precedes(Key(i), Key(j)), Precedes(Key(j), after)
    PROVE  Precedes(Key(i), after)
<1>1. Id \subseteq Int /\ MaxTime \in Nat
    BY AccessAssumption
<1>2. i \in Int /\ j \in Int
    BY <1>1 DEF RowsTyped
<1>3. rows[i].created_at \in 1..MaxTime /\ rows[j].created_at \in 1..MaxTime
    BY DEF RowsTyped
<1>4. rows[i].created_at \in Int /\ rows[j].created_at \in Int
    BY <1>1, <1>3
<1> QED
    BY <1>2, <1>4 DEF Key, Precedes

LEMMA RowsFinite ==
    ASSUME RowsTyped, NEW S \in SUBSET DOMAIN rows
    PROVE  IsFiniteSet(S) /\ Cardinality(S) \in Nat
<1>1. IsFiniteSet(S)
    BY AccessAssumption, FS_Subset DEF RowsTyped
<1> QED
    BY <1>1, FS_CardinalityType

\* Some row of a set is the newest, and some the oldest.
LEMMA HasNewest ==
    ASSUME RowsTyped, NEW S \in SUBSET DOMAIN rows, S # {}
    PROVE  \E m \in S : Newer(m, S) = {}
<1> DEFINE T == {Newer(i, S) : i \in S}
<1>1. T \subseteq FiniteSubsetsOf(S) /\ T # {}
    <2>1. \A i \in S : Newer(i, S) \in SUBSET S /\ Newer(i, S) \in SUBSET DOMAIN rows
        BY DEF Newer
    <2> QED
        BY <2>1, RowsFinite DEF FiniteSubsetsOf
<1>2. IsWellFoundedOn(StrictSubsetOrdering(S), FiniteSubsetsOf(S))
    BY FS_StrictSubsetOrderingWellFounded
<1>3. PICK x \in T : \A y \in T : <<y, x>> \notin StrictSubsetOrdering(S)
    <2> HIDE DEF T
    <2> QED
        BY <1>1, <1>2, WFMin
<1>4. PICK m \in S : x = Newer(m, S)
    OBVIOUS
<1>5. ASSUME NEW j \in Newer(m, S) PROVE FALSE
    <2>1. j \in S /\ Precedes(Key(m), Key(j))
        BY DEF Newer
    <2>2. Newer(j, S) \subseteq Newer(m, S) /\ j \notin Newer(j, S)
        BY <2>1, KeysOrdered DEF Newer
    <2>3. Newer(j, S) \in SUBSET S /\ Newer(m, S) \in SUBSET S
        BY DEF Newer
    <2>4. <<Newer(j, S), x>> \in StrictSubsetOrdering(S)
        BY <1>4, <2>2, <2>3 DEF StrictSubsetOrdering
    <2> QED
        BY <1>3, <2>1, <2>4
<1> QED
    BY <1>5

LEMMA HasOldest ==
    ASSUME RowsTyped, NEW S \in SUBSET DOMAIN rows, S # {}
    PROVE  \E m \in S : Older(m, S) = {}
<1> DEFINE T == {Older(i, S) : i \in S}
<1>1. T \subseteq FiniteSubsetsOf(S) /\ T # {}
    <2>1. \A i \in S : Older(i, S) \in SUBSET S /\ Older(i, S) \in SUBSET DOMAIN rows
        BY DEF Older
    <2> QED
        BY <2>1, RowsFinite DEF FiniteSubsetsOf
<1>2. IsWellFoundedOn(StrictSubsetOrdering(S), FiniteSubsetsOf(S))
    BY FS_StrictSubsetOrderingWellFounded
<1>3. PICK x \in T : \A y \in T : <<y, x>> \notin StrictSubsetOrdering(S)
    <2> HIDE DEF T
    <2> QED
        BY <1>1, <1>2, WFMin
<1>4. PICK m \in S : x = Older(m, S)
    OBVIOUS
<1>5. ASSUME NEW j \in Older(m, S) PROVE FALSE
    <2>1. j \in S /\ Precedes(Key(j), Key(m))
        BY DEF Older
    <2>2. Older(j, S) \subseteq Older(m, S) /\ j \notin Older(j, S)
        BY <2>1, KeysOrdered DEF Older
    <2>3. Older(j, S) \in SUBSET S /\ Older(m, S) \in SUBSET S
        BY DEF Older
    <2>4. <<Older(j, S), x>> \in StrictSubsetOrdering(S)
        BY <1>4, <2>2, <2>3 DEF StrictSubsetOrdering
    <2> QED
        BY <1>3, <2>1, <2>4
<1> QED
    BY <1>5

----------------------------------------------------------------------------
(***************************************************************************)
(* What a page holds, when the rows B are beyond the cursor.               *)
(***************************************************************************)
LEMMA NewestIs ==
    ASSUME NEW n, NEW S
    PROVE  Newest(n, S) = {i \in S : Cardinality(Newer(i, S)) < n}
BY DEF Newest, Newer

\* Up to n rows are their own n newest.
LEMMA FewAreNewest ==
    ASSUME RowsTyped, NEW n \in Nat, NEW S \in SUBSET DOMAIN rows, Cardinality(S) <= n
    PROVE  Newest(n, S) = S
<1>1. ASSUME NEW i \in S PROVE Cardinality(Newer(i, S)) < n
    <2>1. IsFiniteSet(S) /\ Cardinality(S) \in Nat
        BY RowsFinite
    <2>2. IsFiniteSet(S \ {i}) /\ Cardinality(S \ {i}) = Cardinality(S) - 1
        BY <2>1, FS_RemoveElement
    <2>3. Newer(i, S) \in SUBSET (S \ {i})
        BY DEF Newer
    <2>4. Cardinality(Newer(i, S)) <= Cardinality(S \ {i})
        BY <2>2, <2>3, FS_Subset
    <2>5. Cardinality(Newer(i, S)) \in Nat
        BY <2>3, RowsFinite
    <2> QED
        BY <2>1, <2>2, <2>4, <2>5
<1> QED
    BY <1>1, NewestIs

\* If fewer than n of the n newest are found, they are all.
LEMMA FewNewestAreAll ==
    ASSUME RowsTyped, NEW n \in Nat, NEW S \in SUBSET DOMAIN rows,
           Cardinality(Newest(n, S)) < n
    PROVE  Newest(n, S) = S
<1> DEFINE found == Newest(n, S)
<1> SUFFICES ASSUME S \ found # {} PROVE FALSE
    BY NewestIs
<1>1. PICK m \in S \ found : Newer(m, S \ found) = {}
    BY HasNewest
<1>2. Newer(m, S) \subseteq found
    BY <1>1 DEF Newer
<1>3. found \in SUBSET DOMAIN rows
    BY NewestIs
<1> HIDE DEF found
<1>4. /\ IsFiniteSet(found) /\ Cardinality(found) \in Nat
      /\ Cardinality(Newer(m, S)) \in Nat
    BY <1>2, <1>3, RowsFinite
<1>5. Cardinality(Newer(m, S)) <= Cardinality(found)
    BY <1>2, <1>4, FS_Subset
<1>6. Cardinality(Newer(m, S)) < n
    BY <1>4, <1>5 DEF found
<1> QED
    BY <1>1, <1>6, NewestIs DEF found

\* What is newer than one of the n newest is one of them.
LEMMA NewestFromTheTop ==
    ASSUME RowsTyped, NEW n \in Nat, NEW S \in SUBSET DOMAIN rows,
           NEW i \in S, NEW j \in Newest(n, S), Precedes(Key(j), Key(i))
    PROVE  i \in Newest(n, S)
<1>1. j \in S /\ Cardinality(Newer(j, S)) < n
    BY NewestIs
<1>2. Newer(i, S) \subseteq Newer(j, S)
    BY <1>1, KeysOrdered DEF Newer
<1>3. /\ IsFiniteSet(Newer(j, S)) /\ Cardinality(Newer(j, S)) \in Nat
      /\ Cardinality(Newer(i, S)) \in Nat
    <2>1. Newer(j, S) \in SUBSET DOMAIN rows /\ Newer(i, S) \in SUBSET DOMAIN rows
        BY DEF Newer
    <2> QED
        BY <2>1, RowsFinite
<1>4. Cardinality(Newer(i, S)) <= Cardinality(Newer(j, S))
    BY <1>2, <1>3, FS_Subset
<1>5. Cardinality(Newer(i, S)) < n
    BY <1>1, <1>3, <1>4
<1> QED
    BY <1>5, NewestIs

\* The rows S beyond the cursor, those found of them, and the page.
LEMMA PageIs ==
    ASSUME RowsTyped, NEW S \in SUBSET DOMAIN rows
    PROVE  LET found == Newest(Limit, S)
               page  == Newest(PageSize, found)
               last  == CHOOSE i \in page : \A j \in page : ~Precedes(Key(j), Key(i))
           IN  /\ page \subseteq S
               /\ ~(Cardinality(found) > PageSize) => page = S
               /\ Cardinality(found) > PageSize =>
                     /\ last \in page
                     /\ \A j \in page : ~Precedes(Key(j), Key(last))
                     /\ \A i \in S \ page : Precedes(Key(i), Key(last))
<1> DEFINE found == Newest(Limit, S)
<1> DEFINE page == Newest(PageSize, found)
<1> DEFINE last == CHOOSE i \in page : \A j \in page : ~Precedes(Key(j), Key(i))
<1>1. PageSize \in Nat \ {0} /\ Limit = PageSize + 1 /\ Limit \in Nat
    BY AccessAssumption DEF Limit
<1>2. found \subseteq S /\ page \subseteq found
    BY NewestIs
<1>3. Cardinality(found) \in Nat
    BY <1>2, RowsFinite
<1>4. ASSUME ~(Cardinality(found) > PageSize) PROVE page = S
    <2>1. Cardinality(found) <= PageSize /\ Cardinality(found) < Limit
        BY <1>1, <1>3, <1>4
    <2>2. found = S
        BY <1>1, <2>1, FewNewestAreAll
    <2> HIDE DEF found
    <2> QED
        BY <1>1, <2>1, <2>2, FewAreNewest
<1>5. ASSUME Cardinality(found) > PageSize
      PROVE  /\ last \in page
             /\ \A j \in page : ~Precedes(Key(j), Key(last))
             /\ \A i \in S \ page : Precedes(Key(i), Key(last))
    <2>1. page # {}
        <3>1. found # {}
            BY <1>1, <1>5, FS_EmptySet
        <3>2. PICK m \in found : Newer(m, found) = {}
            BY <1>2, <3>1, HasNewest
        <3>3. Cardinality(Newer(m, found)) < PageSize
            BY <1>1, <3>2, FS_EmptySet
        <3> QED
            BY <3>3, NewestIs
    <2>2. \E m \in page : \A j \in page : ~Precedes(Key(j), Key(m))
        <3>1. PICK m \in page : Older(m, page) = {}
            BY <1>2, <2>1, HasOldest
        <3>2. \A j \in page : ~Precedes(Key(j), Key(m))
            BY <1>2, <3>1, KeysOrdered DEF Older
        <3> QED
            BY <3>2
    <2> HIDE DEF page
    <2>3. last \in page /\ \A j \in page : ~Precedes(Key(j), Key(last))
        BY <2>2
    <2> HIDE DEF last
    <2>4. ASSUME NEW i \in S \ page PROVE Precedes(Key(i), Key(last))
        <3> SUFFICES ASSUME ~Precedes(Key(i), Key(last)) PROVE FALSE
            OBVIOUS
        <3>1. Precedes(Key(last), Key(i))
            BY <1>2, <2>3, <2>4, KeysOrdered
        <3>2. i \in found
            BY <1>1, <1>2, <2>3, <3>1, NewestFromTheTop
        <3>3. i \in page
            BY <1>1, <1>2, <2>3, <3>1, <3>2, NewestFromTheTop DEF page
        <3> QED
            BY <2>4, <3>3
    <2> QED
        BY <2>3, <2>4
<1> QED
    BY <1>2, <1>4, <1>5

----------------------------------------------------------------------------
(***************************************************************************)
(* The table: rows, uncommitted creates and approvals.                     *)
(***************************************************************************)
PendingTyped ==
    /\ DOMAIN pending \subseteq Id
    /\ DOMAIN pending \cap DOMAIN rows = {}
    /\ \A i \in DOMAIN pending :
           /\ pending[i] \in [by : Principal, team : Team, created_at : 1..MaxTime]
           /\ MayCreateIn(pending[i].by, pending[i].team)

\* An approval has the team of its row, which never changes.
ApprovalsTyped ==
    /\ approvals \subseteq [id : DOMAIN rows, team : Team]
    /\ \A a \in approvals : a.team = rows[a.id].team

TableInv == clock \in 1..MaxTime /\ RowsTyped /\ PendingTyped /\ ApprovalsTyped

LEMMA TeamForTyped ==
    ASSUME NEW p \in Principal, NEW t \in Team \cup {NoTeam}, TeamFor(p, t) # NoTeam
    PROVE  TeamFor(p, t) \in Team
BY TeamsOf DEF TeamFor

LEMMA InitTable == Init => TableInv
BY AccessAssumption DEF Init, TableInv, RowsTyped, PendingTyped, ApprovalsTyped

LEMMA NextTable == TableInv /\ [Next]_vars => TableInv'
<1> SUFFICES ASSUME TableInv, [Next]_vars PROVE TableInv'
    OBVIOUS
<1> USE DEF TableInv
<1>1. CASE Tick
    <2>1. clock' \in 1..MaxTime
        BY <1>1, AccessAssumption DEF Tick
    <2> QED
        BY <1>1, <2>1 DEF Tick, table, RowsTyped, PendingTyped, ApprovalsTyped
<1>2. ASSUME NEW p \in Principal, NEW t \in Team \cup {NoTeam}, Create(p, t) PROVE TableInv'
    <2>1. PICK i \in Id \ (DOMAIN pending \cup DOMAIN rows) :
              pending' = [j \in DOMAIN pending \cup {i} |->
                             IF j = i THEN [by |-> p, team |-> TeamFor(p, t),
                                            created_at |-> clock]
                             ELSE pending[j]]
        BY <1>2 DEF Create
    <2>2. MayCreateIn(p, TeamFor(p, t)) /\ UNCHANGED <<clock, rows, approvals>>
        BY <1>2 DEF Create
    <2>3. TeamFor(p, t) \in Team
        BY <2>2, TeamForTyped DEF MayCreateIn
    <2>4. PendingTyped'
        BY <2>1, <2>2, <2>3 DEF PendingTyped
    <2> QED
        BY <2>2, <2>4 DEF RowsTyped, ApprovalsTyped
<1>3. ASSUME NEW i \in DOMAIN pending, CommitCreate(i) PROVE TableInv'
    <2>1. /\ rows' = [j \in DOMAIN rows \cup {i} |->
                         IF j = i THEN [team |-> pending[i].team, status |-> "running",
                                        created_at |-> pending[i].created_at]
                         ELSE rows[j]]
          /\ pending' = [j \in DOMAIN pending \ {i} |-> pending[j]]
          /\ UNCHANGED <<clock, approvals>>
        BY <1>3 DEF CommitCreate, Restrict
    <2>2. /\ i \in Id /\ i \notin DOMAIN rows
          /\ pending[i].team \in Team /\ pending[i].created_at \in 1..MaxTime
        BY DEF PendingTyped
    <2>3. RowsTyped'
        BY <2>1, <2>2, AccessAssumption DEF RowsTyped
    <2>4. PendingTyped'
        BY <2>1 DEF PendingTyped
    <2>5. ApprovalsTyped'
        BY <2>1, <2>2 DEF ApprovalsTyped
    <2> QED
        BY <2>1, <2>3, <2>4, <2>5
<1>10. ASSUME NEW i \in DOMAIN pending, RefuseCreate(i) PROVE TableInv'
    <2>1. /\ pending' = [j \in DOMAIN pending \ {i} |-> pending[j]]
          /\ UNCHANGED <<clock, rows, approvals>>
        BY <1>10 DEF RefuseCreate, Restrict
    <2>2. PendingTyped'
        BY <2>1 DEF PendingTyped
    <2> QED
        BY <2>1, <2>2 DEF RowsTyped, ApprovalsTyped
<1>4. ASSUME NEW p \in Principal, NEW i \in DOMAIN rows, Approve(p, i) PROVE TableInv'
    <2>1. /\ approvals' = approvals \cup {[id |-> i, team |-> rows[i].team]}
          /\ UNCHANGED <<clock, pending, rows>>
        BY <1>4 DEF Approve, ApprovalTeam
    <2>2. ApprovalsTyped'
        BY <2>1 DEF ApprovalsTyped, RowsTyped
    <2> QED
        BY <2>1, <2>2 DEF RowsTyped, PendingTyped
<1>5. ASSUME NEW i \in DOMAIN rows, NEW s \in Status, SetStatus(i, s) PROVE TableInv'
    <2>1. /\ rows' = [rows EXCEPT ![i].status = s]
          /\ UNCHANGED <<clock, pending, approvals>>
        BY <1>5 DEF SetStatus
    <2>2. DOMAIN rows' = DOMAIN rows
        BY <2>1
    <2>3. \A j \in DOMAIN rows :
              /\ rows'[j] \in [team : Team, status : Status, created_at : 1..MaxTime]
              /\ rows'[j].team = rows[j].team
        BY <2>1 DEF RowsTyped
    <2> QED
        BY <2>1, <2>2, <2>3 DEF RowsTyped, PendingTyped, ApprovalsTyped
<1>6. CASE UNCHANGED <<clock, table>>
    BY <1>6 DEF table, RowsTyped, PendingTyped, ApprovalsTyped
<1>7. ASSUME NEW p \in Principal, NEW f \in Filters, OpenListing(p, f) PROVE TableInv'
    BY <1>6, <1>7 DEF OpenListing
<1>8. CASE ReadPage
    BY <1>6, <1>8 DEF ReadPage
<1>9. CASE UNCHANGED vars
    BY <1>6, <1>9 DEF vars
<1> QED
    BY <1>1, <1>2, <1>3, <1>4, <1>5, <1>7, <1>8, <1>9, <1>10 DEF Next

LEMMA AccessTable == Spec => []TableInv
BY InitTable, NextTable, PTL DEF Spec

(***************************************************************************)
(* auth.py, repositories.py and the policies of the schema: for any        *)
(* callers and any team ids, the two filters together let a caller see the *)
(* rows of its own teams, those with a comma in their id left out.         *)
(***************************************************************************)
THEOREM OwnTeamsAreSeen == Spec => []OwnTeamsSeen
<1>1. TableInv => OwnTeamsSeen
    BY SeenOf DEF TableInv, RowsTyped, OwnTeamsSeen
<1> QED
    BY <1>1, AccessTable, PTL

(***************************************************************************)
(* create_investigation: a create that the router's check lets through is  *)
(* one that the row-level policy stores and shows to its author, or else   *)
(* one for a team with a comma, which the policy always refuses.           *)
(***************************************************************************)
THEOREM AcceptedAreStored == Spec => []AcceptedIsStored
<1>1. TableInv => AcceptedIsStored
    <2> SUFFICES ASSUME TableInv, NEW i \in DOMAIN pending
                 PROVE  IF HasComma(pending[i].team) /\ ~IsAdmin(pending[i].by)
                        THEN ~Insertable(i)
                        ELSE Insertable(i) /\ Visible(pending[i].by, pending[i].team)
        BY DEF AcceptedIsStored
    <2>1. /\ pending[i].by \in Principal /\ pending[i].team \in Team
          /\ MayCreateIn(pending[i].by, pending[i].team)
        BY DEF TableInv, PendingTyped
    <2>2. IsAdmin(pending[i].by) \/ pending[i].team \in Range(Claims[pending[i].by].teams)
        BY <2>1 DEF MayCreateIn
    <2>3. CASE HasComma(pending[i].team) /\ ~IsAdmin(pending[i].by)
        BY <2>1, <2>3, PolicyOfTeam DEF Insertable
    <2>4. CASE ~(HasComma(pending[i].team) /\ ~IsAdmin(pending[i].by))
        <3>1. Visible(pending[i].by, pending[i].team)
            BY <2>1, <2>2, <2>4, SeenOf
        <3> QED
            BY <2>4, <3>1 DEF Visible, Insertable
    <2> QED
        BY <2>3, <2>4
<1> QED
    BY <1>1, AccessTable, PTL

(***************************************************************************)
(* record_approval: the approvals of an investigation are seen by exactly  *)
(* those who see the investigation.                                        *)
(***************************************************************************)
THEOREM ApprovalsAreSeen == Spec => []ApprovalsSeen
<1>1. TableInv => ApprovalsSeen
    BY DEF TableInv, ApprovalsTyped, ApprovalsSeen
<1> QED
    BY <1>1, AccessTable, PTL

----------------------------------------------------------------------------
(***************************************************************************)
(* The listing.  What has been shown is not beyond the cursor; what was    *)
(* bound to be shown has been, or is beyond it.                            *)
(***************************************************************************)
CursorTyped ==
    /\ listing.step \in {"idle", "paging", "done"}
    /\ DOMAIN listing = {"by", "filter", "step", "after"}
    /\ listing.after # <<>> => listing.after \in Int \X Int

ListInv ==
    /\ CursorTyped
    /\ listing.step = "idle" => shown = {} /\ stayed = {}
    /\ shown \subseteq DOMAIN rows /\ stayed \subseteq DOMAIN rows
    /\ again = {}
    /\ listing.step = "paging" =>
          /\ \A i \in shown : ~Beyond(Key(i), listing.after)
          /\ stayed \subseteq Fit(listing.by, listing.filter)
          /\ \A i \in stayed : i \in shown \/ Beyond(Key(i), listing.after)
    /\ listing.step = "done" => stayed \subseteq shown

LEMMA InitList == Init => ListInv
BY DEF Init, Idle, ListInv, CursorTyped

\* A row that is created or changes keeps the others' places.
LEMMA RowsChangeList ==
    ASSUME ListInv, UNCHANGED <<listing, shown, again>>,
           DOMAIN rows \subseteq DOMAIN rows', stayed' \subseteq stayed,
           \A i \in DOMAIN rows : /\ rows'[i].created_at = rows[i].created_at
                                  /\ rows'[i].team = rows[i].team,
           listing.step = "paging" =>
               \A i \in stayed' : Matches(listing.filter, rows'[i].status)
    PROVE  ListInv'
<1>1. \A i \in DOMAIN rows : Key(i)' = Key(i)
    BY DEF Key
<1>2. CursorTyped'
    BY DEF ListInv, CursorTyped
<1>3. ASSUME listing.step = "paging"
      PROVE  /\ \A i \in shown : ~Beyond(Key(i)', listing.after)
             /\ stayed' \subseteq Fit(listing.by, listing.filter)'
             /\ \A i \in stayed' : i \in shown \/ Beyond(Key(i)', listing.after)
    <2>1. stayed' \subseteq Fit(listing.by, listing.filter)'
        BY <1>3 DEF ListInv, Fit
    <2> QED
        BY <1>1, <1>3, <2>1 DEF ListInv
<1> QED
    BY <1>2, <1>3 DEF ListInv, Beyond

LEMMA ReadPageList ==
    ASSUME TableInv, ListInv, ReadPage
    PROVE  ListInv'
<1> DEFINE fit == Fit(listing.by, listing.filter)
<1> DEFINE beyond == {i \in fit : Beyond(Key(i), listing.after)}
<1> DEFINE found == Newest(Limit, beyond)
<1> DEFINE page == Newest(PageSize, found)
<1> DEFINE last == CHOOSE i \in page : \A j \in page : ~Precedes(Key(j), Key(i))
<1>1. /\ listing.step = "paging"
      /\ shown' = shown \cup page /\ again' = again \cup (shown \cap page)
      /\ listing' = IF Cardinality(found) > PageSize
                    THEN [listing EXCEPT !.after = Key(last)]
                    ELSE [listing EXCEPT !.step = "done"]
      /\ UNCHANGED <<rows, stayed>>
    BY DEF ReadPage, List, table
<1>2. RowsTyped
    BY DEF TableInv
<1>3. beyond \in SUBSET DOMAIN rows
    BY DEF Fit
<1>4. /\ page \subseteq beyond
      /\ ~(Cardinality(found) > PageSize) => page = beyond
      /\ Cardinality(found) > PageSize =>
            /\ last \in page
            /\ \A j \in page : ~Precedes(Key(j), Key(last))
            /\ \A i \in beyond \ page : Precedes(Key(i), Key(last))
    <2> HIDE DEF beyond
    <2> QED
        BY <1>2, <1>3, PageIs
<1> HIDE DEF page, found, last
<1>5. again' = {}
    <2>1. shown \cap page = {}
        BY <1>1, <1>4 DEF ListInv
    <2> QED
        BY <1>1, <2>1 DEF ListInv
<1>6. shown' \subseteq DOMAIN rows' /\ stayed' \subseteq DOMAIN rows'
    BY <1>1, <1>3, <1>4 DEF ListInv
<1>7. stayed \subseteq shown \cup beyond
    BY <1>1 DEF ListInv
<1>8. CASE ~(Cardinality(found) > PageSize)
    <2>1. listing' = [listing EXCEPT !.step = "done"]
        BY <1>1, <1>8
    <2>2. listing'.step = "done" /\ CursorTyped'
        BY <2>1 DEF ListInv, CursorTyped
    <2>3. stayed' \subseteq shown'
        BY <1>1, <1>4, <1>7, <1>8
    <2> QED
        BY <1>5, <1>6, <2>2, <2>3 DEF ListInv
<1>9. CASE Cardinality(found) > PageSize
    <2>1. last \in DOMAIN rows
        BY <1>3, <1>4, <1>9
    <2>2. Key(last) \in Int \X Int /\ Key(last) # <<>>
        <3>1. last \in Int /\ rows[last].created_at \in Int
            <4>1. Id \subseteq Int /\ MaxTime \in Nat
                BY AccessAssumption
            <4>2. rows[last].created_at \in 1..MaxTime /\ last \in Id
                BY <1>2, <2>1 DEF RowsTyped
            <4> QED
                BY <4>1, <4>2
        <3> QED
            BY <3>1 DEF Key
    <2>3. listing' = [listing EXCEPT !.after = Key(last)]
        BY <1>1, <1>9
    <2>4. /\ listing'.after = Key(last) /\ listing'.step = "paging"
          /\ listing'.by = listing.by /\ listing'.filter = listing.filter
        BY <1>1, <2>3 DEF ListInv, CursorTyped
    <2>5. CursorTyped'
        BY <2>2, <2>3, <2>4 DEF ListInv, CursorTyped
    <2>6. ASSUME NEW i \in shown' PROVE ~Precedes(Key(i), Key(last))
        <3>1. CASE i \in page
            BY <1>4, <1>9, <3>1
        <3>2. CASE i \in shown
            <4>1. listing.after # <<>> /\ ~Precedes(Key(i), listing.after)
                BY <1>1, <3>2 DEF ListInv, Beyond
            <4>2. Precedes(Key(last), listing.after)
                BY <1>4, <1>9, <4>1 DEF Beyond
            <4>3. i \in DOMAIN rows
                BY <3>2 DEF ListInv
            <4> QED
                BY <1>2, <2>1, <4>1, <4>2, <4>3, CursorKeys DEF ListInv, CursorTyped
        <3> QED
            BY <1>1, <3>1, <3>2
    <2>7. ASSUME NEW i \in stayed' PROVE i \in shown' \/ Precedes(Key(i), Key(last))
        BY <1>1, <1>4, <1>7, <1>9
    <2>8. \A i \in DOMAIN rows : Key(i)' = Key(i)
        BY <1>1 DEF Key
    <2>9. /\ \A i \in shown' : ~Beyond(Key(i)', listing'.after)
          /\ \A i \in stayed' : i \in shown' \/ Beyond(Key(i)', listing'.after)
        BY <1>1, <1>6, <2>2, <2>4, <2>6, <2>7, <2>8 DEF Beyond
    <2>10. stayed' \subseteq Fit(listing.by, listing.filter)'
        BY <1>1, <2>4 DEF ListInv, Fit
    <2> QED
        BY <1>5, <1>6, <2>4, <2>5, <2>9, <2>10 DEF ListInv
<1> QED
    BY <1>8, <1>9

LEMMA NextList == TableInv /\ ListInv /\ [Next]_vars => ListInv'
<1> SUFFICES ASSUME TableInv, ListInv, [Next]_vars PROVE ListInv'
    OBVIOUS
<1>1. CASE UNCHANGED <<rows, listing, shown, again, stayed>>
    <2>1. \A i \in stayed : listing.step = "paging" =>
              Matches(listing.filter, rows[i].status)
        BY DEF ListInv, Fit
    <2> QED
        BY <1>1, <2>1, RowsChangeList
<1>2. CASE Tick
    BY <1>1, <1>2 DEF Tick, table
<1>3. ASSUME NEW p \in Principal, NEW t \in Team \cup {NoTeam}, Create(p, t) PROVE ListInv'
    BY <1>1, <1>3 DEF Create
<1>4. ASSUME NEW i \in DOMAIN pending, CommitCreate(i) PROVE ListInv'
    <2>1. /\ rows' = [j \in DOMAIN rows \cup {i} |->
                         IF j = i THEN [team |-> pending[i].team, status |-> "running",
                                        created_at |-> pending[i].created_at]
                         ELSE rows[j]]
          /\ UNCHANGED <<listing, shown, again, stayed>>
        BY <1>4 DEF CommitCreate
    <2>2. i \notin DOMAIN rows
        BY DEF TableInv, PendingTyped
    <2>3. DOMAIN rows \subseteq DOMAIN rows' /\ \A j \in DOMAIN rows : rows'[j] = rows[j]
        BY <2>1, <2>2
    <2>4. listing.step = "paging" =>
              \A j \in stayed' : Matches(listing.filter, rows'[j].status)
        BY <2>1, <2>3 DEF ListInv, Fit
    <2> QED
        BY <2>1, <2>3, <2>4, RowsChangeList
<1>10. ASSUME NEW i \in DOMAIN pending, RefuseCreate(i) PROVE ListInv'
    BY <1>1, <1>10 DEF RefuseCreate
<1>5. ASSUME NEW p \in Principal, NEW i \in DOMAIN rows, Approve(p, i) PROVE ListInv'
    BY <1>1, <1>5 DEF Approve
<1>6. ASSUME NEW i \in DOMAIN rows, NEW s \in Status, SetStatus(i, s) PROVE ListInv'
    <2>1. /\ rows' = [rows EXCEPT ![i].status = s]
          /\ stayed' = IF Matches(listing.filter, s) THEN stayed ELSE stayed \ {i}
          /\ UNCHANGED <<listing, shown, again>>
        BY <1>6 DEF SetStatus
    <2>2. DOMAIN rows' = DOMAIN rows
        BY <2>1
    <2>3. \A j \in DOMAIN rows :
              /\ rows'[j].created_at = rows[j].created_at /\ rows'[j].team = rows[j].team
              /\ j # i => rows'[j].status = rows[j].status
              /\ j = i => rows'[j].status = s
        BY <2>1 DEF TableInv, RowsTyped
    <2>4. listing.step = "paging" =>
              \A j \in stayed' : Matches(listing.filter, rows'[j].status)
        BY <2>1, <2>3 DEF ListInv, Fit
    <2>5. stayed' \subseteq stayed
        BY <2>1
    <2> QED
        BY <2>1, <2>2, <2>3, <2>4, <2>5, RowsChangeList
<1>7. ASSUME NEW p \in Principal, NEW f \in Filters, OpenListing(p, f) PROVE ListInv'
    <2>1. /\ listing = Idle /\ stayed' = Fit(p, f)
          /\ listing' = [by |-> p, filter |-> f, step |-> "paging", after |-> <<>>]
          /\ UNCHANGED <<rows, shown, again>>
        BY <1>7 DEF OpenListing, table
    <2>2. shown' = {} /\ again' = {}
        BY <2>1 DEF ListInv, Idle
    <2>3. CursorTyped'
        BY <2>1 DEF CursorTyped
    <2>4. stayed' \subseteq DOMAIN rows' /\ stayed' \subseteq Fit(p, f)'
        BY <2>1 DEF Fit, Visible, Key
    <2> QED
        BY <2>1, <2>2, <2>3, <2>4 DEF ListInv, Beyond
<1>8. CASE ReadPage
    BY <1>8, ReadPageList
<1>9. CASE UNCHANGED vars
    BY <1>1, <1>9 DEF vars, table
<1> QED
    BY <1>2, <1>3, <1>4, <1>5, <1>6, <1>7, <1>8, <1>9, <1>10 DEF Next

LEMMA AccessList == Spec => [](TableInv /\ ListInv)
<1>1. Init => TableInv /\ ListInv
    BY InitTable, InitList
<1>2. TableInv /\ ListInv /\ [Next]_vars => (TableInv /\ ListInv)'
    BY NextTable, NextList
<1> QED
    BY <1>1, <1>2, PTL DEF Spec

(***************************************************************************)
(* GET /investigations: no page repeats what an earlier one showed,        *)
(* whatever is created, committed late or changed between two pages.       *)
(***************************************************************************)
THEOREM ListingRepeatsNone == Spec => []NoneRepeated
<1>1. ListInv => NoneRepeated
    BY DEF ListInv, NoneRepeated
<1> QED
    BY <1>1, AccessList, PTL

(***************************************************************************)
(* GET /investigations: what was there and matched throughout has been     *)
(* shown when the last page has been read.                                 *)
(***************************************************************************)
THEOREM ListingSkipsNone == Spec => []NoneSkipped
<1>1. ListInv => NoneSkipped
    BY DEF ListInv, NoneSkipped
<1> QED
    BY <1>1, AccessList, PTL

(***************************************************************************)
(* The types of the table, the listing and its history.                    *)
(***************************************************************************)
THEOREM AccessTypeCorrect == Spec => []TypeOK
<1>1. TableInv /\ ListInv => TypeOK
    BY DEF TableInv, ListInv, RowsTyped, PendingTyped, ApprovalsTyped, CursorTyped, TypeOK
<1> QED
    BY <1>1, AccessList, PTL

(***************************************************************************)
(* The team scope of a caller, for any callers and any team ids: the rows  *)
(* of its teams, the creates that are stored, and the approvals.  A comma  *)
(* in a team id only ever takes rows away.                                 *)
(***************************************************************************)
THEOREM ScopeIsKept == Spec => []ScopeKept
BY OwnTeamsAreSeen, AcceptedAreStored, ApprovalsAreSeen, PTL DEF ScopeKept

(***************************************************************************)
(* A listing shows what was there throughout, once, for any page size.     *)
(***************************************************************************)
THEOREM PagesAreExact == Spec => []PagesExact
BY ListingRepeatsNone, ListingSkipsNone, PTL DEF PagesExact
===============================================================================
