--------------------------- MODULE EvidenceStepProofs ---------------------------
(***************************************************************************)
(* Proofs about EvidenceStep: the architecture agent, for any affected     *)
(* systems and whatever its tool calls come to; the ranking of the hits;   *)
(* the knowledge agent, for any corpus and whatever its searches and its   *)
(* model answer; and the merge of what the two end with.                   *)
(***************************************************************************)
EXTENDS EvidenceStep, SequenceTheorems, FiniteSetTheorems, TLAPS

Node == [name : STRING, known : BOOLEAN]
Edge == [source : STRING, target : Related]

ArchTyped ==
    /\ astep \in {"ci", "relationships", "changes", "done", "raised"}
    /\ systems \in Affected
    /\ impacted \in Seq(Node) /\ deps \in Seq(Edge)
    /\ warned \in Nat /\ unanswered \in Nat

\* How far the loop over the systems has come, by the step.
Progress ==
    /\ gateway = "none" => astep = "done"
    /\ Len(impacted) <= Len(Wanted)
    /\ astep = "ci" => Len(impacted) < Len(Wanted)
    /\ astep = "relationships" => Len(impacted) > 0 /\ impacted[Len(impacted)].known
    /\ astep = "changes" => Len(impacted) = Len(Wanted)
    /\ astep = "done" /\ gateway # "none" => Len(impacted) = Len(Wanted)

\* The node at a place is that of the system at this place.
InPlace == \A i \in 1..Len(impacted) : impacted[i].name \in {Wanted[i]} \cup Aliases

\* Every edge starts at a node that has a configuration item.
Anchored ==
    \A i \in 1..Len(deps) :
        \E j \in 1..Len(impacted) : impacted[j].known /\ impacted[j].name = deps[i].source

Told == gateway # "none" => warned = unanswered

ArchInv == ArchTyped /\ Progress /\ InPlace /\ Anchored /\ Told

LEMMA WantedIs ==
    ASSUME systems \in Affected
    PROVE  /\ Wanted \in Seq(STRING) /\ Len(Wanted) \in Nat
           /\ systems = <<>> => Len(Wanted) = 0
           /\ systems # <<>> => Len(Wanted) > 0
           /\ Len(Wanted) <= MaxSystems
           /\ \A i \in 1..Len(Wanted) : Wanted[i] \in STRING
<1>1. systems \in Seq(STRING) /\ MaxSystems \in Nat \ {0}
    BY ArchitectureAssumption
<1>2. Len(systems) \in Nat /\ \A i \in 1..Len(systems) : systems[i] \in STRING
    BY <1>1, LenProperties, ElementOfSeq
<1> DEFINE k == IF Len(systems) < MaxSystems THEN Len(systems) ELSE MaxSystems
<1>3. k \in Nat /\ k <= Len(systems) /\ k <= MaxSystems /\ (k = 0 <=> Len(systems) = 0)
    BY <1>1, <1>2
<1>4. Wanted = SubSeq(systems, 1, k)
    BY DEF Wanted, Cut
<1> HIDE DEF k
<1>5. \A i \in 1..k : systems[i] \in STRING
    BY <1>2, <1>3
<1>6. /\ Wanted \in Seq(STRING)
      /\ Len(Wanted) = IF 1 <= k THEN k - 1 + 1 ELSE 0
    BY <1>1, <1>3, <1>4, <1>5, SubSeqProperties
<1>7. Len(Wanted) = k
    BY <1>3, <1>6
<1>8. systems = <<>> <=> Len(systems) = 0
    BY <1>1, EmptySeq
<1>9. \A i \in 1..Len(Wanted) : Wanted[i] \in STRING
    BY <1>6, ElementOfSeq
<1> QED
    BY <1>3, <1>6, <1>7, <1>8, <1>9

LEMMA InitArch == Init => ArchInv
<1> SUFFICES ASSUME Init PROVE ArchInv
    OBVIOUS
<1>1. /\ gateway \in Gateways /\ systems \in Affected
      /\ astep = IF gateway = "none" THEN "done"
                 ELSE IF systems = <<>> THEN Changes ELSE "ci"
      /\ impacted = <<>> /\ deps = <<>>
      /\ warned = (IF gateway = "none" THEN 1 ELSE 0) /\ unanswered = 0
    BY DEF Init, ArchitectureInit
<1>2. impacted \in Seq(Node) /\ deps \in Seq(Edge) /\ Len(impacted) = 0 /\ Len(deps) = 0
    BY <1>1, EmptySeq
<1>3. ArchTyped
    BY <1>1, <1>2 DEF ArchTyped, Changes
<1>4. Progress
    BY <1>1, <1>2, WantedIs DEF Progress, Changes
<1>5. InPlace /\ Anchored /\ Told
    BY <1>1, <1>2 DEF InPlace, Anchored, Told
<1> QED
    BY <1>3, <1>4, <1>5 DEF ArchInv

\* A call leaves its warning exactly if it is not answered.
LEMMA CallTold ==
    ASSUME ArchInv, NEW tool, NEW outcome, Call(tool, outcome)
    PROVE  /\ warned' \in Nat /\ unanswered' \in Nat /\ Told'
           /\ gateway' = gateway /\ systems' = systems /\ Wanted' = Wanted
BY DEF Call, Warnings, ArchInv, ArchTyped, Told, Wanted

\* What does not touch the nodes and the edges keeps what is said of them.
LEMMA SameTopology ==
    ASSUME ArchInv, UNCHANGED <<impacted, deps, systems>>
    PROVE  InPlace' /\ Anchored'
BY DEF ArchInv, InPlace, Anchored, Wanted

LEMMA MalformedArch ==
    ASSUME ArchInv, Malformed
    PROVE  ArchInv'
<1>1. /\ astep' = "raised" /\ UNCHANGED <<impacted, deps>>
      /\ astep \in {"ci", "relationships", "changes"}
      /\ \E tool : Call(tool, "malformed")
    BY DEF Malformed
<1>2. /\ warned' \in Nat /\ unanswered' \in Nat /\ Told'
      /\ gateway' = gateway /\ systems' = systems /\ Wanted' = Wanted
    BY <1>1, CallTold
<1>3. ArchTyped' /\ Progress'
    BY <1>1, <1>2 DEF ArchInv, ArchTyped, Progress
<1> QED
    BY <1>1, <1>2, <1>3, SameTopology DEF ArchInv

LEMMA ConfigItemArch ==
    ASSUME ArchInv, AskConfigItem
    PROVE  ArchInv'
<1>1. PICK outcome \in Outcomes("get_cmdb_ci") \ {"malformed"}, rec \in Records :
          /\ astep = "ci" /\ Call("get_cmdb_ci", outcome) /\ deps' = deps
          /\ impacted' = impacted \o NodeFor(Wanted[Len(impacted) + 1], rec)
          /\ astep' = IF rec.known THEN "relationships" ELSE AfterSystem(impacted')
    BY DEF AskConfigItem
<1>2. /\ warned' \in Nat /\ unanswered' \in Nat /\ Told'
      /\ gateway' = gateway /\ systems' = systems /\ Wanted' = Wanted
    BY <1>1, CallTold
<1>3. /\ impacted \in Seq(Node) /\ Len(impacted) \in Nat /\ Len(Wanted) \in Nat
      /\ Len(impacted) < Len(Wanted) /\ Len(impacted) + 1 \in 1..Len(Wanted)
    BY <1>1, LenProperties, WantedIs DEF ArchInv, ArchTyped, Progress
<1> DEFINE name == IF rec.alias = "unnamed" THEN Wanted[Len(impacted) + 1] ELSE rec.alias
<1> DEFINE node == [name |-> name, known |-> rec.known]
<1>4. /\ name \in {Wanted[Len(impacted) + 1]} \cup Aliases
      /\ name \in STRING /\ rec.known \in BOOLEAN
    <2>1. rec.alias \in Aliases \cup {"unnamed"} /\ rec.known \in BOOLEAN
        <3>1. CASE rec = NoRecord
            BY <3>1 DEF NoRecord
        <3>2. CASE rec \in [alias : Aliases \cup {"unnamed"}, known : {TRUE}]
            BY <3>2
        <3> QED
            BY <1>1, <3>1, <3>2 DEF Records
    <2>2. Wanted[Len(impacted) + 1] \in STRING /\ Aliases \subseteq STRING
        BY <1>3, WantedIs, ArchitectureAssumption DEF ArchInv, ArchTyped
    <2> QED
        BY <2>1, <2>2
<1>5. node \in Node /\ node.name = name /\ node.known = rec.known
    BY <1>4 DEF Node
<1>6. impacted' = Append(impacted, node)
    <2>1. impacted' = impacted \o <<node>>
        BY <1>1 DEF NodeFor
    <2> HIDE DEF node
    <2> QED
        BY <1>3, <1>5, <2>1, AppendIsConcat
<1> HIDE DEF node, name
<1>7. /\ impacted' \in Seq(Node) /\ Len(impacted') = Len(impacted) + 1
      /\ \A i \in 1..Len(impacted) : impacted'[i] = impacted[i]
      /\ impacted'[Len(impacted) + 1] = node
    BY <1>3, <1>5, <1>6, AppendProperties
<1>8. ArchTyped'
    BY <1>1, <1>2, <1>7 DEF ArchInv, ArchTyped, AfterSystem, Changes
<1>9. Progress'
    <2>1. Len(impacted') <= Len(Wanted) /\ Len(impacted') > 0
        BY <1>3, <1>7
    <2>2. rec.known => impacted'[Len(impacted')].known
        BY <1>5, <1>7
    <2>3. ~rec.known =>
              \/ astep' = "ci" /\ Len(impacted') < Len(Wanted)
              \/ astep' \in {"changes", "done"} /\ Len(impacted') = Len(Wanted)
        BY <1>1, <1>3, <1>7 DEF AfterSystem, Changes
    <2>4. gateway # "none"
        BY <1>1 DEF ArchInv, Progress
    <2> QED
        BY <1>1, <1>2, <2>1, <2>2, <2>3, <2>4 DEF Progress
<1>10. InPlace'
    <2> SUFFICES ASSUME NEW i \in 1..Len(impacted')
                 PROVE  impacted'[i].name \in {Wanted[i]} \cup Aliases
        BY <1>2 DEF InPlace
    <2>1. i \in 1..Len(impacted) \/ i = Len(impacted) + 1
        BY <1>3, <1>7
    <2> QED
        BY <1>4, <1>5, <1>7, <2>1 DEF ArchInv, InPlace
<1>11. Anchored'
    <2> SUFFICES ASSUME NEW i \in 1..Len(deps)
                 PROVE  \E j \in 1..Len(impacted') :
                            impacted'[j].known /\ impacted'[j].name = deps[i].source
        BY <1>1 DEF Anchored
    <2>1. PICK j \in 1..Len(impacted) : impacted[j].known /\ impacted[j].name = deps[i].source
        BY DEF ArchInv, Anchored
    <2>2. j \in 1..Len(impacted') /\ impacted'[j] = impacted[j]
        BY <1>3, <1>7
    <2> QED
        BY <2>1, <2>2
<1> QED
    BY <1>2, <1>8, <1>9, <1>10, <1>11 DEF ArchInv

LEMMA RelationshipsArch ==
    ASSUME ArchInv, AskRelationships
    PROVE  ArchInv'
<1>1. PICK outcome \in Outcomes("get_ci_relationships") \ {"malformed"},
          targets \in UNION {[1..n -> Related] : n \in 0..MaxItems} :
          /\ astep = "relationships" /\ Call("get_ci_relationships", outcome)
          /\ deps' = deps \o [i \in DOMAIN targets |-> EdgeFrom(targets[i])]
          /\ astep' = AfterSystem(impacted) /\ impacted' = impacted
    BY DEF AskRelationships
<1>2. /\ warned' \in Nat /\ unanswered' \in Nat /\ Told'
      /\ gateway' = gateway /\ systems' = systems /\ Wanted' = Wanted
    BY <1>1, CallTold
<1>3. PICK n \in Nat : targets \in [1..n -> Related]
    BY ArchitectureAssumption
<1> DEFINE last == impacted[Len(impacted)]
<1> DEFINE new == [i \in DOMAIN targets |-> EdgeFrom(targets[i])]
<1>4. /\ Len(impacted) \in 1..Len(impacted) /\ Len(impacted) \in Nat /\ Len(Wanted) \in Nat
      /\ last.known /\ last.name \in STRING
      /\ Len(impacted) <= Len(Wanted)
    <2>1. impacted \in Seq(Node) /\ Len(impacted) > 0 /\ last.known /\ Len(impacted) <= Len(Wanted)
        BY <1>1 DEF ArchInv, ArchTyped, Progress
    <2>2. Len(impacted) \in Nat /\ Len(impacted) \in 1..Len(impacted)
        BY <2>1, LenProperties
    <2>3. last \in Node
        BY <2>1, <2>2, ElementOfSeq
    <2>4. Len(Wanted) \in Nat
        BY WantedIs DEF ArchInv, ArchTyped
    <2> QED
        BY <2>1, <2>2, <2>3, <2>4 DEF Node
<1>5. \A i \in 1..n : EdgeFrom(targets[i]) \in Edge /\ EdgeFrom(targets[i]).source = last.name
    BY <1>3, <1>4 DEF EdgeFrom, Edge
<1>6. new \in Seq(Edge) /\ Len(new) = n /\ \A i \in 1..n : new[i].source = last.name
    <2>1. new = [i \in 1..n |-> EdgeFrom(targets[i])]
        BY <1>3
    <2>2. new \in [1..n -> Edge] /\ \A i \in 1..n : new[i].source = last.name
        BY <1>5, <2>1
    <2> HIDE DEF new
    <2> QED
        BY <1>3, <2>2, SeqDef, LenProperties
<1> HIDE DEF new
<1>7. /\ deps' \in Seq(Edge) /\ Len(deps') = Len(deps) + n
      /\ \A i \in 1..(Len(deps) + n) :
             deps'[i] = IF i <= Len(deps) THEN deps[i] ELSE new[i - Len(deps)]
    <2>1. deps \in Seq(Edge) /\ deps' = deps \o new
        BY <1>1 DEF ArchInv, ArchTyped, new
    <2> QED
        BY <1>6, <2>1, ConcatProperties
<1>8. ArchTyped'
    BY <1>1, <1>2, <1>7 DEF ArchInv, ArchTyped, AfterSystem, Changes
<1>9. Progress'
    <2>1. \/ astep' = "ci" /\ Len(impacted) < Len(Wanted)
          \/ astep' \in {"changes", "done"} /\ Len(impacted) = Len(Wanted)
        BY <1>1, <1>4 DEF AfterSystem, Changes
    <2>2. gateway # "none"
        BY <1>1 DEF ArchInv, Progress
    <2> QED
        BY <1>1, <1>2, <1>4, <2>1, <2>2 DEF Progress
<1>10. InPlace'
    BY <1>1, <1>2 DEF ArchInv, InPlace
<1>11. Anchored'
    <2> SUFFICES ASSUME NEW i \in 1..Len(deps')
                 PROVE  \E j \in 1..Len(impacted) :
                            impacted[j].known /\ impacted[j].name = deps'[i].source
        BY <1>1 DEF Anchored
    <2>1. Len(deps) \in Nat
        BY LenProperties DEF ArchInv, ArchTyped
    <2>2. CASE i <= Len(deps)
        <3>1. i \in 1..Len(deps) /\ deps'[i] = deps[i]
            BY <1>7, <2>1, <2>2
        <3> QED
            BY <3>1 DEF ArchInv, Anchored
    <2>3. CASE ~(i <= Len(deps))
        <3>1. i - Len(deps) \in 1..n /\ deps'[i] = new[i - Len(deps)]
            BY <1>7, <2>1, <2>3
        <3> QED
            BY <1>4, <1>6, <3>1
    <2> QED
        BY <2>2, <2>3
<1> QED
    BY <1>2, <1>8, <1>9, <1>10, <1>11 DEF ArchInv

LEMMA ChangesArch ==
    ASSUME ArchInv, AskChanges
    PROVE  ArchInv'
<1>1. PICK outcome :
          /\ astep = "changes" /\ Call("list_change_requests", outcome)
          /\ astep' = "done" /\ UNCHANGED <<impacted, deps>>
    BY DEF AskChanges
<1>2. /\ warned' \in Nat /\ unanswered' \in Nat /\ Told'
      /\ gateway' = gateway /\ systems' = systems /\ Wanted' = Wanted
    BY <1>1, CallTold
<1>3. ArchTyped' /\ Progress'
    BY <1>1, <1>2 DEF ArchInv, ArchTyped, Progress
<1> QED
    BY <1>1, <1>2, <1>3, SameTopology DEF ArchInv

LEMMA NextArch == ArchInv /\ [Next]_vars => ArchInv'
<1> SUFFICES ASSUME ArchInv, [Next]_vars PROVE ArchInv'
    OBVIOUS
<1>1. CASE ArchitectureStep
    BY <1>1, MalformedArch, ConfigItemArch, RelationshipsArch, ChangesArch
        DEF ArchitectureStep, ArchitectureNext
<1>2. CASE UNCHANGED archVars
    <2>1. UNCHANGED <<astep, gateway, systems, impacted, deps, warned, unanswered>>
        BY <1>2 DEF archVars
    <2>2. ArchTyped' /\ Progress' /\ Told'
        BY <2>1 DEF ArchInv, ArchTyped, Progress, Told, Wanted
    <2> QED
        BY <2>1, <2>2, SameTopology DEF ArchInv
<1>3. CASE KnowledgeStep \/ Merge \/ Over \/ UNCHANGED vars
    BY <1>2, <1>3 DEF KnowledgeStep, Merge, Over, vars
<1> QED
    BY <1>1, <1>3 DEF Next

LEMMA ArchitectureInvariant == Spec => []ArchInv
BY InitArch, NextArch, PTL DEF Spec

(***************************************************************************)
(* The loop of the architecture agent: a lookup that fails neither shifts  *)
(* nor drops the systems behind it.                                        *)
(***************************************************************************)
THEOREM SystemsAreKept == Spec => []SystemsKept
<1>1. ArchInv => SystemsKept
    <2> SUFFICES ASSUME ArchInv, astep = "done", gateway # "none"
                 PROVE  /\ Len(impacted) = Len(Wanted)
                        /\ \A i \in DOMAIN Wanted :
                               impacted[i].name \in {Wanted[i]} \cup Aliases
        BY DEF SystemsKept, Context
    <2>1. Len(impacted) = Len(Wanted)
        BY DEF ArchInv, Progress
    <2>2. DOMAIN Wanted = 1..Len(Wanted)
        BY WantedIs, LenProperties DEF ArchInv, ArchTyped
    <2> QED
        BY <2>1, <2>2 DEF ArchInv, InPlace
<1> QED
    BY <1>1, ArchitectureInvariant, PTL

(***************************************************************************)
(* The architecture agent: every dependency starts at a node that has a    *)
(* configuration item, whichever lookups failed.                           *)
(***************************************************************************)
THEOREM EdgesAreAnchored == Spec => []EdgesAnchored
<1>1. ArchInv => EdgesAnchored
    <2> SUFFICES ASSUME ArchInv PROVE EdgesAnchored
        OBVIOUS
    <2>1. DOMAIN deps = 1..Len(deps) /\ DOMAIN impacted = 1..Len(impacted)
        BY LenProperties DEF ArchInv, ArchTyped
    <2> QED
        BY <2>1 DEF ArchInv, Anchored, EdgesAnchored
<1> QED
    BY <1>1, ArchitectureInvariant, PTL

(***************************************************************************)
(* _call: every call that gave no result has left one warning.             *)
(***************************************************************************)
THEOREM FailuresAreTold == Spec => []FailuresTold
<1>1. ArchInv => FailuresTold
    BY DEF ArchInv, Told, FailuresTold
<1> QED
    BY <1>1, ArchitectureInvariant, PTL

(***************************************************************************)
(* The topology is sound whichever lookups fail, while the knowledge agent *)
(* runs beside it.                                                         *)
(***************************************************************************)
THEOREM TopologyIsSound == Spec => []TopologySound
BY SystemsAreKept, EdgesAreAnchored, PTL DEF TopologySound

----------------------------------------------------------------------------
(***************************************************************************)
(* The ranking of the hits: the places are those of a strict order, so     *)
(* that each is taken once.                                                *)
(***************************************************************************)
LEMMA HitsAre ==
    ASSUME NEW s \in Seq(Chunks)
    PROVE  /\ Len(s) \in Nat
           /\ DOMAIN s = 1..Len(s)
           /\ \A i \in DOMAIN s : s[i] \in Chunks /\ s[i].score \in Nat
           /\ IsFiniteSet(DOMAIN s) /\ Cardinality(DOMAIN s) = Len(s)
<1>1. Len(s) \in Nat /\ DOMAIN s = 1..Len(s)
    BY LenProperties
<1>2. \A i \in 1..Len(s) : s[i] \in Chunks
    BY ElementOfSeq
<1>3. IsFiniteSet(1..Len(s)) /\ Cardinality(1..Len(s)) = Len(s)
    BY <1>1, FS_Interval
<1> QED
    BY <1>1, <1>2, <1>3, KnowledgeAssumption

LEMMA PlacesAre ==
    ASSUME NEW s \in Seq(Chunks)
    PROVE  /\ \A i \in DOMAIN s : Place(s, i) \in 0..(Len(s) - 1)
           /\ \A i, j \in DOMAIN s : i # j => Before(s, i, j) \/ Before(s, j, i)
           /\ \A i, j \in DOMAIN s : Before(s, i, j) => Place(s, i) < Place(s, j)
<1>1. /\ Len(s) \in Nat /\ DOMAIN s = 1..Len(s)
      /\ \A i \in DOMAIN s : s[i].score \in Nat
      /\ IsFiniteSet(DOMAIN s) /\ Cardinality(DOMAIN s) = Len(s)
    BY HitsAre
<1> DEFINE B(i) == {j \in DOMAIN s : Before(s, j, i)}
<1>2. ASSUME NEW i \in DOMAIN s
      PROVE  /\ IsFiniteSet(B(i)) /\ Cardinality(B(i)) \in Nat
             /\ i \notin B(i)
             /\ Place(s, i) = Cardinality(B(i))
    <2>1. B(i) \subseteq DOMAIN s
        OBVIOUS
    <2>2. IsFiniteSet(B(i)) /\ Cardinality(B(i)) \in Nat
        BY <1>1, <2>1, FS_Subset, FS_CardinalityType
    <2>3. ~Before(s, i, i)
        BY <1>1 DEF Before
    <2> QED
        BY <2>2, <2>3 DEF Place
<1>3. ASSUME NEW i \in DOMAIN s PROVE Place(s, i) \in 0..(Len(s) - 1)
    <2>1. IsFiniteSet(DOMAIN s \ {i}) /\ Cardinality(DOMAIN s \ {i}) = Len(s) - 1
        BY <1>1, FS_RemoveElement
    <2>2. B(i) \subseteq DOMAIN s \ {i}
        BY <1>2
    <2>3. Cardinality(B(i)) <= Len(s) - 1
        BY <2>1, <2>2, FS_Subset
    <2> HIDE DEF B
    <2> QED
        BY <1>1, <1>2, <2>3
<1>4. \A i, j \in DOMAIN s : i # j => Before(s, i, j) \/ Before(s, j, i)
    BY <1>1 DEF Before
<1>5. ASSUME NEW i \in DOMAIN s, NEW j \in DOMAIN s, Before(s, i, j)
      PROVE  Place(s, i) < Place(s, j)
    <2>1. B(i) \cup {i} \subseteq B(j)
        BY <1>1, <1>5 DEF Before
    <2>2. Cardinality(B(i) \cup {i}) = Cardinality(B(i)) + 1
        BY <1>2, FS_AddElement
    <2>3. Cardinality(B(i) \cup {i}) <= Cardinality(B(j))
        BY <1>2, <2>1, FS_Subset
    <2> HIDE DEF B
    <2> QED
        BY <1>2, <2>2, <2>3
<1> QED
    BY <1>3, <1>4, <1>5

LEMMA EveryPlaceTaken ==
    ASSUME NEW s \in Seq(Chunks), NEW k \in 0..(Len(s) - 1)
    PROVE  \E i \in DOMAIN s : Place(s, i) = k
<1>1. Len(s) \in Nat /\ IsFiniteSet(DOMAIN s) /\ Cardinality(DOMAIN s) = Len(s)
    BY HitsAre
<1> DEFINE T == 0..(Len(s) - 1)
           f == [i \in DOMAIN s |-> Place(s, i)]
<1>2. IsFiniteSet(T) /\ Cardinality(T) = Len(s)
    <2>1. 0 \in Int /\ Len(s) - 1 \in Int /\ Len(s) >= 1
        BY <1>1
    <2>2. IsFiniteSet(T) /\ Cardinality(T) = (IF 0 > Len(s) - 1 THEN 0 ELSE Len(s) - 1 - 0 + 1)
        BY <2>1, FS_Interval
    <2> QED
        BY <1>1, <2>1, <2>2
<1>3. \A i, j \in DOMAIN s : Place(s, i) = Place(s, j) => i = j
    <2> SUFFICES ASSUME NEW i \in DOMAIN s, NEW j \in DOMAIN s,
                        Place(s, i) = Place(s, j), i # j
                 PROVE  FALSE
        OBVIOUS
    <2>1. Place(s, i) \in Int /\ Place(s, j) \in Int
        BY PlacesAre
    <2>2. Place(s, i) < Place(s, j) \/ Place(s, j) < Place(s, i)
        BY PlacesAre
    <2> QED
        BY <2>1, <2>2
<1>4. f \in Injection(DOMAIN s, T)
    <2>1. f \in [DOMAIN s -> T]
        BY PlacesAre
    <2>2. \A i, j \in DOMAIN f : f[i] = f[j] => i = j
        BY <1>3
    <2> QED
        BY <2>1, <2>2 DEF Injection, IsInjective
<1>5. f \in Surjection(DOMAIN s, T)
    BY <1>1, <1>2, <1>4, FS_Injection
<1> QED
    BY <1>5 DEF Surjection

(***************************************************************************)
(* What ranking and cutting return: hits, as many as fit, and none better  *)
(* left out.                                                               *)
(***************************************************************************)
LEMMA RankedIs ==
    ASSUME NEW s \in Seq(Chunks)
    PROVE  /\ Ranked(s) \in Seq(Chunks)
           /\ Len(Ranked(s)) = Kept(s)
           /\ \A i \in DOMAIN s :
                  \/ \E k \in 1..Kept(s) : Ranked(s)[k] = s[i]
                  \/ \A k \in 1..Kept(s) : Ranked(s)[k].score >= s[i].score
<1>1. /\ Len(s) \in Nat /\ DOMAIN s = 1..Len(s)
      /\ \A i \in DOMAIN s : s[i] \in Chunks /\ s[i].score \in Nat
    BY HitsAre
<1>2. Kept(s) \in Nat /\ Kept(s) <= Len(s)
    BY <1>1, KnowledgeAssumption DEF Kept
<1> DEFINE R(k) == CHOOSE i \in DOMAIN s : Place(s, i) = k - 1
<1>3. ASSUME NEW k \in 1..Kept(s)
      PROVE  R(k) \in DOMAIN s /\ Place(s, R(k)) = k - 1 /\ Ranked(s)[k] = s[R(k)]
    <2>1. k - 1 \in 0..(Len(s) - 1)
        BY <1>1, <1>2
    <2>2. \E i \in DOMAIN s : Place(s, i) = k - 1
        BY <2>1, EveryPlaceTaken
    <2> QED
        BY <2>2 DEF Ranked
<1>4. Ranked(s) = [k \in 1..Kept(s) |-> s[R(k)]]
    BY DEF Ranked
<1> HIDE DEF R
<1>5. Ranked(s) \in Seq(Chunks) /\ Len(Ranked(s)) = Kept(s)
    <2>1. \A k \in 1..Kept(s) : s[R(k)] \in Chunks
        BY <1>1, <1>3
    <2>2. Ranked(s) \in [1..Kept(s) -> Chunks]
        BY <1>4, <2>1
    <2> QED
        BY <1>2, <2>2, IsASeq, LenProperties, SeqDef
<1>6. ASSUME NEW i \in DOMAIN s
      PROVE  \/ \E k \in 1..Kept(s) : Ranked(s)[k] = s[i]
             \/ \A k \in 1..Kept(s) : Ranked(s)[k].score >= s[i].score
    <2>1. Place(s, i) \in 0..(Len(s) - 1)
        BY PlacesAre
    <2>2. CASE Place(s, i) < Kept(s)
        <3>0. Place(s, i) + 1 \in 1..Kept(s) /\ Place(s, i) = (Place(s, i) + 1) - 1
            BY <1>2, <2>1, <2>2
        <3>1. PICK k \in 1..Kept(s) : Place(s, i) = k - 1
            BY <3>0
        <3>2. R(k) \in DOMAIN s /\ Place(s, R(k)) = Place(s, i) /\ Ranked(s)[k] = s[R(k)]
            BY <1>3, <3>1
        <3>3. R(k) = i
            BY <2>1, <3>2, PlacesAre
        <3> QED
            BY <3>2, <3>3
    <2>3. CASE Place(s, i) >= Kept(s)
        <3>1. SUFFICES ASSUME NEW k \in 1..Kept(s)
                       PROVE  Ranked(s)[k].score >= s[i].score
            OBVIOUS
        <3>2. R(k) \in DOMAIN s /\ Place(s, R(k)) = k - 1 /\ Ranked(s)[k] = s[R(k)]
            BY <1>3
        <3>3. ~Before(s, i, R(k))
            BY <1>2, <2>1, <2>3, <3>2, PlacesAre
        <3> QED
            BY <1>1, <3>2, <3>3 DEF Before
    <2> QED
        BY <1>2, <2>1, <2>2, <2>3
<1> QED
    BY <1>5, <1>6
----------------------------------------------------------------------------
(***************************************************************************)
(* The knowledge agent.                                                    *)
(***************************************************************************)
MalformedHits == "malformed" \in {corpus.status, episodic.status}

\* What the retrieved hits become as citations.
Cited ==
    Ranked(corpus.hits) \o [i \in DOMAIN episodic.hits |-> EpisodeCitation(episodic.hits[i])]

KTyped ==
    /\ kstep \in {"retrieve", "probe", "ask", "done"}
    /\ corpus \in Replies(Chunks) /\ episodic \in Replies(Episodes)
    /\ ktier \in 1..KnowledgeTiers /\ krepair \in BOOLEAN
    /\ kattempt \in 0..(KnowledgeAttempts - 1)

\* The citations are built once, from the hits, and not touched after.
Built ==
    /\ kstep = "retrieve" \/ MalformedHits => citations = <<>> /\ similar = <<>>
    /\ kstep # "retrieve" /\ ~MalformedHits =>
           /\ citations = Cited
           /\ similar = SimilarIncidents(Ranked(corpus.hits), episodic.hits)

\* A model is asked only with citations to synthesize.
Asked ==
    /\ kstep # "done" => knowledge = NoKnowledge
    /\ kstep \in {"probe", "ask"} => citations # <<>> /\ ~MalformedHits

\* A delta says what became of the run.
Delivered ==
    kstep = "done" =>
        IF MalformedHits THEN knowledge = KnowledgeRaised
        ELSE /\ knowledge.raised = FALSE
             /\ knowledge.sources = Len(citations)
             /\ knowledge.degraded =
                    (corpus.status = "failed" \/ (citations # <<>> /\ ~knowledge.synthesized))
             /\ knowledge.confidence \in Grade

KInv == KTyped /\ Built /\ Asked /\ Delivered /\ FindingsGrounded /\ ConfidenceEarned

\* What the merge leaves on the blackboard of the two runs.
Gathered ==
    [merged   |-> TRUE,
     errors   |-> MergedErrors(<<>>, NodeErrors("knowledge", MalformedHits),
                               NodeErrors("architecture", astep = "raised")),
     degraded |-> {n \in {"knowledge", "architecture"} :
                       IF n = "knowledge" THEN knowledge.degraded ELSE Context.degraded}]

BInv ==
    \/ board = NoBoard
    \/ kstep = "done" /\ ArchitectureEnded /\ board = Gathered

ArchBounds == gateway \in Gateways /\ changes \in 0..MaxItems

\* A search answers with a sequence of hits.
LEMMA AnswersAre ==
    ASSUME NEW hits, NEW max \in Nat, NEW a \in Answers(hits, max)
    PROVE  a \in Replies(hits) /\ a.status # "pending"
<1>1. CASE a \in {[status |-> "answered", hits |-> h] : h \in UNION {[1..n -> hits] : n \in 0..max}}
    <2>1. PICK h \in UNION {[1..n -> hits] : n \in 0..max} : a = [status |-> "answered", hits |-> h]
        BY <1>1
    <2>2. h \in Seq(hits)
        BY SeqDef
    <2> QED
        BY <2>1, <2>2 DEF Replies
<1>2. CASE a \in {[status |-> s, hits |-> <<>>] : s \in {"failed", "malformed"}}
    <2>1. <<>> \in Seq(hits)
        BY EmptySeq
    <2>2. PICK s \in {"failed", "malformed"} : a = [status |-> s, hits |-> <<>>]
        BY <1>2
    <2>3. a.status = s /\ a.hits = <<>> /\ a = [status |-> a.status, hits |-> a.hits]
        BY <2>2
    <2>4. a.status \in {"pending", "answered", "failed", "malformed"} /\ a.hits \in Seq(hits)
        BY <2>1, <2>3
    <2> QED
        BY <2>3, <2>4 DEF Replies
<1> QED
    BY <1>1, <1>2 DEF Answers

LEMMA GradesAre ==
    ASSUME NEW a \in Grade, NEW b \in Grade
    PROVE  /\ min_conf(a, b) \in Grade
           /\ min_conf(a, b) = "high" => a = "high"
           /\ a = "speculative" => min_conf(a, b) = "speculative"
           /\ CONF_RANK[min_conf(a, b)] <= CONF_RANK[b]
BY DEF Grade, CONF_RANK, min_conf

\* What the heuristic says of the citations.
LEMMA CoverageIs ==
    ASSUME NEW cs
    PROVE  /\ Coverage(cs) \in Grade
           /\ cs = <<>> => Coverage(cs) = "speculative"
           /\ Coverage(cs) = "high" =>
                  \E i \in DOMAIN cs : cs[i].outcome = "confirmed" /\ cs[i].type \in {"rca", "incident"}
BY DEF Coverage, Grade, Analysis

\* The citations: the ranked chunks, then the episodes, each with its place.
LEMMA CitedAre ==
    ASSUME corpus \in Replies(Chunks), episodic \in Replies(Episodes)
    PROVE  LET R == Ranked(corpus.hits)
               E == episodic.hits
           IN  /\ R \in Seq(Chunks) /\ E \in Seq(Episodes)
               /\ Len(R) \in Nat /\ Len(E) \in Nat
               /\ DOMAIN E = 1..Len(E)
               /\ DOMAIN Cited = 1..(Len(R) + Len(E)) /\ Len(Cited) = Len(R) + Len(E)
               /\ \A i \in 1..Len(R) : Cited[i] = R[i]
               /\ \A i \in 1..Len(E) : Cited[Len(R) + i] = EpisodeCitation(E[i])
               /\ DOMAIN SimilarIncidents(R, E) = 1..Len(E)
               /\ Len(SimilarIncidents(R, E)) = Len(E)
               /\ Cited = <<>> => SimilarIncidents(R, E) = <<>>
               /\ Cited = <<>> <=> Len(Cited) = 0
<1> DEFINE R == Ranked(corpus.hits)
           E == episodic.hits
           new == [i \in DOMAIN E |-> EpisodeCitation(E[i])]
           All == {EpisodeCitation(e) : e \in Episodes} \cup Chunks
<1>1. corpus.hits \in Seq(Chunks) /\ E \in Seq(Episodes)
    BY DEF Replies
<1>2. R \in Seq(Chunks) /\ Len(R) \in Nat
    BY <1>1, RankedIs, LenProperties
<1>3. Len(E) \in Nat /\ DOMAIN E = 1..Len(E) /\ \A i \in 1..Len(E) : E[i] \in Episodes
    BY <1>1, LenProperties, ElementOfSeq
<1>4. new \in Seq(All) /\ Len(new) = Len(E)
    <2>1. new = [i \in 1..Len(E) |-> EpisodeCitation(E[i])]
        BY <1>3
    <2>2. \A i \in 1..Len(E) : EpisodeCitation(E[i]) \in All
        BY <1>3
    <2>3. new \in [1..Len(E) -> All]
        BY <2>1, <2>2
    <2> HIDE DEF new, All
    <2> QED
        BY <1>3, <2>3, SeqDef, LenProperties
<1>5. \A i \in 1..Len(E) : new[i] = EpisodeCitation(E[i])
    BY <1>3
<1>6. Cited = R \o new
    BY DEF Cited
<1>7. DOMAIN SimilarIncidents(R, E) = 1..Len(E)
    BY <1>3 DEF SimilarIncidents
<1>8. R \in Seq(All)
    <2>1. \A i \in 1..Len(R) : R[i] \in Chunks
        BY <1>2, ElementOfSeq
    <2>2. DOMAIN R = 1..Len(R) /\ R = [i \in 1..Len(R) |-> R[i]]
        BY <1>2, LenProperties
    <2>3. Chunks \subseteq All
        OBVIOUS
    <2> HIDE DEF R, All
    <2>4. R \in [1..Len(R) -> All]
        BY <2>1, <2>2, <2>3
    <2> QED
        BY <1>2, <2>4, SeqDef
<1> HIDE DEF R, E, new, All
<1>9. /\ Cited \in Seq(All)
      /\ Len(Cited) = Len(R) + Len(E)
      /\ \A i \in 1..(Len(R) + Len(E)) : Cited[i] = IF i <= Len(R) THEN R[i] ELSE new[i - Len(R)]
    <2>1. Len(R) + Len(new) = Len(R) + Len(E)
        BY <1>4
    <2> QED
        BY <1>4, <1>6, <1>8, <2>1, ConcatProperties
<1>10. DOMAIN Cited = 1..(Len(R) + Len(E))
    BY <1>9, LenProperties
<1>11. \A i \in 1..Len(R) : Cited[i] = R[i]
    BY <1>2, <1>3, <1>9
<1>12. ASSUME NEW i \in 1..Len(E) PROVE Cited[Len(R) + i] = EpisodeCitation(E[i])
    <2>1. /\ Len(R) + i \in 1..(Len(R) + Len(E)) /\ ~(Len(R) + i <= Len(R))
          /\ (Len(R) + i) - Len(R) = i
        BY <1>2, <1>3
    <2>2. Cited[Len(R) + i] = new[(Len(R) + i) - Len(R)]
        BY <1>9, <2>1
    <2> QED
        BY <1>5, <2>1, <2>2
<1>13. Len(SimilarIncidents(R, E)) = Len(E)
    <2> DEFINE similars == SimilarIncidents(R, E)
               Linked == {similars[i] : i \in 1..Len(E)}
    <2>1. similars = [i \in 1..Len(E) |-> similars[i]]
        BY <1>3 DEF SimilarIncidents
    <2>2. similars \in [1..Len(E) -> Linked]
        BY <2>1
    <2> HIDE DEF similars, Linked
    <2>3. similars \in Seq(Linked)
        BY <1>3, <2>2, SeqDef
    <2>4. Len(similars) = Len(E)
        BY <1>3, <2>2, <2>3, LenProperties
    <2> QED
        BY <2>4 DEF similars
<1>14. Cited = <<>> => SimilarIncidents(R, E) = <<>>
    <2> SUFFICES ASSUME Cited = <<>> PROVE SimilarIncidents(R, E) = <<>>
        OBVIOUS
    <2>1. Len(Cited) = 0
        BY EmptySeq
    <2>2. Len(E) = 0
        BY <1>2, <1>3, <1>9, <2>1
    <2>3. DOMAIN E = {}
        BY <1>3, <2>2
    <2> QED
        BY <2>3 DEF SimilarIncidents
<1>15. Cited = <<>> <=> Len(Cited) = 0
    BY <1>9, EmptySeq
<1> QED
    BY <1>1, <1>2, <1>3, <1>7, <1>9, <1>10, <1>11, <1>12, <1>13, <1>14, <1>15 DEF R, E
LEMMA FirstAttempt == 1 \in 1..KnowledgeTiers /\ 0 \in 0..(KnowledgeAttempts - 1)
<1>1. KnowledgeAttempts \in Nat \ {0} /\ KnowledgeTiers \in {1, 2}
    BY KnowledgeAssumption
<1> QED
    BY <1>1

LEMMA InitKnow == Init => KInv
<1> SUFFICES ASSUME Init PROVE KInv
    OBVIOUS
<1>1. /\ kstep = "retrieve" /\ corpus = Pending /\ episodic = Pending
      /\ citations = <<>> /\ similar = <<>> /\ ktier = 1 /\ krepair = FALSE
      /\ kattempt = 0 /\ knowledge = NoKnowledge
    BY DEF Init, KnowledgeInit
<1>2. corpus \in Replies(Chunks) /\ episodic \in Replies(Episodes)
    <2>1. <<>> \in Seq(Chunks) /\ <<>> \in Seq(Episodes)
        BY EmptySeq
    <2> QED
        BY <1>1, <2>1 DEF Pending, Replies
<1>3. KTyped
    BY <1>1, <1>2, FirstAttempt DEF KTyped
<1>4. Built /\ Asked /\ Delivered
    BY <1>1 DEF Built, Asked, Delivered
<1>5. FindingsGrounded /\ ConfidenceEarned
    BY <1>1 DEF NoKnowledge, FindingsGrounded, ConfidenceEarned
<1> QED
    BY <1>3, <1>4, <1>5 DEF KInv

\* A step before the end that leaves the hits and the citations alone.
LEMMA GoesOn ==
    ASSUME KInv, kstep \in {"probe", "ask"}, kstep' \in {"probe", "ask"},
           ktier' \in 1..KnowledgeTiers, krepair' \in BOOLEAN,
           kattempt' \in 0..(KnowledgeAttempts - 1),
           UNCHANGED <<corpus, episodic, citations, similar, knowledge>>
    PROVE  KInv'
<1>1. KTyped'
    BY DEF KInv, KTyped
<1>2. MalformedHits' = MalformedHits /\ Cited' = Cited
    BY DEF MalformedHits, Cited
<1>3. Built' /\ Asked' /\ Delivered'
    BY <1>2 DEF KInv, Built, Asked, Delivered
<1>4. FindingsGrounded' /\ ConfidenceEarned'
    BY DEF KInv, FindingsGrounded, ConfidenceEarned
<1> QED
    BY <1>1, <1>3, <1>4 DEF KInv

\* A search that answers leaves no claim behind.
LEMMA SearchKnow ==
    ASSUME KInv, CorpusAnswers \/ EpisodicAnswers
    PROVE  KInv'
<1>1. kstep = "retrieve" /\ knowledge = NoKnowledge /\ citations = <<>> /\ similar = <<>>
    BY DEF CorpusAnswers, EpisodicAnswers, KInv, Asked, Built
<1>2. UNCHANGED <<kstep, citations, similar, ktier, krepair, kattempt, knowledge>>
    BY DEF CorpusAnswers, EpisodicAnswers
<1>3. corpus' \in Replies(Chunks) /\ episodic' \in Replies(Episodes)
    <2>1. CASE CorpusAnswers
        BY <2>1, AnswersAre, KnowledgeAssumption DEF CorpusAnswers, KInv, KTyped
    <2>2. CASE EpisodicAnswers
        BY <2>2, AnswersAre, KnowledgeAssumption DEF EpisodicAnswers, KInv, KTyped
    <2> QED
        BY <2>1, <2>2
<1>4. KTyped'
    BY <1>2, <1>3 DEF KInv, KTyped
<1>5. Built' /\ Asked' /\ Delivered'
    BY <1>1, <1>2 DEF Built, Asked, Delivered
<1>6. FindingsGrounded' /\ ConfidenceEarned'
    BY <1>1, <1>2 DEF NoKnowledge, FindingsGrounded, ConfidenceEarned
<1> QED
    BY <1>4, <1>5, <1>6 DEF KInv

\* A run that ends without having raised, with the delta it has then.
LEMMA FinishKnow ==
    ASSUME KTyped, NEW d, Finish(d), UNCHANGED <<corpus, episodic>>, ~MalformedHits,
           citations' = Cited,
           similar' = SimilarIncidents(Ranked(corpus.hits), episodic.hits),
           d.raised = FALSE, d.sources = Len(Cited), d.confidence \in Grade,
           d.degraded = (corpus.status = "failed" \/ (Cited # <<>> /\ ~d.synthesized)),
           FindingsGrounded', ConfidenceEarned'
    PROVE  KInv'
<1>1. /\ kstep' = "done" /\ knowledge' = d /\ ktier' = 1 /\ krepair' = FALSE /\ kattempt' = 0
    BY DEF Finish
<1>2. KTyped'
    BY <1>1, FirstAttempt DEF KTyped
<1>3. ~MalformedHits' /\ Cited' = Cited
    BY DEF MalformedHits, Cited
<1>4. Built'
    BY <1>1, <1>3 DEF Built
<1>5. Asked'
    BY <1>1 DEF Asked
<1>6. Delivered'
    BY <1>1, <1>3 DEF Delivered
<1> QED
    BY <1>2, <1>4, <1>5, <1>6 DEF KInv

\* A delta without findings claims what the citations say.
LEMMA NothingFound ==
    ASSUME knowledge'.findings = {}, knowledge'.conflicts = {},
           knowledge'.confidence = Coverage(citations'),
           knowledge'.sources = Len(citations'),
           NEW n \in Nat, Len(citations') = n, DOMAIN citations' = 1..n,
           n = 0 => citations' = <<>>
    PROVE  FindingsGrounded' /\ ConfidenceEarned'
<1>1. FindingsGrounded'
    BY DEF FindingsGrounded
<1>2. ConfidenceEarned'
    BY CoverageIs DEF ConfidenceEarned
<1> QED
    BY <1>1, <1>2

LEMMA BuildKnow ==
    ASSUME KInv, BuildCitations
    PROVE  KInv'
<1> DEFINE R == Ranked(corpus.hits)
           E == episodic.hits
<1>1. /\ kstep = "retrieve" /\ UNCHANGED <<corpus, episodic>>
      /\ knowledge = NoKnowledge /\ citations = <<>> /\ similar = <<>>
    BY DEF BuildCitations, KInv, Asked, Built
<1>2. /\ KTyped /\ corpus \in Replies(Chunks) /\ episodic \in Replies(Episodes)
      /\ MalformedHits' = MalformedHits /\ Cited' = Cited
    BY <1>1 DEF KInv, KTyped, MalformedHits, Cited
<1>3. CASE MalformedHits
    <2>1. Finish(KnowledgeRaised) /\ UNCHANGED <<citations, similar>>
        BY <1>3 DEF BuildCitations, MalformedHits
    <2>2. /\ kstep' = "done" /\ knowledge' = KnowledgeRaised
          /\ ktier' = 1 /\ krepair' = FALSE /\ kattempt' = 0
        BY <2>1 DEF Finish
    <2>3. KTyped'
        BY <1>1, <1>2, <2>2, FirstAttempt DEF KTyped
    <2>4. Built' /\ Asked' /\ Delivered'
        BY <1>1, <1>2, <1>3, <2>1, <2>2 DEF Built, Asked, Delivered
    <2>5. FindingsGrounded' /\ ConfidenceEarned'
        BY <2>2 DEF KnowledgeRaised, NoKnowledge, FindingsGrounded, ConfidenceEarned
    <2> QED
        BY <2>3, <2>4, <2>5 DEF KInv
<1>4. CASE ~MalformedHits
    <2>1. /\ citations' = Cited /\ similar' = SimilarIncidents(R, E)
          /\ IF Cited = <<>>
             THEN Finish([NoKnowledge EXCEPT !.degraded = corpus.status = "failed"])
             ELSE /\ kstep' = IF FreshnessCheck THEN "probe" ELSE "ask"
                  /\ UNCHANGED <<ktier, krepair, kattempt, knowledge>>
        BY <1>4 DEF BuildCitations, MalformedHits, Cited
    <2>2. CASE Cited = <<>>
        <3> DEFINE d == [NoKnowledge EXCEPT !.degraded = corpus.status = "failed"]
        <3>1. Finish(d) /\ knowledge' = d
            BY <2>1, <2>2 DEF Finish
        <3>2. /\ d.findings = {} /\ d.conflicts = {} /\ d.confidence = "speculative"
              /\ d.sources = 0 /\ d.degraded = (corpus.status = "failed") /\ d.raised = FALSE
            BY DEF NoKnowledge
        <3>3. Len(Cited) = 0 /\ DOMAIN Cited = 1..0
            BY <2>2, EmptySeq
        <3> HIDE DEF d
        <3>4. FindingsGrounded' /\ ConfidenceEarned'
            BY <2>1, <2>2, <3>1, <3>2, <3>3 DEF FindingsGrounded, ConfidenceEarned
        <3>5. d.confidence \in Grade
            BY <3>2 DEF Grade
        <3> QED
            BY <1>1, <1>2, <1>4, <2>1, <2>2, <3>1, <3>2, <3>3, <3>4, <3>5, FinishKnow
    <2>3. CASE Cited # <<>>
        <3>1. kstep' \in {"probe", "ask"} /\ UNCHANGED <<ktier, krepair, kattempt, knowledge>>
            BY <2>1, <2>3
        <3>2. KTyped'
            BY <1>1, <1>2, <3>1 DEF KTyped
        <3>3. Built'
            BY <1>1, <1>2, <1>4, <2>1, <3>1 DEF Built
        <3>4. Asked' /\ Delivered'
            BY <1>1, <1>2, <1>4, <2>1, <2>3, <3>1 DEF Asked, Delivered
        <3>5. FindingsGrounded' /\ ConfidenceEarned'
            BY <1>1, <3>1 DEF NoKnowledge, FindingsGrounded, ConfidenceEarned
        <3> QED
            BY <3>2, <3>3, <3>4, <3>5 DEF KInv
    <2> QED
        BY <2>2, <2>3
<1> QED
    BY <1>3, <1>4

\* While a model is asked, the citations stand.
LEMMA AskedWith ==
    ASSUME KInv, kstep \in {"probe", "ask"}
    PROVE  /\ ~MalformedHits /\ citations = Cited /\ Cited # <<>>
           /\ similar = SimilarIncidents(Ranked(corpus.hits), episodic.hits)
           /\ Len(Cited) \in Nat /\ DOMAIN Cited = 1..Len(Cited) /\ Len(Cited) # 0
<1>1. /\ ~MalformedHits /\ citations = Cited /\ Cited # <<>>
      /\ similar = SimilarIncidents(Ranked(corpus.hits), episodic.hits)
    BY DEF KInv, Built, Asked
<1>2. /\ Len(Cited) \in Nat /\ DOMAIN Cited = 1..Len(Cited)
      /\ Cited = <<>> <=> Len(Cited) = 0
    <2> DEFINE m == Len(Ranked(corpus.hits))
               n == Len(episodic.hits)
    <2>1. /\ m \in Nat /\ n \in Nat /\ DOMAIN Cited = 1..(m + n) /\ Len(Cited) = m + n
          /\ Cited = <<>> <=> Len(Cited) = 0
        BY CitedAre DEF KInv, KTyped
    <2> HIDE DEF m, n
    <2> QED
        BY <2>1
<1> QED
    BY <1>1, <1>2

LEMMA NextTierKnow ==
    ASSUME KInv, kstep = "ask", NextKnowledgeTier,
           UNCHANGED <<corpus, episodic, citations, similar>>
    PROVE  KInv'
<1>1. CASE ktier < KnowledgeTiers
    <2>1. /\ ktier' = ktier + 1 /\ krepair' = FALSE /\ kattempt' = 0
          /\ UNCHANGED <<kstep, knowledge>>
        BY <1>1 DEF NextKnowledgeTier
    <2>2. ktier' \in 1..KnowledgeTiers /\ kattempt' \in 0..(KnowledgeAttempts - 1)
        BY <1>1, <2>1, KnowledgeAssumption DEF KInv, KTyped
    <2> QED
        BY <2>1, <2>2, GoesOn
<1>2. CASE ~(ktier < KnowledgeTiers)
    <2> DEFINE d == RetrievalOnly(citations)
    <2>1. Finish(d) /\ knowledge' = d
        BY <1>2 DEF NextKnowledgeTier, Finish
    <2>2. /\ d.findings = {} /\ d.conflicts = {} /\ d.confidence = Coverage(citations)
          /\ d.sources = Len(citations) /\ d.degraded = TRUE /\ d.raised = FALSE
          /\ d.synthesized = FALSE
        BY DEF RetrievalOnly, NoKnowledge
    <2> HIDE DEF d
    <2>3. /\ ~MalformedHits /\ citations = Cited /\ Cited # <<>>
          /\ similar = SimilarIncidents(Ranked(corpus.hits), episodic.hits)
          /\ Len(Cited) \in Nat /\ DOMAIN Cited = 1..Len(Cited) /\ Len(Cited) # 0
        BY AskedWith
    <2>4. FindingsGrounded' /\ ConfidenceEarned'
        BY <2>1, <2>2, <2>3, NothingFound
    <2>5. d.confidence \in Grade
        BY <2>2, CoverageIs
    <2>6. KTyped
        BY DEF KInv
    <2> QED
        BY <2>1, <2>2, <2>3, <2>4, <2>5, <2>6, FinishKnow
<1> QED
    BY <1>1, <1>2

LEMMA NoResultKnow ==
    ASSUME KInv, Probe \/ KnowledgeCallRaises \/ KnowledgeUnparseable
    PROVE  KInv'
<1>1. CASE Probe
    <2>1. KTyped
        BY DEF KInv
    <2> QED
        BY <1>1, <2>1, GoesOn DEF Probe, KTyped
<1>2. CASE KnowledgeCallRaises
    <2>1. CASE kattempt + 1 < KnowledgeAttempts
        <3>1. kattempt' \in 0..(KnowledgeAttempts - 1)
            BY <1>2, <2>1, KnowledgeAssumption DEF KnowledgeCallRaises, KInv, KTyped
        <3>2. ktier' \in 1..KnowledgeTiers /\ krepair' \in BOOLEAN
            BY <1>2, <2>1 DEF KnowledgeCallRaises, KInv, KTyped
        <3> QED
            BY <1>2, <2>1, <3>1, <3>2, GoesOn DEF KnowledgeCallRaises
    <2>2. CASE ~(kattempt + 1 < KnowledgeAttempts)
        BY <1>2, <2>2, NextTierKnow DEF KnowledgeCallRaises
    <2> QED
        BY <2>1, <2>2
<1>3. CASE KnowledgeUnparseable
    <2>1. CASE krepair
        BY <1>3, <2>1, NextTierKnow DEF KnowledgeUnparseable
    <2>2. CASE ~krepair
        <3>1. kattempt' \in 0..(KnowledgeAttempts - 1) /\ ktier' \in 1..KnowledgeTiers
            BY <1>3, <2>2, KnowledgeAssumption DEF KnowledgeUnparseable, KInv, KTyped
        <3> QED
            BY <1>3, <2>2, <3>1, GoesOn DEF KnowledgeUnparseable
    <2> QED
        BY <2>1, <2>2
<1> QED
    BY <1>1, <1>2, <1>3

\* What the guardrails leave of a finding leans on citations only, and is low
\* if one of them is weak.
LEMMA SupportedIs ==
    ASSUME NEW f, f.conf \in Grade, NEW g \in Supported(f)
    PROVE  /\ g.cites # {} /\ g.cites \subseteq Valid
           /\ g.cites \cap Weak # {} => CONF_RANK[g.conf] <= CONF_RANK["low"]
<1>1. /\ f.cites \cap Valid # {}
      /\ g = [cites |-> f.cites \cap Valid,
              conf  |-> IF f.cites \cap Weak # {} THEN min_conf(f.conf, "low") ELSE f.conf]
    BY DEF Supported
<1>2. g.cites = f.cites \cap Valid /\ Weak \subseteq Valid
    BY <1>1 DEF Weak
<1>3. CASE f.cites \cap Weak # {}
    <2>1. g.conf = min_conf(f.conf, "low")
        BY <1>1, <1>3
    <2>2. "low" \in Grade
        BY DEF Grade
    <2> QED
        BY <1>1, <1>2, <2>1, <2>2, GradesAre
<1>4. CASE f.cites \cap Weak = {}
    BY <1>1, <1>2, <1>4
<1> QED
    BY <1>3, <1>4

LEMMA ParsesKnow ==
    ASSUME KInv, KnowledgeParses
    PROVE  KInv'
<1>1. kstep = "ask" /\ UNCHANGED <<corpus, episodic, citations, similar>>
    BY DEF KnowledgeParses
<1>2. PICK overall \in StatedGrades :
          \/ \E f \in StatedFindings : Finish(Synthesized(Supported(f), {}, overall))
          \/ \E c \in StatedConflicts : Finish(Synthesized({}, Contested(c), overall))
    BY DEF KnowledgeParses
<1>3. PICK findings, conflicts :
          /\ Finish(Synthesized(findings, conflicts, overall))
          /\ findings = {} \/ \E f \in StatedFindings : findings = Supported(f)
          /\ conflicts = {} \/ \E c \in StatedConflicts : conflicts = Contested(c)
    BY <1>2
<1> DEFINE d == Synthesized(findings, conflicts, overall)
<1>4. Finish(d) /\ knowledge' = d
    BY <1>3 DEF Finish
<1>5. /\ d.findings = findings /\ d.conflicts = conflicts
      /\ d.confidence = min_conf(Coverage(citations), overall)
      /\ d.sources = Len(citations) /\ d.raised = FALSE /\ d.synthesized = TRUE
      /\ d.degraded = (corpus.status = "failed")
    BY DEF Synthesized
<1> HIDE DEF d
<1>6. /\ ~MalformedHits /\ citations = Cited /\ Cited # <<>>
      /\ similar = SimilarIncidents(Ranked(corpus.hits), episodic.hits)
      /\ Len(Cited) \in Nat /\ DOMAIN Cited = 1..Len(Cited) /\ Len(Cited) # 0
    BY <1>1, AskedWith
<1>7. overall \in Grade
    BY <1>2, KnowledgeAssumption
<1>8. Valid = 1..Len(citations)
    BY <1>6 DEF Valid
<1>9. FindingsGrounded'
    <2>1. ASSUME NEW g \in findings
          PROVE  /\ g.cites # {} /\ g.cites \subseteq 1..Len(citations)
                 /\ (\E i \in g.cites : citations[i].outcome = "refuted" \/ ~citations[i].current) =>
                        CONF_RANK[g.conf] <= CONF_RANK["low"]
        <3>1. PICK f \in StatedFindings : findings = Supported(f)
            BY <1>3, <2>1
        <3>2. f.conf \in Grade
            BY KnowledgeAssumption DEF StatedFindings
        <3>3. /\ g.cites # {} /\ g.cites \subseteq Valid
              /\ g.cites \cap Weak # {} => CONF_RANK[g.conf] <= CONF_RANK["low"]
            BY <2>1, <3>1, <3>2, SupportedIs
        <3> QED
            BY <1>8, <3>3 DEF Weak
    <2>2. ASSUME NEW c \in conflicts PROVE c \subseteq 1..Len(citations)
        <3>1. PICK stated : conflicts = Contested(stated)
            BY <1>3, <2>2
        <3> QED
            BY <1>8, <2>2, <3>1 DEF Contested
    <2>3. citations' = citations /\ knowledge'.sources = Len(citations)
        BY <1>1, <1>4, <1>5
    <2>4. knowledge'.findings = findings /\ knowledge'.conflicts = conflicts
        BY <1>4, <1>5
    <2> QED
        BY <2>1, <2>2, <2>3, <2>4 DEF FindingsGrounded
<1>10. ConfidenceEarned'
    <2>1. Coverage(citations) \in Grade
        BY CoverageIs
    <2>2. d.confidence = "high" => Coverage(citations) = "high"
        BY <1>5, <1>7, <2>1, GradesAre
    <2>3. d.confidence = "high" =>
              \E i \in DOMAIN citations : citations[i].outcome = "confirmed"
                                             /\ citations[i].type \in {"rca", "incident"}
        BY <2>2, CoverageIs
    <2> QED
        BY <1>1, <1>4, <1>5, <1>6, <2>3 DEF ConfidenceEarned
<1>11. d.confidence \in Grade
    BY <1>5, <1>7, CoverageIs, GradesAre
<1>12. KTyped
    BY DEF KInv
<1> QED
    BY <1>1, <1>4, <1>5, <1>6, <1>9, <1>10, <1>11, <1>12, FinishKnow
LEMMA NextKnow == KInv /\ [Next]_vars => KInv'
<1> SUFFICES ASSUME KInv, [Next]_vars PROVE KInv'
    OBVIOUS
<1>1. CASE KnowledgeStep
    BY <1>1, SearchKnow, BuildKnow, NoResultKnow, ParsesKnow DEF KnowledgeStep, KnowledgeNext
<1>2. CASE UNCHANGED knowVars
    <2>1. UNCHANGED <<kstep, corpus, episodic, citations, similar, ktier, krepair, kattempt, knowledge>>
        BY <1>2 DEF knowVars
    <2>2. MalformedHits' = MalformedHits /\ Cited' = Cited
        BY <2>1 DEF MalformedHits, Cited
    <2>3. KTyped' /\ Built' /\ Asked' /\ Delivered'
        BY <2>1, <2>2 DEF KInv, KTyped, Built, Asked, Delivered
    <2>4. FindingsGrounded' /\ ConfidenceEarned'
        BY <2>1 DEF KInv, FindingsGrounded, ConfidenceEarned
    <2> QED
        BY <2>3, <2>4 DEF KInv
<1>3. CASE ArchitectureStep \/ Merge \/ Over \/ UNCHANGED vars
    BY <1>2, <1>3 DEF ArchitectureStep, Merge, Over, vars
<1> QED
    BY <1>1, <1>3 DEF Next

LEMMA KnowledgeInvariant == Spec => []KInv
BY InitKnow, NextKnow, PTL DEF Spec

(***************************************************************************)
(* A similar incident points to the citation made of it.                   *)
(***************************************************************************)
LEMMA SimilarIncidentsLinked ==
    ASSUME KInv
    PROVE  SimilarLinked /\ Len(similar) <= Len(citations)
<1>1. CASE kstep = "retrieve" \/ MalformedHits
    <2>1. citations = <<>> /\ similar = <<>>
        BY <1>1 DEF KInv, Built
    <2> QED
        BY <2>1 DEF SimilarLinked
<1>2. CASE ~(kstep = "retrieve" \/ MalformedHits)
    <2> DEFINE R == Ranked(corpus.hits)
               E == episodic.hits
    <2>1. citations = Cited /\ similar = SimilarIncidents(R, E)
        BY <1>2 DEF KInv, Built
    <2>2. /\ Len(R) \in Nat /\ Len(E) \in Nat /\ DOMAIN E = 1..Len(E)
          /\ DOMAIN Cited = 1..(Len(R) + Len(E)) /\ Len(Cited) = Len(R) + Len(E)
          /\ \A i \in 1..Len(E) : Cited[Len(R) + i] = EpisodeCitation(E[i])
          /\ DOMAIN SimilarIncidents(R, E) = 1..Len(E)
          /\ Len(SimilarIncidents(R, E)) = Len(E)
        BY CitedAre DEF KInv, KTyped
    <2>3. \A i \in 1..Len(E) : /\ similar[i].doc = E[i].doc
                               /\ similar[i].cite = Len(R) + i
        BY <2>1, <2>2 DEF SimilarIncidents
    <2>4. \A i \in 1..Len(E) : /\ EpisodeCitation(E[i]).doc = E[i].doc
                               /\ EpisodeCitation(E[i]).type = "incident"
        BY DEF EpisodeCitation
    <2> HIDE DEF R, E
    <2>5. \A i \in 1..Len(E) : Len(R) + i \in 1..(Len(R) + Len(E))
        BY <2>2
    <2>6. SimilarLinked
        BY <2>1, <2>2, <2>3, <2>4, <2>5 DEF SimilarLinked
    <2>7. Len(similar) <= Len(citations)
        BY <2>1, <2>2
    <2> QED
        BY <2>6, <2>7
<1> QED
    BY <1>1, <1>2

(***************************************************************************)
(* The citations are the best the corpus had.                              *)
(***************************************************************************)
LEMMA BestAreCited ==
    ASSUME KInv
    PROVE  BestKept
<1> SUFFICES ASSUME citations # <<>>, NEW i \in DOMAIN corpus.hits
             PROVE  \/ corpus.hits[i] \in Range(citations)
                    \/ \A j \in 1..(Len(citations) - Len(similar)) :
                           citations[j].score >= corpus.hits[i].score
    BY DEF BestKept
<1> DEFINE s == corpus.hits
           R == Ranked(s)
           E == episodic.hits
<1>1. citations = Cited /\ similar = SimilarIncidents(R, E)
    BY DEF KInv, Built
<1>2. /\ Len(R) \in Nat /\ Len(E) \in Nat
      /\ DOMAIN Cited = 1..(Len(R) + Len(E)) /\ Len(Cited) = Len(R) + Len(E)
      /\ \A k \in 1..Len(R) : Cited[k] = R[k]
      /\ Len(SimilarIncidents(R, E)) = Len(E)
    BY CitedAre DEF KInv, KTyped
<1>3. s \in Seq(Chunks)
    BY DEF KInv, KTyped, Replies
<1>4. /\ Len(R) = Kept(s)
      /\ \/ \E k \in 1..Kept(s) : R[k] = s[i]
         \/ \A k \in 1..Kept(s) : R[k].score >= s[i].score
    BY <1>3, RankedIs
<1> HIDE DEF s, R, E
<1>5. Len(citations) - Len(similar) = Len(R) /\ 1..Len(R) \subseteq DOMAIN citations
    BY <1>1, <1>2
<1>6. CASE \E k \in 1..Kept(s) : R[k] = s[i]
    <2>1. PICK k \in 1..Len(R) : R[k] = s[i]
        BY <1>4, <1>6
    <2>2. k \in DOMAIN citations /\ citations[k] = s[i]
        BY <1>1, <1>2, <1>5, <2>1
    <2> QED
        BY <2>2 DEF Range, s
<1>7. CASE \A k \in 1..Kept(s) : R[k].score >= s[i].score
    <2>1. \A k \in 1..Len(R) : citations[k].score >= s[i].score
        BY <1>1, <1>2, <1>4, <1>7
    <2> QED
        BY <1>5, <2>1 DEF s
<1> QED
    BY <1>4, <1>6, <1>7

(***************************************************************************)
(* The knowledge node hands on no more than what it retrieved supports,    *)
(* whatever the searches return, the model states and the tiers answer.    *)
(***************************************************************************)
THEOREM KnowledgeIsSupported == Spec => []KnowledgeSupported
<1>1. KInv => KnowledgeSupported
    BY SimilarIncidentsLinked, BestAreCited DEF KInv, KnowledgeSupported
<1> QED
    BY <1>1, KnowledgeInvariant, PTL

----------------------------------------------------------------------------
\* What the merge leaves is what the two nodes ended with.
LEMMA InitBoard == Init => BInv
BY DEF Init, NoBoard, BInv

LEMMA NextBoard == KInv /\ BInv /\ [Next]_vars => BInv'
<1> SUFFICES ASSUME KInv, BInv, [Next]_vars PROVE BInv'
    OBVIOUS
<1>1. CASE KnowledgeStep
    <2>1. kstep # "done" /\ board' = board
        BY <1>1 DEF KnowledgeStep, KnowledgeNext, CorpusAnswers, EpisodicAnswers, BuildCitations,
                    Probe, KnowledgeCallRaises, KnowledgeUnparseable, KnowledgeParses
    <2>2. board = NoBoard
        BY <2>1 DEF BInv
    <2> QED
        BY <2>1, <2>2 DEF BInv
<1>2. CASE ArchitectureStep
    <2>1. ~ArchitectureEnded /\ board' = board
        BY <1>2 DEF ArchitectureStep, ArchitectureNext, AskConfigItem, AskRelationships,
                    AskChanges, Malformed, ArchitectureEnded
    <2>2. board = NoBoard
        BY <2>1 DEF BInv
    <2> QED
        BY <2>1, <2>2 DEF BInv
<1>3. CASE Merge
    <2>1. /\ kstep = "done" /\ ArchitectureEnded /\ UNCHANGED <<knowVars, archVars>>
          /\ board = NoBoard
        BY <1>3 DEF Merge, KnowledgeEnded, BInv, Gathered
    <2>2. \/ knowledge.raised = FALSE /\ ~MalformedHits
          \/ knowledge.raised = TRUE /\ MalformedHits
        <3>1. CASE MalformedHits
            BY <2>1, <3>1 DEF KInv, Delivered, KnowledgeRaised, NoKnowledge
        <3>2. CASE ~MalformedHits
            BY <2>1, <3>2 DEF KInv, Delivered
        <3> QED
            BY <3>1, <3>2
    <2>3. NodeErrors("knowledge", knowledge.raised) = NodeErrors("knowledge", MalformedHits)
        BY <2>2 DEF NodeErrors
    <2>5. board' = Gathered
        BY <1>3, <2>1, <2>3 DEF Merge, NoBoard, Gathered
    <2>4. kstep' = kstep /\ astep' = astep /\ Gathered' = Gathered
        BY <2>1 DEF knowVars, archVars, MalformedHits, Context, Cut, Gathered
    <2> QED
        BY <2>1, <2>4, <2>5 DEF BInv, ArchitectureEnded
<1>4. CASE Over \/ UNCHANGED vars
    <2>1. UNCHANGED <<kstep, corpus, episodic, knowledge, board>> /\ UNCHANGED archVars
        BY <1>4 DEF Over, vars, knowVars
    <2>2. astep' = astep /\ Gathered' = Gathered
        BY <2>1 DEF archVars, MalformedHits, Context, Cut, Gathered
    <2> QED
        BY <2>1, <2>2 DEF BInv, ArchitectureEnded
<1> QED
    BY <1>1, <1>2, <1>3, <1>4 DEF Next

LEMMA BoardInvariant == Spec => []BInv
BY InitBoard, NextBoard, KnowledgeInvariant, PTL DEF Spec

LEMMA BoundsInvariant == Spec => []ArchBounds
<1>1. Init => ArchBounds
    <2>1. MaxItems \in Nat
        BY ArchitectureAssumption
    <2> QED
        BY <2>1 DEF Init, ArchitectureInit, ArchBounds
<1>2. ArchBounds /\ [Next]_vars => ArchBounds'
    BY DEF ArchBounds, Next, vars, archVars, KnowledgeStep, ArchitectureStep, Merge, Over,
           ArchitectureNext, AskConfigItem, AskRelationships, AskChanges, Malformed, Call
<1> QED
    BY <1>1, <1>2, PTL DEF Spec

(***************************************************************************)
(* Both nodes write `errors' in one superstep: the reducer keeps the entry *)
(* of each that raised, once, and what raised is degraded.                 *)
(***************************************************************************)
LEMMA ErrorsAre ==
    Gathered.errors = IF MalformedHits
                      THEN IF astep = "raised" THEN <<"knowledge", "architecture">> ELSE <<"knowledge">>
                      ELSE IF astep = "raised" THEN <<"architecture">> ELSE <<>>
<1> DEFINE knows == NodeErrors("knowledge", MalformedHits)
           archs == NodeErrors("architecture", astep = "raised")
<1>1. knows = IF MalformedHits THEN <<"knowledge">> ELSE <<>>
    BY DEF NodeErrors
<1>2. archs = IF astep = "raised" THEN <<"architecture">> ELSE <<>>
    BY DEF NodeErrors
<1>3. Gathered.errors = <<>> \o knows \o archs
    BY DEF Gathered, MergedErrors
<1> HIDE DEF knows, archs
<1>4. /\ <<>> \o <<"knowledge">> \o <<"architecture">> = <<"knowledge", "architecture">>
      /\ <<>> \o <<"knowledge">> \o <<>> = <<"knowledge">>
      /\ <<>> \o <<>> \o <<"architecture">> = <<"architecture">>
      /\ <<>> \o <<>> \o <<>> = <<>>
    <2> DEFINE Nodes == {"knowledge", "architecture"}
    <2>1. <<>> \in Seq(Nodes) /\ <<"knowledge">> \in Seq(Nodes) /\ <<"architecture">> \in Seq(Nodes)
        OBVIOUS
    <2>2. <<"knowledge">> \o <<"architecture">> = <<"knowledge", "architecture">>
        <3> DEFINE both == <<"knowledge">> \o <<"architecture">>
                   t == <<"knowledge", "architecture">>
        <3>1. /\ t \in Seq(Nodes) /\ Len(t) = 2
              /\ t[1] = "knowledge" /\ t[2] = "architecture"
            OBVIOUS
        <3>2. Append(<<"knowledge">>, "architecture") = both
            BY <2>1, AppendIsConcat
        <3>3. /\ both \in Seq(Nodes) /\ Len(both) = 2
              /\ both[1] = "knowledge" /\ both[2] = "architecture"
            <4>1. Len(<<"knowledge">>) = 1 /\ <<"knowledge">>[1] = "knowledge"
                OBVIOUS
            <4> QED
                BY <2>1, <3>2, <4>1, AppendProperties
        <3> HIDE DEF both, t
        <3>4. \A i \in 1..2 : both[i] = t[i]
            BY <3>1, <3>3
        <3>5. both = t
            BY <3>1, <3>3, <3>4, SeqEqual
        <3> QED
            BY <3>5 DEF both, t
    <2> QED
        BY <2>1, <2>2, ConcatEmptySeq
<1> QED
    BY <1>1, <1>2, <1>3, <1>4

LEMMA MergedIsAccounted ==
    ASSUME KInv, BInv
    PROVE  ErrorsAccounted
<1> SUFFICES ASSUME board.merged PROVE ErrorsAccounted
    BY DEF ErrorsAccounted
<1>1. kstep = "done" /\ board = Gathered
    BY DEF BInv, NoBoard
<1>2. board.errors = IF MalformedHits
                     THEN IF astep = "raised" THEN <<"knowledge", "architecture">> ELSE <<"knowledge">>
                     ELSE IF astep = "raised" THEN <<"architecture">> ELSE <<>>
    BY <1>1, ErrorsAre
<1>3. /\ Range(board.errors) = {n \in {"knowledge", "architecture"} :
                                    IF n = "knowledge" THEN MalformedHits ELSE astep = "raised"}
      /\ IsInjective(board.errors)
    <2>1. CASE MalformedHits /\ astep = "raised"
        <3>1. board.errors = <<"knowledge", "architecture">>
            BY <1>2, <2>1
        <3> QED
            BY <2>1, <3>1 DEF Range, IsInjective
    <2>2. CASE MalformedHits /\ astep # "raised"
        <3>1. board.errors = <<"knowledge">>
            BY <1>2, <2>2
        <3> QED
            BY <2>2, <3>1 DEF Range, IsInjective
    <2>3. CASE ~MalformedHits /\ astep = "raised"
        <3>1. board.errors = <<"architecture">>
            BY <1>2, <2>3
        <3> QED
            BY <2>3, <3>1 DEF Range, IsInjective
    <2>4. CASE ~MalformedHits /\ astep # "raised"
        <3>1. board.errors = <<>>
            BY <1>2, <2>4
        <3> QED
            BY <2>4, <3>1 DEF Range, IsInjective
    <2> QED
        BY <2>1, <2>2, <2>3, <2>4 DEF MalformedHits
<1>4. MalformedHits => knowledge.degraded
    BY <1>1 DEF KInv, Delivered, KnowledgeRaised, NoKnowledge
<1>5. astep = "raised" => Context.degraded
    BY DEF Context
<1>6. board.degraded = {n \in {"knowledge", "architecture"} :
                            IF n = "knowledge" THEN knowledge.degraded ELSE Context.degraded}
    BY <1>1 DEF Gathered
<1> QED
    BY <1>3, <1>4, <1>5, <1>6 DEF ErrorsAccounted, MalformedHits

\* The flag of the knowledge node is told exactly when something is missing.
LEMMA KnowledgeTold ==
    ASSUME KInv
    PROVE  DegradedTold
<1> SUFFICES ASSUME kstep = "done" PROVE DegradedTold
    BY DEF DegradedTold
<1>1. CASE MalformedHits
    BY <1>1 DEF KInv, Delivered, KnowledgeRaised, NoKnowledge, DegradedTold, MalformedHits
<1>2. CASE ~MalformedHits
    <2> DEFINE m == Len(Ranked(corpus.hits))
               n == Len(episodic.hits)
    <2>1. /\ citations = Cited /\ knowledge.sources = Len(citations)
          /\ knowledge.degraded =
                 (corpus.status = "failed" \/ (citations # <<>> /\ ~knowledge.synthesized))
        BY <1>2 DEF KInv, Delivered, Built
    <2>2. /\ m \in Nat /\ n \in Nat /\ Len(Cited) = m + n
          /\ Cited = <<>> <=> Len(Cited) = 0
        BY CitedAre DEF KInv, KTyped
    <2> HIDE DEF m, n
    <2>3. citations # <<>> <=> knowledge.sources > 0
        BY <2>1, <2>2
    <2> QED
        BY <1>2, <2>1, <2>3 DEF DegradedTold, MalformedHits
<1> QED
    BY <1>1, <1>2

\* The warnings, while the run lasts and in the delta it leaves; one that raised
\* leaves none.
Warns ==
    /\ "corpus" \in kwarnings <=> corpus.status = "failed"
    /\ "episodic" \in kwarnings <=> episodic.status = "failed"
    /\ "synthesis" \in kwarnings <=> kstep = "done" /\ citations # <<>> /\ ~knowledge.synthesized

WInv ==
    /\ kwarnings \subseteq {"corpus", "episodic", "synthesis"}
    /\ (kstep = "done" /\ MalformedHits) \/ Warns

LEMMA InitWarnings == Init => WInv
BY DEF Init, KnowledgeInit, Pending, WInv, Warns

\* A search warns of itself and of nothing else.
LEMMA SearchWarnings ==
    ASSUME WInv, CorpusAnswers \/ EpisodicAnswers
    PROVE  WInv'
<1>1. kstep = "retrieve" /\ kstep' = "retrieve" /\ UNCHANGED <<citations, knowledge>> /\ Warns
    BY DEF CorpusAnswers, EpisodicAnswers, WInv
<1>2. CASE CorpusAnswers
    <2>1. /\ corpus.status = "pending" /\ episodic' = episodic
          /\ kwarnings' = IF corpus'.status = "failed" THEN kwarnings \cup {"corpus"} ELSE kwarnings
        BY <1>2 DEF CorpusAnswers, Pending, Warned
    <2>2. "corpus" \notin kwarnings
        BY <1>1, <2>1 DEF Warns
    <2> QED
        BY <1>1, <2>1, <2>2 DEF WInv, Warns
<1>3. CASE EpisodicAnswers
    <2>1. /\ episodic.status = "pending" /\ corpus' = corpus
          /\ kwarnings' = IF episodic'.status = "failed" THEN kwarnings \cup {"episodic"} ELSE kwarnings
        BY <1>3 DEF EpisodicAnswers, Pending, Warned
    <2>2. "episodic" \notin kwarnings
        BY <1>1, <2>1 DEF Warns
    <2> QED
        BY <1>1, <2>1, <2>2 DEF WInv, Warns
<1> QED
    BY <1>2, <1>3

LEMMA BuildWarnings ==
    ASSUME WInv, BuildCitations
    PROVE  WInv'
<1>1. kstep = "retrieve" /\ UNCHANGED <<corpus, episodic>> /\ Warns
    BY DEF BuildCitations, WInv
<1>2. MalformedHits' = MalformedHits
    BY <1>1 DEF MalformedHits
<1>3. CASE MalformedHits
    <2>1. kstep' = "done" /\ kwarnings' = {}
        BY <1>3 DEF BuildCitations, MalformedHits, Finish
    <2> QED
        BY <1>2, <1>3, <2>1 DEF WInv
<1>4. CASE ~MalformedHits
    <2>1. kwarnings' = kwarnings /\ (kstep' = "done" => citations' = <<>>)
        <3>1. /\ citations' = Cited /\ kwarnings' = kwarnings
              /\ Cited # <<>> => kstep' = IF FreshnessCheck THEN "probe" ELSE "ask"
            BY <1>4 DEF BuildCitations, MalformedHits, Cited
        <3> QED
            BY <3>1
    <2> QED
        BY <1>1, <2>1 DEF WInv, Warns
<1> QED
    BY <1>3, <1>4

\* A tier without result leaves no warning, unless it was the last.
LEMMA NextTierWarnings ==
    ASSUME KInv, WInv, kstep = "ask", NextKnowledgeTier,
           UNCHANGED <<corpus, episodic, citations, similar>>
    PROVE  WInv'
<1>1. Warns
    BY DEF WInv
<1>2. CASE ktier < KnowledgeTiers
    BY <1>1, <1>2 DEF NextKnowledgeTier, WInv, Warns
<1>3. CASE ~(ktier < KnowledgeTiers)
    <2>1. /\ kstep' = "done" /\ kwarnings' = kwarnings \cup {"synthesis"}
          /\ knowledge' = RetrievalOnly(citations)
        BY <1>3 DEF NextKnowledgeTier, Finish
    <2>2. ~knowledge'.synthesized
        BY <2>1 DEF RetrievalOnly, NoKnowledge
    <2>3. citations' # <<>>
        BY AskedWith
    <2> QED
        BY <1>1, <2>1, <2>2, <2>3 DEF WInv, Warns
<1> QED
    BY <1>2, <1>3

LEMMA ParsesWarnings ==
    ASSUME WInv, KnowledgeParses
    PROVE  WInv'
<1>1. kstep = "ask" /\ UNCHANGED <<corpus, episodic, citations, kwarnings>> /\ Warns
    BY DEF KnowledgeParses, WInv
<1>2. PICK overall \in StatedGrades :
          \/ \E f \in StatedFindings : Finish(Synthesized(Supported(f), {}, overall))
          \/ \E c \in StatedConflicts : Finish(Synthesized({}, Contested(c), overall))
    BY DEF KnowledgeParses
<1>3. PICK findings, conflicts : Finish(Synthesized(findings, conflicts, overall))
    BY <1>2
<1>4. knowledge'.synthesized = TRUE
    BY <1>3 DEF Finish, Synthesized
<1> QED
    BY <1>1, <1>4 DEF WInv, Warns

LEMMA NextWarnings == KInv /\ WInv /\ [Next]_vars => WInv'
<1> SUFFICES ASSUME KInv, WInv, [Next]_vars PROVE WInv'
    OBVIOUS
<1>1. CASE UNCHANGED knowVars
    BY <1>1 DEF knowVars, WInv, Warns, MalformedHits
<1>2. CASE KnowledgeStep
    <2>1. CASE Probe
        BY <2>1 DEF Probe, WInv, Warns
    <2>2. CASE KnowledgeCallRaises
        <3>1. CASE kattempt + 1 < KnowledgeAttempts
            <4>1. kstep = "ask" /\ UNCHANGED <<kstep, corpus, episodic, citations, kwarnings>>
                BY <2>2, <3>1 DEF KnowledgeCallRaises
            <4> QED
                BY <4>1 DEF WInv, Warns
        <3>2. CASE ~(kattempt + 1 < KnowledgeAttempts)
            BY <2>2, <3>2, NextTierWarnings DEF KnowledgeCallRaises
        <3> QED
            BY <3>1, <3>2
    <2>3. CASE KnowledgeUnparseable
        <3>1. CASE krepair
            BY <2>3, <3>1, NextTierWarnings DEF KnowledgeUnparseable
        <3>2. CASE ~krepair
            BY <2>3, <3>2 DEF KnowledgeUnparseable, WInv, Warns
        <3> QED
            BY <3>1, <3>2
    <2> QED
        BY <1>2, <2>1, <2>2, <2>3, SearchWarnings, BuildWarnings, ParsesWarnings
            DEF KnowledgeStep, KnowledgeNext
<1>3. CASE ArchitectureStep \/ Merge \/ Over \/ UNCHANGED vars
    BY <1>1, <1>3 DEF ArchitectureStep, Merge, Over, vars
<1> QED
    BY <1>2, <1>3 DEF Next

LEMMA WarningsInvariant == Spec => []WInv
BY InitWarnings, NextWarnings, KnowledgeInvariant, PTL DEF Spec

LEMMA WarnedOf ==
    ASSUME KInv, WInv
    PROVE  WarningsTold
<1> SUFFICES ASSUME kstep = "done", ~knowledge.raised PROVE WarningsTold
    BY DEF WarningsTold
<1>1. ~MalformedHits
    BY DEF KInv, Delivered, KnowledgeRaised, NoKnowledge
<1>2. Warns
    BY <1>1 DEF WInv
<1>3. citations = Cited /\ knowledge.sources = Len(citations)
    BY <1>1 DEF KInv, Delivered, Built
<1>4. citations # <<>> <=> knowledge.sources > 0
    <2> DEFINE m == Len(Ranked(corpus.hits))
               n == Len(episodic.hits)
    <2>1. /\ m \in Nat /\ n \in Nat /\ Len(Cited) = m + n
          /\ Cited = <<>> <=> Len(Cited) = 0
        BY CitedAre DEF KInv, KTyped
    <2> HIDE DEF m, n
    <2> QED
        BY <1>3, <2>1
<1> QED
    BY <1>2, <1>4 DEF WarningsTold, Warns

(***************************************************************************)
(* agents/knowledge_retrieval/agent.py _retrieve and _synthesize,          *)
(* agents/architecture_discovery/agent.py _call and the reducer of         *)
(* `errors': in whichever order the searches and calls of the two agents   *)
(* fail, each that failed has its warning, or the run that raised its      *)
(* entry under `errors'; and knowledge_degraded is set for a corpus search *)
(* or a synthesis that failed, and for a run that raised.                  *)
(***************************************************************************)
THEOREM FailuresAreAccounted == Spec => []FailuresAccounted
<1>1. KInv /\ BInv => DegradedTold /\ ErrorsAccounted
    BY MergedIsAccounted, KnowledgeTold
<1>2. KInv /\ WInv => WarningsTold
    BY WarnedOf
<1> QED
    BY <1>1, <1>2, KnowledgeInvariant, BoardInvariant, WarningsInvariant, FailuresAreTold, PTL
        DEF FailuresAccounted

(***************************************************************************)
(* The types of both agents and of the blackboard, the model's retries and *)
(* the number of systems within their bounds.                              *)
(***************************************************************************)
THEOREM EvidenceTyped == Spec => []TypeOK
<1>1. KInv /\ WInv => KnowledgeTypeOK
    <2> SUFFICES ASSUME KInv, WInv PROVE KnowledgeTypeOK
        OBVIOUS
    <2>1. Len(similar) <= Len(citations)
        BY SimilarIncidentsLinked
    <2>2. /\ knowledge.confidence \in Grade /\ knowledge.sources \in Nat
          /\ {knowledge.degraded, knowledge.raised} \subseteq BOOLEAN
        <3>1. CASE kstep # "done" \/ MalformedHits
            <4>1. knowledge = NoKnowledge \/ knowledge = KnowledgeRaised
                BY <3>1 DEF KInv, Asked, Delivered
            <4>2. /\ knowledge.confidence = "speculative" /\ knowledge.sources = 0
                  /\ knowledge.degraded = FALSE \/ knowledge.degraded = TRUE
                  /\ knowledge.raised = FALSE \/ knowledge.raised = TRUE
                <5>1. CASE knowledge = NoKnowledge
                    BY <5>1 DEF NoKnowledge
                <5>2. CASE knowledge = KnowledgeRaised
                    BY <5>2 DEF NoKnowledge, KnowledgeRaised
                <5> QED
                    BY <4>1, <5>1, <5>2
            <4>3. knowledge.degraded \in BOOLEAN /\ knowledge.raised \in BOOLEAN
                BY <4>2
            <4> QED
                BY <4>2, <4>3 DEF Grade
        <3>2. CASE kstep = "done" /\ ~MalformedHits
            <4> DEFINE m == Len(Ranked(corpus.hits))
                       n == Len(episodic.hits)
            <4>1. m \in Nat /\ n \in Nat /\ Len(Cited) = m + n
                BY CitedAre DEF KInv, KTyped
            <4> HIDE DEF m, n
            <4>2. Len(Cited) \in Nat
                BY <4>1
            <4> QED
                BY <3>2, <4>2 DEF KInv, Built, Delivered
        <3> QED
            BY <3>1, <3>2
    <2> QED
        BY <2>1, <2>2 DEF KInv, KTyped, WInv, KnowledgeTypeOK
<1>2. ArchInv /\ ArchBounds => ArchitectureTypeOK
    <2> SUFFICES ASSUME ArchInv, ArchBounds PROVE ArchitectureTypeOK
        OBVIOUS
    <2>1. Len(impacted) <= MaxSystems
        <3>1. Len(impacted) \in Nat /\ Len(Wanted) \in Nat /\ Len(impacted) <= Len(Wanted)
            BY WantedIs, LenProperties DEF ArchInv, ArchTyped, Progress
        <3>2. Len(Wanted) <= MaxSystems
            BY WantedIs DEF ArchInv, ArchTyped
        <3> QED
            BY <3>1, <3>2, ArchitectureAssumption
    <2> QED
        BY <2>1 DEF ArchInv, ArchTyped, ArchBounds, ArchitectureTypeOK, Node, Edge
<1>3. KInv /\ BInv =>
          board \in [merged : BOOLEAN, errors : Seq({"knowledge", "architecture"}),
                     degraded : SUBSET {"knowledge", "architecture"}]
    <2> SUFFICES ASSUME KInv, BInv
                 PROVE  board \in [merged : BOOLEAN, errors : Seq({"knowledge", "architecture"}),
                                   degraded : SUBSET {"knowledge", "architecture"}]
        OBVIOUS
    <2> DEFINE Nodes == {"knowledge", "architecture"}
    <2>1. <<>> \in Seq(Nodes) /\ <<"knowledge">> \in Seq(Nodes)
          /\ <<"architecture">> \in Seq(Nodes) /\ <<"knowledge", "architecture">> \in Seq(Nodes)
        OBVIOUS
    <2>2. Gathered.errors \in Seq(Nodes)
        BY <2>1, ErrorsAre
    <2>3. CASE board = NoBoard
        BY <2>1, <2>3 DEF NoBoard
    <2>4. CASE board = Gathered
        BY <2>2, <2>4 DEF Gathered
    <2> QED
        BY <2>3, <2>4 DEF BInv
<1> QED
    BY <1>1, <1>2, <1>3, KnowledgeInvariant, ArchitectureInvariant, BoardInvariant,
       WarningsInvariant, BoundsInvariant, PTL DEF TypeOK
===============================================================================
