------------------------------ MODULE UnitOfWork ------------------------------
(***************************************************************************)
(* The database transactions of the API (db/repositories.py) and the       *)
(* hash-chained audit log they write to (libs/audit/sink.py).              *)
(*                                                                         *)
(* A request runs one unit of work: POST /investigations looks its         *)
(* idempotency key up and inserts an investigation, POST .../approvals and *)
(* .../feedback read the investigation and insert a row that refers to it; *)
(* each then records one audit entry in the same transaction and commits.  *)
(* Transactions of different requests interleave at every statement, under *)
(* PostgreSQL's READ COMMITTED isolation, and any of them may fail or lose *)
(* its process before it commits.                                          *)
(***************************************************************************)
EXTENDS Naturals, Sequences, FiniteSets

CONSTANTS
    Request,    \* the HTTP requests; also the ids of the rows they insert
    Team,       \* the teams investigations belong to
    Key,        \* the values of the Idempotency-Key header
    NoKey,      \* the header is absent
    None,       \* nobody holds the advisory lock
    Workload    \* what a request may ask for

(***************************************************************************)
(* A create asks for an investigation of `team', with a key or without; a  *)
(* review (an approval or feedback) is `about' an investigation, named by  *)
(* the request that created it.  `scope' is the set of teams the caller    *)
(* may see: every team for an admin.                                       *)
(***************************************************************************)
Ask == [kind : {"create", "review"}, key : Key \cup {NoKey}, team : Team,
        scope : SUBSET Team, about : Request]

ASSUME UowAssumption == /\ Workload \subseteq Ask
                        /\ NoKey \notin Key
                        /\ None \notin Request

VARIABLES
    pc,         \* pc[r]: the statement request r executes next, or how it ended
    ask,        \* ask[r]: what r asks for, chosen when it begins
    rows,       \* the committed investigations, approvals and feedback
    log,        \* the committed rows of audit_log
    pending,    \* pending[r]: the business rows r has flushed but not committed
    unlogged,   \* unlogged[r]: the audit rows r has flushed but not committed
    lock,       \* who holds AUDIT_ADVISORY_LOCK_KEY
    head,       \* head[r]: the hash r read as the head of the chain
    nextSeq     \* the next value of audit_log.seq; a sequence never rolls back

vars == <<pc, ask, rows, log, pending, unlogged, lock, head, nextSeq>>

InTx  == {"begun", "insert", "record", "locked", "head_read", "flushed"}
Ended == {"committed", "existing", "missing", "conflict", "failed"}

Row      == [by : Request, about : Request, key : Key \cup {NoKey}, team : Team]
Hash     == Seq(Request)
AuditRow == [seq : Nat \ {0}, entry : Request, prev_hash : Hash, this_hash : Hash]

GENESIS_HASH == <<>>

\* sha256 taken as collision free: a hash is the list of the entries hashed.
compute_entry_hash(prev, entry) == Append(prev, entry)

\* SELECT ... ORDER BY seq DESC LIMIT 1: the head of the chain.
HeadHash(audit) ==
    IF audit = {} THEN GENESIS_HASH
    ELSE (CHOOSE x \in audit : \A y \in audit : y.seq <= x.seq).this_hash

Investigations(table) == {x \in table : x.by = x.about}

\* The investigations request r can see: the team clause and the RLS policy.
Visible(r) == {x \in Investigations(rows) : x.team \in ask[r].scope}

----------------------------------------------------------------------------
Init ==
    /\ pc = [r \in Request |-> "new"]
    /\ ask \in [Request -> Workload]
    /\ rows = {}
    /\ log = {}
    /\ pending = [r \in Request |-> {}]
    /\ unlogged = [r \in Request |-> {}]
    /\ lock = None
    /\ head = [r \in Request |-> GENESIS_HASH]
    /\ nextSeq = 1

Goto(r, from, to) == /\ pc[r] = from
                     /\ pc' = [pc EXCEPT ![r] = to]

\* Mutant of EndTx: a session-level lock, which outlives the transaction.
EndTxKeepingLock(r) ==
    /\ pending' = [pending EXCEPT ![r] = {}]
    /\ unlogged' = [unlogged EXCEPT ![r] = {}]
    /\ UNCHANGED <<ask, head, nextSeq, lock>>

\* The transaction of r is over: what it flushed leaves its session and the
\* transaction-scoped advisory lock is free again.
EndTx(r) ==
    /\ pending' = [pending EXCEPT ![r] = {}]
    /\ unlogged' = [unlogged EXCEPT ![r] = {}]
    /\ lock' = IF lock = r THEN None ELSE lock
    /\ UNCHANGED <<ask, head, nextSeq>>

\* Mutant of Begin: the audit lock is tried as soon as the transaction opens.
BeginTryingLock(r) ==
    /\ Goto(r, "new", "begun")
    /\ lock' = IF lock = None THEN r ELSE lock
    /\ UNCHANGED <<ask, rows, log, pending, unlogged, head, nextSeq>>

\* __aenter__: open the transaction and set its scope.
Begin(r) ==
    /\ Goto(r, "new", "begun")
    /\ UNCHANGED <<ask, rows, log, pending, unlogged, lock, head, nextSeq>>

\* Mutant of LookupMiss: the key is not looked up.
LookupSkipped(r) ==
    /\ ask[r].kind = "create"
    /\ Goto(r, "begun", "insert")
    /\ UNCHANGED <<ask, rows, log, pending, unlogged, lock, head, nextSeq>>

\* create: get_by_idempotency_key found nothing, go on to insert.
LookupMiss(r) ==
    /\ ask[r].kind = "create"
    /\ \A x \in Visible(r) : x.key = NoKey \/ x.key # ask[r].key
    /\ Goto(r, "begun", "insert")
    /\ UNCHANGED <<ask, rows, log, pending, unlogged, lock, head, nextSeq>>

\* create: the key is known, answer 200 with the existing investigation.
LookupHit(r) ==
    /\ ask[r].kind = "create"
    /\ \E x \in Visible(r) : x.key # NoKey /\ x.key = ask[r].key
    /\ Goto(r, "begun", "existing")
    /\ EndTx(r)
    /\ UNCHANGED <<rows, log>>

\* approvals and feedback: investigations.get finds the investigation ...
GetFound(r) ==
    /\ ask[r].kind = "review"
    /\ \E x \in Visible(r) : x.about = ask[r].about
    /\ Goto(r, "begun", "insert")
    /\ UNCHANGED <<ask, rows, log, pending, unlogged, lock, head, nextSeq>>

\* ... or raises NotFound, which rolls the transaction back.
GetMissing(r) ==
    /\ ask[r].kind = "review"
    /\ \A x \in Visible(r) : x.about # ask[r].about
    /\ Goto(r, "begun", "missing")
    /\ EndTx(r)
    /\ UNCHANGED <<rows, log>>

\* Another transaction has inserted r's key and is still open: the UNIQUE index
\* makes r wait for its outcome.
KeyInDoubt(r, q) == \E x \in pending[q] : x.key # NoKey /\ x.key = ask[r].key

\* Mutant of KeyTaken: UNIQUE (team_id, idempotency_key).
KeyTakenInTeam(r) ==
    \E x \in rows : x.key # NoKey /\ x.key = ask[r].key /\ x.team = ask[r].team

KeyTaken(r) == \E x \in rows : x.key # NoKey /\ x.key = ask[r].key

\* InvestigationRepository.create flushes the investigation.
InsertInvestigation(r) ==
    /\ ask[r].kind = "create"
    /\ \A q \in Request \ {r} : ~KeyInDoubt(r, q)
    /\ ~KeyTaken(r)
    /\ Goto(r, "insert", "record")
    /\ pending' = [pending EXCEPT ![r] =
           {[by |-> r, about |-> r, key |-> ask[r].key, team |-> ask[r].team]}]
    /\ UNCHANGED <<ask, rows, log, unlogged, lock, head, nextSeq>>

\* The flush violates UNIQUE (idempotency_key): the exception rolls back.
InsertConflict(r) ==
    /\ ask[r].kind = "create"
    /\ \A q \in Request \ {r} : ~KeyInDoubt(r, q)
    /\ KeyTaken(r)
    /\ Goto(r, "insert", "conflict")
    /\ EndTx(r)
    /\ UNCHANGED <<rows, log>>

\* ApprovalRepository.create or FeedbackRepository.create, with the team of the
\* investigation it is about.
InsertReview(r) ==
    /\ ask[r].kind = "review"
    /\ Goto(r, "insert", "record")
    /\ \E x \in Visible(r) :
           /\ x.about = ask[r].about
           /\ pending' = [pending EXCEPT ![r] =
                  {[by |-> r, about |-> x.about, key |-> NoKey, team |-> x.team]}]
    /\ UNCHANGED <<ask, rows, log, unlogged, lock, head, nextSeq>>

\* Mutant of AcquireLock: a shared advisory lock, which keeps nobody out.
AcquireSharedLock(r) ==
    /\ Goto(r, "record", "locked")
    /\ lock' = r
    /\ UNCHANGED <<ask, rows, log, pending, unlogged, head, nextSeq>>

\* record: SELECT pg_advisory_xact_lock, granted when free or already held.
AcquireLock(r) ==
    /\ lock \in {None, r}
    /\ Goto(r, "record", "locked")
    /\ lock' = r
    /\ UNCHANGED <<ask, rows, log, pending, unlogged, head, nextSeq>>

\* Mutant of ReadHead: the sink trusts the hash it remembers.
ReadRememberedHead(r) ==
    /\ Goto(r, "locked", "head_read")
    /\ UNCHANGED <<ask, rows, log, pending, unlogged, lock, head, nextSeq>>

\* record: a statement of its own reads the newest committed row.
ReadHead(r) ==
    /\ Goto(r, "locked", "head_read")
    /\ head' = [head EXCEPT ![r] = HeadHash(log)]
    /\ UNCHANGED <<ask, rows, log, pending, unlogged, lock, nextSeq>>

\* Mutants of FlushEntry: the entry is committed in a session of its own; the
\* lock is released as soon as the entry is flushed.
FlushEntryInOwnSession(r) ==
    /\ Goto(r, "head_read", "flushed")
    /\ log' = log \cup
           {[seq |-> nextSeq, entry |-> r, prev_hash |-> head[r],
             this_hash |-> compute_entry_hash(head[r], r)]}
    /\ nextSeq' = nextSeq + 1
    /\ UNCHANGED <<ask, rows, pending, unlogged, lock, head>>

FlushEntryAndUnlock(r) ==
    /\ Goto(r, "head_read", "flushed")
    /\ unlogged' = [unlogged EXCEPT ![r] =
           {[seq |-> nextSeq, entry |-> r, prev_hash |-> head[r],
             this_hash |-> compute_entry_hash(head[r], r)]}]
    /\ nextSeq' = nextSeq + 1
    /\ lock' = None
    /\ UNCHANGED <<ask, rows, log, pending, head>>

\* record: insert the chained row; its seq is drawn from the sequence.
FlushEntry(r) ==
    /\ Goto(r, "head_read", "flushed")
    /\ unlogged' = [unlogged EXCEPT ![r] =
           {[seq |-> nextSeq, entry |-> r, prev_hash |-> head[r],
             this_hash |-> compute_entry_hash(head[r], r)]}]
    /\ nextSeq' = nextSeq + 1
    /\ UNCHANGED <<ask, rows, log, pending, lock, head>>

\* __aexit__ without an exception: both tables change at once.
Commit(r) ==
    /\ Goto(r, "flushed", "committed")
    /\ rows' = rows \cup pending[r]
    /\ log' = log \cup unlogged[r]
    /\ EndTx(r)

\* __aexit__ with an exception, or the process or connection is gone: rollback.
Fail(r) ==
    /\ pc[r] \in InTx
    /\ pc' = [pc EXCEPT ![r] = "failed"]
    /\ EndTx(r)
    /\ UNCHANGED <<rows, log>>

----------------------------------------------------------------------------
\* The statements the server executes once a request has begun.
Step(r) == \/ LookupMiss(r) \/ LookupHit(r)
           \/ GetFound(r) \/ GetMissing(r)
           \/ InsertInvestigation(r) \/ InsertConflict(r) \/ InsertReview(r)
           \/ AcquireLock(r) \/ ReadHead(r) \/ FlushEntry(r)
           \/ Commit(r)

\* Every request has been answered.
Idle == /\ \A r \in Request : pc[r] \in Ended
        /\ UNCHANGED vars

Next == (\E r \in Request : Begin(r) \/ Step(r) \/ Fail(r)) \/ Idle

Spec == Init /\ [][Next]_vars

\* A begun request keeps executing; clients need not send one, and no failure
\* is ever due.
FairSpec == Spec /\ \A r \in Request : WF_vars(Step(r))

----------------------------------------------------------------------------
TypeOK ==
    /\ pc \in [Request -> {"new"} \cup InTx \cup Ended]
    /\ ask \in [Request -> Workload]
    /\ rows \in SUBSET Row
    /\ log \in SUBSET AuditRow
    /\ pending \in [Request -> SUBSET Row]
    /\ unlogged \in [Request -> SUBSET AuditRow]
    /\ lock \in Request \cup {None}
    /\ head \in [Request -> Hash]
    /\ nextSeq \in Nat \ {0}

(***************************************************************************)
(* InMemoryAuditSink.verify_chain holds of the committed audit_log at any  *)
(* time: read by seq, each row's prev_hash is the hash of the row before   *)
(* it (or the genesis hash) and its this_hash extends that.                *)
(***************************************************************************)
Precedes(x, y) ==
    /\ x.seq < y.seq
    /\ \A z \in log : z.seq <= x.seq \/ y.seq <= z.seq

ChainIntact ==
    \A y \in log :
        /\ y.this_hash = compute_entry_hash(y.prev_hash, y.entry)
        /\ \/ /\ \A x \in log : y.seq <= x.seq
              /\ y.prev_hash = GENESIS_HASH
           \/ \E x \in log : Precedes(x, y) /\ y.prev_hash = x.this_hash

(***************************************************************************)
(* An auditor who has read the log up to its last seq misses nothing later: *)
(* committed rows stay, and a row that becomes visible has a greater seq    *)
(* than every row that was visible, although seq is drawn before commit.   *)
(***************************************************************************)
VisibleInSeqOrder ==
    [][/\ log \subseteq log'
       /\ \A x \in log, y \in log' \ log : x.seq < y.seq]_log

(***************************************************************************)
(* The audit entry and the action it reports commit together or not at     *)
(* all: the audited requests are those that left a row, one entry each.    *)
(***************************************************************************)
AuditedExactly ==
    /\ {x.entry : x \in log} = {x.by : x \in rows}
    /\ \A x, y \in log : x.entry = y.entry => x = y

(***************************************************************************)
(* However creates with one Idempotency-Key interleave, no two             *)
(* investigations carry it.                                                *)
(***************************************************************************)
OneInvestigationPerKey ==
    \A x, y \in rows : x.key = y.key /\ x.key # NoKey => x = y

(***************************************************************************)
(* A retry sent after the investigation with its key was committed, by a   *)
(* caller who may see it, is never answered with the constraint violation. *)
(***************************************************************************)
RetryNeverConflicts ==
    \A r \in Request :
        []( /\ pc[r] = "new"
            /\ ask[r].kind = "create"
            /\ \E x \in Visible(r) : x.key # NoKey /\ x.key = ask[r].key
          => [](pc[r] # "conflict"))

(***************************************************************************)
(* PostgreSQL's deadlock detector never has to abort a request: a request  *)
(* waits for the audit lock or for an uncommitted key, and every chain of  *)
(* such waits ends, after two at most, at a transaction that can go on.    *)
(***************************************************************************)
WaitsFor(q, r) ==
    /\ q # r
    /\ \/ pc[q] = "record" /\ lock = r
       \/ pc[q] = "insert" /\ ask[q].kind = "create" /\ KeyInDoubt(q, r)

NoWaitCycle ==
    \A p, q, r, s \in Request :
        ~(WaitsFor(p, q) /\ WaitsFor(q, r) /\ WaitsFor(r, s))

(***************************************************************************)
(* Every request that has begun is answered: the lock is released whatever *)
(* way its holder ends.                                                    *)
(***************************************************************************)
EveryRequestEnds ==
    \A r \in Request : pc[r] \in InTx ~> pc[r] \in Ended

(***************************************************************************)
(* The audit log implements the abstract chain: its newest hash grows by   *)
(* one new entry at a time, whatever the transactions do meanwhile.        *)
(***************************************************************************)
Chain == INSTANCE AuditChain WITH Entry <- Request, chain <- HeadHash(log)

ImplementsChain == Chain!ChainSpec
===============================================================================
