--------------------------- MODULE UnitOfWorkProofs ---------------------------
(***************************************************************************)
(* Proofs about UnitOfWork for any number of requests, keys and teams.     *)
(***************************************************************************)
EXTENDS UnitOfWork, TLAPS

(***************************************************************************)
(* The inductive invariant.  Who holds the advisory lock is a matter of    *)
(* where the request stands (LockInv); only the holder has an audit row    *)
(* that is not committed, and that row or the hash it will be built on is  *)
(* still the right continuation of the committed log (HeadInv, RowInv);    *)
(* the log has a newest row and no two rows of one seq (LogInv).           *)
(***************************************************************************)
Holding == {"locked", "head_read", "flushed"}

LockInv == \A r \in Request : pc[r] \in Holding <=> lock = r

HeadInv == \A r \in Request : pc[r] = "head_read" => head[r] = HeadHash(log)

RowInv ==
    \A r \in Request :
        /\ pc[r] # "flushed" => unlogged[r] = {}
        /\ pc[r] = "flushed" =>
              \E s \in Nat \ {0} :
                  /\ s < nextSeq
                  /\ \A x \in log : x.seq < s
                  /\ unlogged[r] =
                        {[seq |-> s, entry |-> r, prev_hash |-> HeadHash(log),
                          this_hash |-> compute_entry_hash(HeadHash(log), r)]}

LogInv ==
    /\ \A x \in log : x.seq < nextSeq
    /\ \A x, y \in log : x.seq = y.seq => x = y
    /\ log # {} => \E x \in log : \A y \in log : y.seq <= x.seq

IInv == TypeOK /\ LockInv /\ HeadInv /\ RowInv /\ LogInv /\ ChainIntact

(***************************************************************************)
(* What HeadHash returns: the hash of the newest row, when there is one.   *)
(***************************************************************************)
LEMMA HeadOfLog ==
    ASSUME NEW S \in SUBSET AuditRow, NEW x \in S,
           \A y \in S : y.seq <= x.seq,
           \A y, z \in S : y.seq = z.seq => y = z
    PROVE  HeadHash(S) = x.this_hash
<1> DEFINE h == CHOOSE z \in S : \A y \in S : y.seq <= z.seq
<1>1. h \in S /\ \A y \in S : y.seq <= h.seq
  OBVIOUS
<1>2. h.seq \in Nat /\ x.seq \in Nat
  BY <1>1 DEF AuditRow
<1>3. h.seq <= x.seq /\ x.seq <= h.seq
  BY <1>1
<1>4. h = x
  BY <1>1, <1>2, <1>3
<1> QED
  BY <1>4 DEF HeadHash

LEMMA HeadHashType ==
    ASSUME NEW S \in SUBSET AuditRow,
           S # {} => \E x \in S : \A y \in S : y.seq <= x.seq,
           \A y, z \in S : y.seq = z.seq => y = z
    PROVE  HeadHash(S) \in Hash
<1>1. CASE S = {}
  BY <1>1 DEF HeadHash, GENESIS_HASH, Hash
<1>2. CASE S # {}
  <2>1. PICK x \in S : \A y \in S : y.seq <= x.seq
    BY <1>2
  <2>2. HeadHash(S) = x.this_hash
    BY <2>1, HeadOfLog
  <2> QED
    BY <2>1, <2>2 DEF AuditRow
<1> QED
  BY <1>1, <1>2

(***************************************************************************)
(* The type invariant is not inductive alone: ReadHead copies the hash of  *)
(* the newest row, whose type needs that there is one (LogInv).            *)
(***************************************************************************)
LEMMA TypeStep == IInv /\ [Next]_vars => TypeOK'
<1> SUFFICES ASSUME IInv, [Next]_vars PROVE TypeOK'
  OBVIOUS
<1> USE UowAssumption
<1>0. TypeOK
  BY DEF IInv
<1>1. ASSUME NEW r \in Request, Begin(r) PROVE TypeOK'
  BY <1>0, <1>1 DEF TypeOK, Begin, Goto, InTx, Ended
<1>2. ASSUME NEW r \in Request, LookupMiss(r) PROVE TypeOK'
  BY <1>0, <1>2 DEF TypeOK, LookupMiss, Goto, InTx, Ended
<1>3. ASSUME NEW r \in Request, LookupHit(r) PROVE TypeOK'
  BY <1>0, <1>3 DEF TypeOK, LookupHit, EndTx, Goto, InTx, Ended
<1>4. ASSUME NEW r \in Request, GetFound(r) PROVE TypeOK'
  BY <1>0, <1>4 DEF TypeOK, GetFound, Goto, InTx, Ended
<1>5. ASSUME NEW r \in Request, GetMissing(r) PROVE TypeOK'
  BY <1>0, <1>5 DEF TypeOK, GetMissing, EndTx, Goto, InTx, Ended
<1>6. ASSUME NEW r \in Request, InsertInvestigation(r) PROVE TypeOK'
  <2>1. ask[r].key \in Key \cup {NoKey} /\ ask[r].team \in Team
    BY <1>0 DEF TypeOK, Ask
  <2>2. [by |-> r, about |-> r, key |-> ask[r].key, team |-> ask[r].team] \in Row
    BY <2>1 DEF Row
  <2> QED
    BY <1>0, <1>6, <2>2 DEF TypeOK, InsertInvestigation, Goto, InTx, Ended
<1>7. ASSUME NEW r \in Request, InsertConflict(r) PROVE TypeOK'
  BY <1>0, <1>7 DEF TypeOK, InsertConflict, EndTx, Goto, InTx, Ended
<1>8. ASSUME NEW r \in Request, InsertReview(r) PROVE TypeOK'
  <2>1. PICK x \in Visible(r) :
            pending' = [pending EXCEPT ![r] =
                {[by |-> r, about |-> x.about, key |-> NoKey, team |-> x.team]}]
    BY <1>8 DEF InsertReview
  <2>2. x \in Row
    BY <1>0 DEF TypeOK, Visible, Investigations
  <2>3. [by |-> r, about |-> x.about, key |-> NoKey, team |-> x.team] \in Row
    BY <2>2 DEF Row
  <2> QED
    BY <1>0, <1>8, <2>1, <2>3 DEF TypeOK, InsertReview, Goto, InTx, Ended
<1>9. ASSUME NEW r \in Request, AcquireLock(r) PROVE TypeOK'
  BY <1>0, <1>9 DEF TypeOK, AcquireLock, Goto, InTx, Ended
<1>10. ASSUME NEW r \in Request, ReadHead(r) PROVE TypeOK'
  <2>1. HeadHash(log) \in Hash
    BY <1>0, HeadHashType DEF IInv, LogInv, TypeOK
  <2> QED
    BY <1>0, <1>10, <2>1 DEF TypeOK, ReadHead, Goto, InTx, Ended
<1>11. ASSUME NEW r \in Request, FlushEntry(r) PROVE TypeOK'
  <2>1. head[r] \in Seq(Request)
    BY <1>0 DEF TypeOK, Hash
  <2>2. compute_entry_hash(head[r], r) \in Hash
    BY <2>1 DEF compute_entry_hash, Hash
  <2>3. [seq |-> nextSeq, entry |-> r, prev_hash |-> head[r],
         this_hash |-> compute_entry_hash(head[r], r)] \in AuditRow
    BY <1>0, <2>1, <2>2 DEF TypeOK, AuditRow, Hash
  <2> QED
    BY <1>0, <1>11, <2>3 DEF TypeOK, FlushEntry, Goto, InTx, Ended
<1>12. ASSUME NEW r \in Request, Commit(r) PROVE TypeOK'
  BY <1>0, <1>12 DEF TypeOK, Commit, EndTx, Goto, InTx, Ended
<1>13. ASSUME NEW r \in Request, Fail(r) PROVE TypeOK'
  BY <1>0, <1>13 DEF TypeOK, Fail, EndTx, InTx, Ended
<1>14. CASE UNCHANGED vars
  BY <1>0, <1>14 DEF TypeOK, vars
<1> QED
  BY <1>1, <1>2, <1>3, <1>4, <1>5, <1>6, <1>7, <1>8, <1>9, <1>10, <1>11,
     <1>12, <1>13, <1>14 DEF Next, Step, Idle

(***************************************************************************)
(* The advisory lock is held exactly while its holder is between           *)
(* AcquireLock and the end of its transaction.                             *)
(***************************************************************************)
LEMMA LockStep == IInv /\ [Next]_vars => LockInv'
<1> SUFFICES ASSUME IInv, [Next]_vars PROVE LockInv'
  OBVIOUS
<1> USE UowAssumption DEF LockInv, Holding
<1>0. TypeOK /\ LockInv
  BY DEF IInv
<1>1. ASSUME NEW r \in Request,
             \/ Begin(r) \/ LookupMiss(r) \/ GetFound(r)
             \/ InsertInvestigation(r) \/ InsertReview(r)
      PROVE  LockInv'
  BY <1>0, <1>1 DEF TypeOK, Begin, LookupMiss, GetFound, InsertInvestigation,
                    InsertReview, Goto
<1>2. ASSUME NEW r \in Request, ReadHead(r) \/ FlushEntry(r) PROVE LockInv'
  BY <1>0, <1>2 DEF TypeOK, ReadHead, FlushEntry, Goto
<1>3. ASSUME NEW r \in Request, AcquireLock(r) PROVE LockInv'
  BY <1>0, <1>3 DEF TypeOK, AcquireLock, Goto
<1>4. ASSUME NEW r \in Request,
             \/ LookupHit(r) \/ GetMissing(r) \/ InsertConflict(r)
             \/ Commit(r) \/ Fail(r)
      PROVE  LockInv'
  BY <1>0, <1>4 DEF TypeOK, LookupHit, GetMissing, InsertConflict, Commit, Fail,
                    EndTx, Goto, InTx
<1>5. CASE UNCHANGED vars
  BY <1>0, <1>5 DEF vars
<1> QED
  BY <1>1, <1>2, <1>3, <1>4, <1>5 DEF Next, Step, Idle

(***************************************************************************)
(* What a step does to the committed log: nothing, or the holder of the    *)
(* lock adds the row it flushed, which continues the log as it stands.     *)
(***************************************************************************)
Continues(x, audit) ==
    /\ \A y \in audit : y.seq < x.seq
    /\ x.prev_hash = HeadHash(audit)
    /\ x.this_hash = compute_entry_hash(HeadHash(audit), x.entry)

LEMMA LogStep ==
    ASSUME IInv, [Next]_vars
    PROVE  \/ log' = log
           \/ \E r \in Request, x \in AuditRow :
                 /\ Commit(r)
                 /\ x.seq < nextSeq
                 /\ x.entry = r
                 /\ Continues(x, log)
                 /\ unlogged[r] = {x}
                 /\ log' = log \cup {x}
<1>1. CASE UNCHANGED vars
  BY <1>1 DEF vars
<1>2. ASSUME NEW r \in Request, Begin(r) \/ Step(r) \/ Fail(r), ~Commit(r)
      PROVE  log' = log
  BY <1>2 DEF Begin, Step, LookupMiss, LookupHit, GetFound, GetMissing,
              InsertInvestigation, InsertConflict, InsertReview, AcquireLock,
              ReadHead, FlushEntry, Fail
<1>3. ASSUME NEW r \in Request, Commit(r)
      PROVE  \E x \in AuditRow :
                 /\ x.seq < nextSeq
                 /\ x.entry = r
                 /\ Continues(x, log)
                 /\ unlogged[r] = {x}
                 /\ log' = log \cup {x}
  <2>1. pc[r] = "flushed" /\ log' = log \cup unlogged[r]
    BY <1>3 DEF Commit, Goto
  <2>2. PICK s \in Nat \ {0} :
           /\ s < nextSeq
           /\ \A y \in log : y.seq < s
           /\ unlogged[r] =
                 {[seq |-> s, entry |-> r, prev_hash |-> HeadHash(log),
                   this_hash |-> compute_entry_hash(HeadHash(log), r)]}
    BY <2>1 DEF IInv, RowInv
  <2> DEFINE x == [seq |-> s, entry |-> r, prev_hash |-> HeadHash(log),
                   this_hash |-> compute_entry_hash(HeadHash(log), r)]
  <2>3. x \in AuditRow
    BY <2>2 DEF IInv, TypeOK
  <2> QED
    BY <2>1, <2>2, <2>3 DEF Continues
<1> QED
  BY <1>1, <1>2, <1>3 DEF Next, Idle

(***************************************************************************)
(* nextSeq never decreases and the log keeps a newest row.                 *)
(***************************************************************************)
LEMMA SeqMonotone == ASSUME IInv, [Next]_vars PROVE nextSeq <= nextSeq' /\ nextSeq' \in Nat
<1>0. nextSeq \in Nat
  BY DEF IInv, TypeOK
<1>1. CASE UNCHANGED vars
  BY <1>0, <1>1 DEF vars
<1>2. ASSUME NEW r \in Request, FlushEntry(r)
      PROVE  nextSeq' = nextSeq + 1
  BY <1>2 DEF FlushEntry
<1>3. ASSUME NEW r \in Request, Begin(r) \/ Step(r) \/ Fail(r), ~FlushEntry(r)
      PROVE  nextSeq' = nextSeq
  BY <1>3 DEF Begin, Step, LookupMiss, LookupHit, GetFound, GetMissing,
              InsertInvestigation, InsertConflict, InsertReview, AcquireLock,
              ReadHead, Commit, Fail, EndTx
<1> QED
  BY <1>0, <1>1, <1>2, <1>3 DEF Next, Idle

LEMMA LogInvStep == IInv /\ [Next]_vars => LogInv'
<1> SUFFICES ASSUME IInv, [Next]_vars PROVE LogInv'
  OBVIOUS
<1>0. LogInv /\ log \in SUBSET AuditRow /\ nextSeq \in Nat
  BY DEF IInv, TypeOK
<1>1. nextSeq <= nextSeq' /\ nextSeq' \in Nat
  BY SeqMonotone
<1>2. \A x \in log : x.seq \in Nat
  BY <1>0 DEF AuditRow
<1>3. CASE log' = log
  BY <1>0, <1>1, <1>2, <1>3 DEF LogInv
<1>4. ASSUME NEW x \in AuditRow, x.seq < nextSeq, \A y \in log : y.seq < x.seq,
             log' = log \cup {x}
      PROVE  LogInv'
  <2>1. x.seq \in Nat
    BY DEF AuditRow
  <2>2. \A y \in log' : y.seq < nextSeq' /\ y.seq <= x.seq
    BY <1>0, <1>1, <1>2, <1>4, <2>1 DEF LogInv
  <2>3. \A y, z \in log' : y.seq = z.seq => y = z
    BY <1>0, <1>2, <1>4, <2>1 DEF LogInv
  <2> QED
    BY <1>4, <2>2, <2>3 DEF LogInv
<1> QED
  BY <1>3, <1>4, LogStep DEF Continues

(***************************************************************************)
(* The head a committing row becomes.                                      *)
(***************************************************************************)
LEMMA NewHead ==
    ASSUME IInv, NEW x \in AuditRow, \A y \in log : y.seq < x.seq
    PROVE  HeadHash(log \cup {x}) = x.this_hash
<1>1. log \cup {x} \in SUBSET AuditRow /\ x.seq \in Nat
  BY DEF IInv, TypeOK, AuditRow
<1>2. \A y \in log : y.seq \in Nat
  BY DEF IInv, TypeOK, AuditRow
<1>3. \A y \in log \cup {x} : y.seq <= x.seq
  BY <1>1, <1>2
<1>4. \A y, z \in log \cup {x} : y.seq = z.seq => y = z
  BY <1>1, <1>2 DEF IInv, LogInv
<1> QED
  BY <1>1, <1>3, <1>4, HeadOfLog

LEMMA ChainStep == IInv /\ [Next]_vars => ChainIntact'
<1> SUFFICES ASSUME IInv, [Next]_vars PROVE ChainIntact'
  OBVIOUS
<1>0. ChainIntact /\ LogInv /\ log \in SUBSET AuditRow
  BY DEF IInv, TypeOK
<1>1. \A y \in log : y.seq \in Nat
  BY <1>0 DEF AuditRow
<1>2. CASE log' = log
  BY <1>0, <1>2 DEF ChainIntact, Precedes
<1>3. ASSUME NEW n \in AuditRow, Continues(n, log), log' = log \cup {n}
      PROVE  ChainIntact'
  <2>0. n.seq \in Nat /\ \A y \in log : y.seq < n.seq
    BY <1>3 DEF AuditRow, Continues
  <2>1. ASSUME NEW y \in log
        PROVE  /\ y.this_hash = compute_entry_hash(y.prev_hash, y.entry)
               /\ \/ /\ \A x \in log' : y.seq <= x.seq
                     /\ y.prev_hash = GENESIS_HASH
                  \/ \E x \in log' : Precedes(x, y)' /\ y.prev_hash = x.this_hash
    <3>1. CASE /\ \A x \in log : y.seq <= x.seq
               /\ y.prev_hash = GENESIS_HASH
      <4>1. \A x \in log' : y.seq <= x.seq
        BY <1>1, <1>3, <2>0, <3>1
      <4> QED
        BY <1>0, <3>1, <4>1 DEF ChainIntact
    <3>2. ASSUME NEW x \in log, Precedes(x, y), y.prev_hash = x.this_hash
          PROVE  Precedes(x, y)'
      BY <1>1, <1>3, <2>0, <3>2 DEF Precedes
    <3> QED
      BY <1>0, <1>3, <3>1, <3>2 DEF ChainIntact
  <2>2. n.this_hash = compute_entry_hash(n.prev_hash, n.entry)
    BY <1>3 DEF Continues
  <2>3. \/ /\ \A x \in log' : n.seq <= x.seq
           /\ n.prev_hash = GENESIS_HASH
        \/ \E x \in log' : Precedes(x, n)' /\ n.prev_hash = x.this_hash
    <3>1. CASE log = {}
      <4>1. n.prev_hash = GENESIS_HASH
        BY <1>3, <3>1 DEF Continues, HeadHash
      <4>2. \A x \in log' : n.seq <= x.seq
        BY <1>3, <2>0, <3>1
      <4> QED
        BY <4>1, <4>2
    <3>2. CASE log # {}
      <4>1. PICK x \in log : \A y \in log : y.seq <= x.seq
        BY <1>0, <3>2 DEF LogInv
      <4>2. n.prev_hash = x.this_hash
        BY <1>0, <1>3, <4>1, HeadOfLog DEF LogInv, Continues
      <4>3. Precedes(x, n)'
        BY <1>1, <1>3, <2>0, <4>1 DEF Precedes
      <4> QED
        BY <1>3, <4>2, <4>3
    <3> QED
      BY <3>1, <3>2
  <2> QED
    BY <1>3, <2>1, <2>2, <2>3 DEF ChainIntact
<1> QED
  BY <1>2, <1>3, LogStep

(***************************************************************************)
(* A committing request is the only one that holds the lock, so no other   *)
(* request has read the head it replaces.                                  *)
(***************************************************************************)
LEMMA HeadStep == IInv /\ [Next]_vars => HeadInv'
<1> SUFFICES ASSUME IInv, [Next]_vars, NEW q \in Request, pc'[q] = "head_read"
             PROVE  head'[q] = HeadHash(log)'
  BY DEF HeadInv
<1>0. TypeOK /\ LockInv /\ HeadInv
  BY DEF IInv
<1>1. ASSUME NEW r \in Request, ReadHead(r) PROVE head'[q] = HeadHash(log')
  BY <1>0, <1>1 DEF TypeOK, HeadInv, ReadHead, Goto
<1>2. ASSUME NEW r \in Request, Commit(r) PROVE head'[q] = HeadHash(log')
  <2>1. pc[r] = "flushed" /\ lock = r /\ head' = head
    BY <1>0, <1>2 DEF Commit, EndTx, Goto, LockInv, Holding
  <2>2. pc[q] = "head_read"
    BY <1>0, <1>2 DEF TypeOK, Commit, Goto
  <2>3. lock = q
    BY <1>0, <2>2 DEF LockInv, Holding
  <2> QED
    BY <2>1, <2>2, <2>3
<1>3. ASSUME NEW r \in Request, Begin(r) \/ Step(r) \/ Fail(r),
             ~ReadHead(r), ~Commit(r)
      PROVE  head'[q] = HeadHash(log')
  <2>1. head' = head /\ log' = log
    BY <1>3 DEF Begin, Step, LookupMiss, LookupHit, GetFound, GetMissing,
                InsertInvestigation, InsertConflict, InsertReview, AcquireLock,
                FlushEntry, Fail, EndTx
  <2>2. pc[q] = "head_read"
    BY <1>0, <1>3 DEF TypeOK, Begin, Step, LookupMiss, LookupHit, GetFound,
                GetMissing, InsertInvestigation, InsertConflict, InsertReview,
                AcquireLock, FlushEntry, Fail, Goto
  <2> QED
    BY <1>0, <2>1, <2>2 DEF HeadInv
<1>4. CASE UNCHANGED vars
  BY <1>0, <1>4 DEF vars, HeadInv
<1> QED
  BY <1>1, <1>2, <1>3, <1>4 DEF Next, Idle

LEMMA RowStep == IInv /\ [Next]_vars => RowInv'
<1> SUFFICES ASSUME IInv, [Next]_vars, NEW q \in Request
             PROVE  /\ pc'[q] # "flushed" => unlogged'[q] = {}
                    /\ pc'[q] = "flushed" =>
                          \E s \in Nat \ {0} :
                             /\ s < nextSeq'
                             /\ \A x \in log' : x.seq < s
                             /\ unlogged'[q] =
                                  {[seq |-> s, entry |-> q,
                                    prev_hash |-> HeadHash(log'),
                                    this_hash |-> compute_entry_hash(HeadHash(log'), q)]}
  BY DEF RowInv
<1> DEFINE Good == /\ pc'[q] # "flushed" => unlogged'[q] = {}
                   /\ pc'[q] = "flushed" =>
                         \E s \in Nat \ {0} :
                            /\ s < nextSeq'
                            /\ \A x \in log' : x.seq < s
                            /\ unlogged'[q] =
                                 {[seq |-> s, entry |-> q,
                                   prev_hash |-> HeadHash(log'),
                                   this_hash |-> compute_entry_hash(HeadHash(log'), q)]}
<1>0. TypeOK /\ LockInv /\ HeadInv /\ RowInv /\ LogInv
  BY DEF IInv
<1>1. ASSUME NEW r \in Request, FlushEntry(r) PROVE Good
  <2>1. log' = log /\ nextSeq' = nextSeq + 1 /\ nextSeq \in Nat \ {0}
    BY <1>0, <1>1 DEF FlushEntry, TypeOK
  <2>2. CASE q = r
    <3>1. head[q] = HeadHash(log)
      BY <1>0, <1>1, <2>2 DEF FlushEntry, Goto, HeadInv
    <3>2. unlogged'[q] = {[seq |-> nextSeq, entry |-> q,
                           prev_hash |-> HeadHash(log),
                           this_hash |-> compute_entry_hash(HeadHash(log), q)]}
      BY <1>0, <1>1, <2>2, <3>1 DEF FlushEntry, TypeOK
    <3>3. pc'[q] = "flushed"
      BY <1>0, <1>1, <2>2 DEF FlushEntry, Goto, TypeOK
    <3> QED
      BY <1>0, <2>1, <3>2, <3>3 DEF LogInv
  <2>3. CASE q # r
    <3>1. pc'[q] = pc[q] /\ unlogged'[q] = unlogged[q]
      BY <1>0, <1>1, <2>3 DEF FlushEntry, Goto, TypeOK
    <3>2. pc[q] # "flushed"
      BY <1>0, <1>1, <2>3 DEF FlushEntry, Goto, LockInv, Holding
    <3> QED
      BY <1>0, <3>1, <3>2 DEF RowInv
  <2> QED
    BY <2>2, <2>3
<1>2. ASSUME NEW r \in Request, Commit(r) PROVE Good
  <2>1. pc[r] = "flushed" /\ lock = r
    BY <1>0, <1>2 DEF Commit, Goto, LockInv, Holding
  <2>2. pc'[q] # "flushed"
    BY <1>0, <1>2, <2>1 DEF Commit, Goto, TypeOK, LockInv, Holding
  <2>3. unlogged'[q] = {}
    <3>1. CASE q = r
      BY <1>0, <1>2, <3>1 DEF Commit, EndTx, TypeOK
    <3>2. CASE q # r
      BY <1>0, <1>2, <2>1, <3>2 DEF Commit, EndTx, TypeOK, LockInv, Holding, RowInv
    <3> QED
      BY <3>1, <3>2
  <2> QED
    BY <2>2, <2>3
<1>3. ASSUME NEW r \in Request,
             \/ LookupHit(r) \/ GetMissing(r) \/ InsertConflict(r) \/ Fail(r)
      PROVE  Good
  <2>1. log' = log /\ nextSeq' = nextSeq
    BY <1>3 DEF LookupHit, GetMissing, InsertConflict, Fail, EndTx
  <2>2. CASE q = r
    BY <1>0, <1>3, <2>2 DEF LookupHit, GetMissing, InsertConflict, Fail, EndTx,
                            Goto, TypeOK
  <2>3. CASE q # r
    <3>1. pc'[q] = pc[q] /\ unlogged'[q] = unlogged[q]
      BY <1>0, <1>3, <2>3 DEF LookupHit, GetMissing, InsertConflict, Fail, EndTx,
                              Goto, TypeOK
    <3> QED
      BY <1>0, <2>1, <3>1 DEF RowInv
  <2> QED
    BY <2>2, <2>3
<1>4. ASSUME NEW r \in Request,
             \/ Begin(r) \/ LookupMiss(r) \/ GetFound(r) \/ InsertInvestigation(r)
             \/ InsertReview(r) \/ AcquireLock(r) \/ ReadHead(r)
      PROVE  Good
  <2>1. log' = log /\ nextSeq' = nextSeq /\ unlogged' = unlogged
    BY <1>4 DEF Begin, LookupMiss, GetFound, InsertInvestigation, InsertReview,
                AcquireLock, ReadHead
  <2>2. pc'[q] = "flushed" <=> pc[q] = "flushed"
    BY <1>0, <1>4 DEF Begin, LookupMiss, GetFound, InsertInvestigation,
                InsertReview, AcquireLock, ReadHead, Goto, TypeOK
  <2> QED
    BY <1>0, <2>1, <2>2 DEF RowInv
<1>5. CASE UNCHANGED vars
  BY <1>0, <1>5 DEF vars, RowInv
<1> QED
  BY <1>1, <1>2, <1>3, <1>4, <1>5 DEF Next, Step, Idle

(***************************************************************************)
(* The invariant holds of every run.                                       *)
(***************************************************************************)
LEMMA InitIInv == Init => IInv
<1> SUFFICES ASSUME Init PROVE IInv
  OBVIOUS
<1> USE UowAssumption DEF Init
<1>1. TypeOK
  BY DEF TypeOK, GENESIS_HASH, Hash
<1>2. LockInv
  BY DEF LockInv, Holding
<1>3. HeadInv /\ RowInv /\ LogInv /\ ChainIntact
  BY DEF HeadInv, RowInv, LogInv, ChainIntact
<1> QED
  BY <1>1, <1>2, <1>3 DEF IInv

THEOREM Inductive == Spec => []IInv
<1>1. IInv /\ [Next]_vars => IInv'
  BY TypeStep, LockStep, HeadStep, RowStep, LogInvStep, ChainStep DEF IInv
<1> QED
  BY InitIInv, <1>1, PTL DEF Spec

(***************************************************************************)
(* Every reachable state has the types TypeOK states.                      *)
(***************************************************************************)
THEOREM TypeCorrect == Spec => []TypeOK
<1>1. IInv => TypeOK
  BY DEF IInv
<1> QED
  BY Inductive, <1>1, PTL

(***************************************************************************)
(* verify_chain holds of the committed audit log in every reachable state, *)
(* for any number of concurrent requests.                                  *)
(***************************************************************************)
THEOREM ChainCorrect == Spec => []ChainIntact
<1>1. IInv => ChainIntact
  BY DEF IInv
<1> QED
  BY Inductive, <1>1, PTL

(***************************************************************************)
(* Rows become visible in seq order and stay, in every run.                *)
(***************************************************************************)
THEOREM VisibleInOrder == Spec => VisibleInSeqOrder
<1>1. IInv /\ [Next]_vars =>
        [/\ log \subseteq log'
         /\ \A x \in log, y \in log' \ log : x.seq < y.seq]_log
  BY LogStep DEF Continues
<1> QED
  BY Inductive, <1>1, PTL DEF Spec, VisibleInSeqOrder

----------------------------------------------------------------------------
(***************************************************************************)
(* The second invariant is about the business rows.  A request has one     *)
(* flushed row, its own, from its insert to the end of its transaction     *)
(* (PendInv); a key that is flushed or committed is nowhere else (KeyInv); *)
(* the committed rows and entries are those of the committed requests      *)
(* (DoneInv), and a hash is built from such entries only (HistInv).        *)
(***************************************************************************)
Writing == {"record", "locked", "head_read", "flushed"}

PendInv ==
    \A r \in Request :
        /\ pc[r] \notin Writing => pending[r] = {}
        /\ pc[r] \in Writing => \E x \in Row : x.by = r /\ pending[r] = {x}

KeyInv ==
    /\ OneInvestigationPerKey
    /\ \A q \in Request : \A x \in pending[q] :
          x.key # NoKey =>
              /\ \A y \in rows : y.key # x.key
              /\ \A p \in Request \ {q} : \A y \in pending[p] : y.key # x.key

DoneInv ==
    /\ AuditedExactly
    /\ \A x \in log : pc[x.entry] = "committed"

HistInv ==
    \A x \in log : \A i \in 1..Len(x.this_hash) :
        pc[x.this_hash[i]] = "committed"

JInv == IInv /\ PendInv /\ KeyInv /\ DoneInv /\ HistInv

LEMMA PendStep == JInv /\ [Next]_vars => PendInv'
<1> SUFFICES ASSUME JInv, [Next]_vars PROVE PendInv'
  OBVIOUS
<1> USE DEF PendInv, Writing
<1>0. TypeOK /\ PendInv
  BY DEF JInv, IInv
<1>1. ASSUME NEW r \in Request,
             \/ Begin(r) \/ LookupMiss(r) \/ GetFound(r) \/ AcquireLock(r)
             \/ ReadHead(r) \/ FlushEntry(r)
      PROVE  PendInv'
  BY <1>0, <1>1 DEF TypeOK, Begin, LookupMiss, GetFound, AcquireLock, ReadHead,
                    FlushEntry, Goto
<1>2. ASSUME NEW r \in Request,
             \/ LookupHit(r) \/ GetMissing(r) \/ InsertConflict(r)
             \/ Commit(r) \/ Fail(r)
      PROVE  PendInv'
  BY <1>0, <1>2 DEF TypeOK, LookupHit, GetMissing, InsertConflict, Commit, Fail,
                    EndTx, Goto
<1>3. ASSUME NEW r \in Request, InsertInvestigation(r) PROVE PendInv'
  <2>1. [by |-> r, about |-> r, key |-> ask[r].key, team |-> ask[r].team] \in Row
    BY <1>0, UowAssumption DEF TypeOK, Ask, Row
  <2> QED
    BY <1>0, <1>3, <2>1 DEF TypeOK, InsertInvestigation, Goto
<1>4. ASSUME NEW r \in Request, InsertReview(r) PROVE PendInv'
  <2>1. PICK x \in Visible(r) :
            pending' = [pending EXCEPT ![r] =
                {[by |-> r, about |-> x.about, key |-> NoKey, team |-> x.team]}]
    BY <1>4 DEF InsertReview
  <2>2. [by |-> r, about |-> x.about, key |-> NoKey, team |-> x.team] \in Row
    BY <1>0 DEF TypeOK, Visible, Investigations, Row
  <2> QED
    BY <1>0, <1>4, <2>1, <2>2 DEF TypeOK, InsertReview, Goto
<1>5. CASE UNCHANGED vars
  BY <1>0, <1>5 DEF vars
<1> QED
  BY <1>1, <1>2, <1>3, <1>4, <1>5 DEF Next, Step, Idle

LEMMA KeyStep == JInv /\ [Next]_vars => KeyInv'
<1> SUFFICES ASSUME JInv, [Next]_vars PROVE KeyInv'
  OBVIOUS
<1> USE DEF KeyInv, OneInvestigationPerKey
<1>0. TypeOK /\ KeyInv /\ PendInv
  BY DEF JInv, IInv
<1>1. ASSUME NEW r \in Request,
             \/ Begin(r) \/ LookupMiss(r) \/ GetFound(r) \/ AcquireLock(r)
             \/ ReadHead(r) \/ FlushEntry(r)
      PROVE  KeyInv'
  BY <1>0, <1>1 DEF Begin, LookupMiss, GetFound, AcquireLock, ReadHead, FlushEntry
<1>2. ASSUME NEW r \in Request,
             LookupHit(r) \/ GetMissing(r) \/ InsertConflict(r) \/ Fail(r)
      PROVE  KeyInv'
  BY <1>0, <1>2 DEF TypeOK, LookupHit, GetMissing, InsertConflict, Fail, EndTx
<1>3. ASSUME NEW r \in Request, InsertInvestigation(r) PROVE KeyInv'
  <2> DEFINE x == [by |-> r, about |-> r, key |-> ask[r].key, team |-> ask[r].team]
  <2>1. rows' = rows /\ pending' = [pending EXCEPT ![r] = {x}]
    BY <1>3 DEF InsertInvestigation
  <2>2. x.key # NoKey => /\ \A y \in rows : y.key # x.key
                         /\ \A q \in Request \ {r} : \A y \in pending[q] : y.key # x.key
    BY <1>3 DEF InsertInvestigation, KeyTaken, KeyInDoubt
  <2> QED
    BY <1>0, <2>1, <2>2 DEF TypeOK
<1>4. ASSUME NEW r \in Request, InsertReview(r) PROVE KeyInv'
  BY <1>0, <1>4 DEF TypeOK, InsertReview
<1>5. ASSUME NEW r \in Request, Commit(r) PROVE KeyInv'
  <2>1. PICK x \in Row : pending[r] = {x}
    BY <1>0, <1>5 DEF Commit, Goto, PendInv, Writing
  <2>2. rows' = rows \cup {x} /\ pending' = [pending EXCEPT ![r] = {}]
    BY <1>5, <2>1 DEF Commit, EndTx
  <2>3. OneInvestigationPerKey'
    BY <1>0, <2>1, <2>2
  <2> QED
    BY <1>0, <2>1, <2>2, <2>3 DEF TypeOK
<1>6. CASE UNCHANGED vars
  BY <1>0, <1>6 DEF vars
<1> QED
  BY <1>1, <1>2, <1>3, <1>4, <1>5, <1>6 DEF Next, Step, Idle

\* A request that has committed stays committed, with every row it left.
LEMMA Steady ==
    ASSUME JInv, [Next]_vars
    PROVE  /\ \A q \in Request : pc[q] = "committed" => pc'[q] = "committed"
           /\ (\A r \in Request : ~Commit(r)) => rows' = rows /\ log' = log
<1>0. TypeOK
  BY DEF JInv, IInv
<1>1. ASSUME NEW r \in Request, Begin(r) \/ Step(r) \/ Fail(r), NEW q \in Request,
             pc[q] = "committed"
      PROVE  pc'[q] = "committed"
  BY <1>0, <1>1 DEF TypeOK, Begin, Step, LookupMiss, LookupHit, GetFound,
     GetMissing, InsertInvestigation, InsertConflict, InsertReview, AcquireLock,
     ReadHead, FlushEntry, Commit, Fail, Goto, InTx
<1>2. ASSUME NEW r \in Request, Begin(r) \/ Step(r) \/ Fail(r), ~Commit(r)
      PROVE  rows' = rows /\ log' = log
  BY <1>2 DEF Begin, Step, LookupMiss, LookupHit, GetFound, GetMissing,
     InsertInvestigation, InsertConflict, InsertReview, AcquireLock, ReadHead,
     FlushEntry, Fail
<1>3. CASE UNCHANGED vars
  BY <1>3 DEF vars
<1> QED
  BY <1>1, <1>2, <1>3 DEF Next, Idle

LEMMA DoneStep == JInv /\ [Next]_vars => DoneInv' /\ HistInv'
<1> SUFFICES ASSUME JInv, [Next]_vars PROVE DoneInv' /\ HistInv'
  OBVIOUS
<1> USE DEF DoneInv, AuditedExactly, HistInv
<1>0. TypeOK /\ IInv /\ PendInv /\ DoneInv /\ HistInv
  BY DEF JInv, IInv
<1>1. \A x \in log : /\ x.entry \in Request
                     /\ x.this_hash \in Seq(Request)
                     /\ x.seq \in Nat
  BY <1>0 DEF TypeOK, AuditRow, Hash
<1>2. \A x \in log : \A i \in 1..Len(x.this_hash) : x.this_hash[i] \in Request
  BY <1>1
<1>3. CASE \A r \in Request : ~Commit(r)
  <2>1. rows' = rows /\ log' = log
    BY <1>3, Steady
  <2> QED
    BY <1>0, <1>1, <1>2, <2>1, Steady
<1>4. ASSUME NEW r \in Request, Commit(r) PROVE DoneInv' /\ HistInv'
  <2>1. PICK n \in AuditRow :
            /\ n.entry = r /\ Continues(n, log) /\ unlogged[r] = {n}
            /\ log' = log \cup {n}
    <3>1. pc[r] = "flushed"
      BY <1>4 DEF Commit, Goto
    <3>2. PICK s \in Nat \ {0} :
             /\ \A y \in log : y.seq < s
             /\ unlogged[r] =
                   {[seq |-> s, entry |-> r, prev_hash |-> HeadHash(log),
                     this_hash |-> compute_entry_hash(HeadHash(log), r)]}
      BY <1>0, <3>1 DEF IInv, RowInv
    <3> DEFINE n == [seq |-> s, entry |-> r, prev_hash |-> HeadHash(log),
                     this_hash |-> compute_entry_hash(HeadHash(log), r)]
    <3>3. n \in AuditRow
      BY <1>0, <3>2 DEF TypeOK
    <3> QED
      BY <1>4, <3>2, <3>3 DEF Continues, Commit
  <2>2. PICK x \in Row : x.by = r /\ pending[r] = {x}
    BY <1>0, <1>4 DEF Commit, Goto, PendInv, Writing
  <2>3. rows' = rows \cup {x}
    BY <1>4, <2>2 DEF Commit
  <2>4. pc[r] = "flushed" /\ pc'[r] = "committed"
    BY <1>0, <1>4 DEF Commit, Goto, TypeOK
  <2>5. \A y \in log : y.entry # r
    BY <1>0, <2>4
  <2>6. DoneInv'
    <3>1. {y.entry : y \in log'} = {y.by : y \in rows'}
      BY <1>0, <2>1, <2>2, <2>3
    <3>2. \A y, z \in log' : y.entry = z.entry => y = z
      BY <1>0, <2>1, <2>5
    <3>3. \A y \in log' : pc'[y.entry] = "committed"
      BY <1>0, <1>1, <2>1, <2>4, Steady
    <3> QED
      BY <3>1, <3>2, <3>3
  <2>7. \A i \in 1..Len(n.this_hash) : pc'[n.this_hash[i]] = "committed"
    <3>1. HeadHash(log) \in Seq(Request)
      BY <1>0, HeadHashType DEF IInv, LogInv, TypeOK, Hash
    <3>2. \A i \in 1..Len(HeadHash(log)) : pc[HeadHash(log)[i]] = "committed"
      <4>1. CASE log = {}
        BY <4>1 DEF HeadHash, GENESIS_HASH
      <4>2. CASE log # {}
        <5>1. PICK h \in log : \A y \in log : y.seq <= h.seq
          BY <1>0, <4>2 DEF IInv, LogInv
        <5>2. HeadHash(log) = h.this_hash
          BY <1>0, <5>1, HeadOfLog DEF IInv, LogInv, TypeOK
        <5> QED
          BY <1>0, <5>1, <5>2
      <4> QED
        BY <4>1, <4>2
    <3>3. n.this_hash = Append(HeadHash(log), r)
      BY <2>1 DEF Continues, compute_entry_hash
    <3>4. ASSUME NEW i \in 1..Len(n.this_hash) PROVE pc'[n.this_hash[i]] = "committed"
      <4>1. CASE i = Len(HeadHash(log)) + 1
        BY <2>4, <3>1, <3>3, <4>1
      <4>2. CASE i # Len(HeadHash(log)) + 1
        <5>1. i \in 1..Len(HeadHash(log)) /\ n.this_hash[i] = HeadHash(log)[i]
          BY <3>1, <3>3, <4>2
        <5>2. HeadHash(log)[i] \in Request
          BY <3>1, <5>1
        <5> QED
          BY <3>2, <5>1, <5>2, Steady
      <4> QED
        BY <4>1, <4>2
    <3> QED
      BY <3>4
  <2>8. \A y \in log : \A i \in 1..Len(y.this_hash) : pc'[y.this_hash[i]] = "committed"
    BY <1>0, <1>2, Steady
  <2> QED
    BY <2>1, <2>6, <2>7, <2>8
<1> QED
  BY <1>3, <1>4

LEMMA RowsInductive == Spec => []JInv
<1>1. Init => JInv
  <2> SUFFICES ASSUME Init PROVE JInv
    OBVIOUS
  <2>1. PendInv /\ KeyInv /\ DoneInv /\ HistInv
    BY DEF Init, PendInv, Writing, KeyInv, OneInvestigationPerKey, DoneInv,
           AuditedExactly, HistInv
  <2> QED
    BY <2>1, InitIInv DEF JInv
<1>2. JInv /\ [Next]_vars => JInv'
  <2>1. JInv /\ [Next]_vars => IInv'
    BY TypeStep, LockStep, HeadStep, RowStep, LogInvStep, ChainStep DEF IInv, JInv
  <2> QED
    BY <2>1, PendStep, KeyStep, DoneStep DEF JInv
<1> QED
  BY <1>1, <1>2, PTL DEF Spec

(***************************************************************************)
(* An action and its audit entry are committed together: the audited       *)
(* requests are exactly those that left a row, with one entry each.        *)
(***************************************************************************)
THEOREM AuditCorrect == Spec => []AuditedExactly
<1>1. JInv => AuditedExactly
  BY DEF JInv, DoneInv
<1> QED
  BY RowsInductive, <1>1, PTL

(***************************************************************************)
(* However many creates race, one investigation at most has a given key.   *)
(***************************************************************************)
THEOREM KeyCorrect == Spec => []OneInvestigationPerKey
<1>1. JInv => OneInvestigationPerKey
  BY DEF JInv, KeyInv
<1> QED
  BY RowsInductive, <1>1, PTL

(***************************************************************************)
(* No deadlock: the holder of the audit lock waits for nobody, and a       *)
(* request whose key others wait for waits at most for that holder.        *)
(***************************************************************************)
THEOREM DeadlockFree == Spec => []NoWaitCycle
<1>1. JInv => NoWaitCycle
  <2> SUFFICES ASSUME JInv, NEW p \in Request, NEW q \in Request, NEW r \in Request,
                      NEW s \in Request, WaitsFor(p, q), WaitsFor(q, r), WaitsFor(r, s)
               PROVE  FALSE
    BY DEF NoWaitCycle
  <2>1. pc[q] \in {"record", "insert"} /\ pc[r] \in {"record", "insert"}
    BY DEF WaitsFor
  <2>2. \A x \in Request : lock = x => pc[x] \in Holding
    BY DEF JInv, IInv, LockInv
  <2>3. ASSUME NEW x \in Request, NEW y \in Request, KeyInDoubt(x, y)
        PROVE  pc[y] \in Writing
    BY <2>3 DEF JInv, PendInv, KeyInDoubt
  <2>4. pc[q] = "record"
    BY <2>1, <2>2, <2>3 DEF WaitsFor, Holding, Writing
  <2>5. lock = r
    BY <2>4 DEF WaitsFor
  <2> QED
    BY <2>1, <2>2, <2>5 DEF Holding
<1> QED
  BY RowsInductive, <1>1, PTL

(***************************************************************************)
(* The audit log implements AuditChain under the mapping chain <- hash of  *)
(* the newest committed row: a commit extends the chain by its entry, any  *)
(* other step leaves it alone.                                             *)
(***************************************************************************)
THEOREM ImplementsAuditChain == Spec => ImplementsChain
<1>1. Init => Chain!ChainInit
  BY DEF Init, Chain!ChainInit, HeadHash, GENESIS_HASH
<1>2. JInv /\ [Next]_vars => [Chain!ChainNext]_(HeadHash(log))
  <2> SUFFICES ASSUME JInv, [Next]_vars
               PROVE  Chain!ChainNext \/ HeadHash(log)' = HeadHash(log)
    OBVIOUS
  <2>0. IInv
    BY DEF JInv
  <2>1. CASE log' = log
    BY <2>1
  <2>2. ASSUME NEW r \in Request, NEW n \in AuditRow, Commit(r), n.entry = r,
               Continues(n, log), log' = log \cup {n}
        PROVE  Chain!ChainNext
    <3>1. HeadHash(log') = Append(HeadHash(log), r)
      BY <2>0, <2>2, NewHead DEF Continues, compute_entry_hash
    <3>2. pc[r] # "committed"
      BY <2>2 DEF Commit, Goto
    <3>3. \A i \in 1..Len(HeadHash(log)) : HeadHash(log)[i] # r
      <4>1. CASE log = {}
        BY <4>1 DEF HeadHash, GENESIS_HASH
      <4>2. CASE log # {}
        <5>1. PICK h \in log : \A y \in log : y.seq <= h.seq
          BY <2>0, <4>2 DEF IInv, LogInv
        <5>2. HeadHash(log) = h.this_hash
          BY <2>0, <5>1, HeadOfLog DEF IInv, LogInv, TypeOK
        <5> QED
          BY <3>2, <5>1, <5>2 DEF JInv, HistInv
      <4> QED
        BY <4>1, <4>2
    <3>4. Chain!Extend(r)
      BY <3>1, <3>3 DEF Chain!Extend
    <3> QED
      BY <3>4 DEF Chain!ChainNext
  <2> QED
    BY <2>0, <2>1, <2>2, LogStep
<1> QED
  BY RowsInductive, <1>1, <1>2, PTL DEF Spec, ImplementsChain, Chain!ChainSpec
----------------------------------------------------------------------------
(***************************************************************************)
(* An idempotent retry.  The rows a caller sees only become more, so that  *)
(* a create that begins when the investigation with its key is among them  *)
(* finds it, and has no other way to end than that or a failure.           *)
(***************************************************************************)
KeySeen(r) ==
    /\ ask[r].kind = "create"
    /\ \E x \in Visible(r) : x.key # NoKey /\ x.key = ask[r].key

Answerable(r) == KeySeen(r) /\ pc[r] \in {"new", "begun", "existing", "failed"}

LEMMA StaysSeen ==
    ASSUME TypeOK, [Next]_vars, NEW r \in Request, KeySeen(r)
    PROVE  KeySeen(r)'
<1>1. rows \subseteq rows' /\ ask' = ask
  <2>1. ASSUME NEW q \in Request, Begin(q) \/ Step(q) \/ Fail(q)
        PROVE  rows \subseteq rows' /\ ask' = ask
    BY <2>1 DEF Begin, Step, LookupMiss, LookupHit, GetFound, GetMissing,
       InsertInvestigation, InsertConflict, InsertReview, AcquireLock, ReadHead,
       FlushEntry, Commit, Fail, EndTx
  <2>2. CASE UNCHANGED vars
    BY <2>2 DEF vars
  <2> QED
    BY <2>1, <2>2 DEF Next, Idle
<1> QED
  BY <1>1 DEF KeySeen, Visible, Investigations

LEMMA StaysAnswerable ==
    ASSUME TypeOK, [Next]_vars, NEW r \in Request, Answerable(r)
    PROVE  Answerable(r)'
<1>1. KeySeen(r) /\ KeySeen(r)'
  BY StaysSeen DEF Answerable
<1>2. ASSUME Begin(r) \/ Step(r) \/ Fail(r)
      PROVE  pc'[r] \in {"new", "begun", "existing", "failed"}
  <2>1. ~LookupMiss(r) /\ ask[r].kind = "create"
    BY <1>1 DEF KeySeen, LookupMiss
  <2>2. pc[r] \in {"new", "begun", "existing", "failed"}
    BY DEF Answerable
  <2>3. CASE Begin(r) \/ Fail(r) \/ LookupHit(r)
    BY <2>3 DEF TypeOK, Begin, Fail, LookupHit, Goto
  <2>4. CASE Step(r) /\ ~LookupHit(r)
    BY <2>1, <2>2, <2>4 DEF Step, GetFound, GetMissing, InsertInvestigation,
       InsertConflict, InsertReview, AcquireLock, ReadHead, FlushEntry, Commit, Goto
  <2> QED
    BY <1>2, <2>3, <2>4
<1>3. ASSUME NEW q \in Request, q # r, Begin(q) \/ Step(q) \/ Fail(q)
      PROVE  pc'[r] = pc[r]
  BY <1>3 DEF TypeOK, Begin, Step, LookupMiss, LookupHit, GetFound, GetMissing,
     InsertInvestigation, InsertConflict, InsertReview, AcquireLock, ReadHead,
     FlushEntry, Commit, Fail, Goto
<1>4. CASE UNCHANGED vars
  BY <1>1, <1>4 DEF vars, Answerable
<1> QED
  BY <1>1, <1>2, <1>3, <1>4 DEF Next, Idle, Answerable

(***************************************************************************)
(* A retry sent when the investigation with its key is committed and       *)
(* visible to the caller never meets the constraint violation.             *)
(***************************************************************************)
THEOREM RetryAnswered == Spec => RetryNeverConflicts
<1> SUFFICES ASSUME NEW r \in Request
             PROVE  Spec => []( /\ pc[r] = "new"
                                /\ ask[r].kind = "create"
                                /\ \E x \in Visible(r) : x.key # NoKey /\ x.key = ask[r].key
                              => [](pc[r] # "conflict"))
  BY DEF RetryNeverConflicts
<1> DEFINE Sent == /\ pc[r] = "new"
                   /\ ask[r].kind = "create"
                   /\ \E x \in Visible(r) : x.key # NoKey /\ x.key = ask[r].key
           Clean == pc[r] # "conflict"
<1>1. Sent => Answerable(r)
  BY DEF Answerable, KeySeen
<1>2. TypeOK /\ Answerable(r) /\ [Next]_vars => Answerable(r)'
  BY StaysAnswerable
<1>3. Answerable(r) => Clean
  BY DEF Answerable
<1>4. Spec => []TypeOK
  BY TypeCorrect
<1> HIDE DEF Sent, Clean
<1>5. Spec => [](Sent => []Clean)
  BY <1>1, <1>2, <1>3, <1>4, PTL DEF Spec
<1> QED
  BY <1>5 DEF Sent, Clean
===============================================================================
