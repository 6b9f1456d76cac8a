------------------------------ MODULE AuditChain ------------------------------
(***************************************************************************)
(* What the audit log promises: one hash chain that only ever grows at its *)
(* end, by one entry at a time, and that holds no entry twice.  With a     *)
(* collision-free hash the hash of the newest row determines every row     *)
(* below it, so the chain is represented by the entries it was hashed      *)
(* from.  UnitOfWork implements this specification.                        *)
(***************************************************************************)
EXTENDS Sequences, Naturals

CONSTANT Entry      \* the audit entries that may be recorded

VARIABLE chain      \* the entries of the chain, oldest first

ChainInit == chain = <<>>

Extend(e) ==
    /\ \A i \in 1..Len(chain) : chain[i] # e
    /\ chain' = Append(chain, e)

ChainNext == \E e \in Entry : Extend(e)

ChainSpec == ChainInit /\ [][ChainNext]_chain
===============================================================================
