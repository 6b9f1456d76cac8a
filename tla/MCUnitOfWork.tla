----------------------------- MODULE MCUnitOfWork -----------------------------
(* Small instances of UnitOfWork for TLC. *)
EXTENDS UnitOfWork, TLC

CONSTANTS r1, r2, r3, t1, t2, k1

Create(t, s, k) == [kind |-> "create", key |-> k, team |-> t, scope |-> s,
                    about |-> r1]
Review(s, i)    == [kind |-> "review", key |-> NoKey, team |-> t1, scope |-> s,
                    about |-> i]

\* Two callers of different teams and one who sees both, with one key between
\* them; a create without a key; and reviewers who may or may not see r1's.
FullWorkload ==
    {Create(t1, {t1}, k1), Create(t2, {t2}, k1), Create(t2, {t1, t2}, k1),
     Create(t1, {t1}, NoKey), Review({t1}, r1), Review({t2}, r1)}
===============================================================================
