------------------------ MODULE MCInvestigationAccess ------------------------
(* Small instances of InvestigationAccess for TLC. *)
EXTENDS InvestigationAccess

Net == <<"net">>

\* One team id, "net,db".
NetDb == <<"net", "db">>

Teams == {Net, NetDb}

Callers == {"engineer", "lead", "contractor"}

\* A member of one team with a role the API does not know besides, an
\* administrator of no team, and a member of the team whose id has a comma.
TokenClaims ==
    [engineer   |-> [roles |-> {"responder", "oncall"}, teams |-> <<Net>>],
     lead       |-> [roles |-> {"viewer", "admin"}, teams |-> <<>>],
     contractor |-> [roles |-> {"responder"}, teams |-> <<NetDb>>]]
===============================================================================
