--------------------------- MODULE MCConnectorClient ---------------------------
(* Small instances of ConnectorClient for TLC. *)
EXTENDS ConnectorClient

\* A date in the past, and a wait longer than the backoff allows.
SomeRetryAfters == {-1, 3}
===============================================================================
