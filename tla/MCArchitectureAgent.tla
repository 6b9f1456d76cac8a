-------------------------- MODULE MCArchitectureAgent --------------------------
EXTENDS ArchitectureAgent

AffectedLists == {<<"db", "api">>}
===============================================================================
