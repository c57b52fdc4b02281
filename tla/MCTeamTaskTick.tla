--------------------------- MODULE MCTeamTaskTick ---------------------------
EXTENDS TeamTaskTick

\* A chain: each step consumes the one before it.
Chain == [s \in Step |-> {d \in Step : d + 1 = s}]
\* Steps that do not depend on each other.
Independent == [s \in Step |-> {}]
=============================================================================
