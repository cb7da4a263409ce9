------------------------- MODULE MCAdministration -------------------------
EXTENDS Administration

\* Day 1 begins a week and a month.
MCBoundaries == [weekly |-> {1, 3}, monthly |-> {1, 2}]
=============================================================================
