----------------------------- MODULE MCRuntime -----------------------------
EXTENDS Runtime

\* A callback due at once and one due later.
MCDelays == {0, 2}

\* Rescheduled once before the clock stops.
MCPeriods == {1}

MCNone == {}
=============================================================================
