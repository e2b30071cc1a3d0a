-------------------------- MODULE MCCircuitBreaker --------------------------
\* CircuitBreaker for TLC: three overlapping callers, a threshold of two and a
\* counter that wraps after five failures.
EXTENDS CircuitBreaker
=============================================================================
