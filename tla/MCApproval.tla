----------------------------- MODULE MCApproval -----------------------------
\* Approval for TLC: two calls and two timers, in every pairing of operations
\* and incidents.
EXTENDS Approval
=============================================================================
