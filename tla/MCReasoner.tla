------------------------------ MODULE MCReasoner -------------------------------
\* Reasoner for TLC: an alert with a runbook and one without, two
\* namespaces, and two pieces of evidence that differ in a secret.
EXTENDS Reasoner

MCRedact == [e \in {"with key", "redacted"} |-> "redacted"]
=============================================================================
