----------------------------- MODULE MCExecutor -----------------------------
\* Executor for TLC: every plan of up to three steps over two names (so that two
\* steps may share an undo) and an action that works and one nobody knows, with
\* every choice of undo entries.
EXTENDS Executor

MCNames  == {"a", "b", "undo_a", "undo_b"}
MCUndoOf == [n \in MCNames |-> CASE n = "a" -> "undo_a" [] OTHER -> "undo_b"]

MCSteps == {[name |-> n, action |-> a, risk |-> "medium", autoApprove |-> FALSE] :
               n \in {"a", "b"}, a \in {"restart", "drain"}}
MCEntries == {[name |-> n, action |-> "rollback"] : n \in {"undo_a", "undo_b"}}

MCRunbooks == {[remediation |-> plan, rollback |-> entries] :
                  plan \in UNION {[1..n -> MCSteps] : n \in 0..3},
                  entries \in SUBSET MCEntries}
=============================================================================
