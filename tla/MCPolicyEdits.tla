--------------------------- MODULE MCPolicyEdits ----------------------------
\* PolicyEdits for TLC: two actions (one of them the "delete" that forbidDelete
\* is about), all three risk levels, and production beside one other namespace.
EXTENDS PolicyEdits

MCActions    == {"restart", "delete"}
MCRisks      == {"low", "medium", "high"}
MCNamespaces == {"production", "staging"}
MCStepNames  == {"s"}
MCRollbacks  == {{}, {[name |-> "undo_s", action |-> "scale"]}}

MCSteps == {[name |-> "s", action |-> "restart", risk |-> "low", autoApprove |-> TRUE],
            [name |-> "s", action |-> "restart", risk |-> "high", autoApprove |-> FALSE],
            [name |-> "s", action |-> "delete", risk |-> "low", autoApprove |-> TRUE]}
MCPlans == UNION {[1..n -> MCSteps] : n \in 0..3}
=============================================================================
