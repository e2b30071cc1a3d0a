----------------------------- MODULE MCOperator -----------------------------
\* Operator for TLC: the reconciler of cmd/main.go and others with policies,
\* runbooks and failing actions chosen so that every verdict occurs.
EXTENDS Operator

Named(n, action, risk, auto) ==
    [name |-> n, action |-> action, risk |-> risk, autoApprove |-> auto]

Restarting == Named("restart", "restart", "low", TRUE)
Scaling    == Named("scale", "scale", "medium", FALSE)
Deleting   == Named("delete", "delete", "high", FALSE)
UndoScale  == [name |-> "undo_scale", action |-> "scale"]

\* The runbook of cmd/main.go, one with a rollback section, and one that lists an
\* action the executor does not know.
Shipped == [alertName |-> "PodCrashLooping", severity |-> {"critical", "warning"},
            remediation |-> <<Restarting>>, rollback |-> {}]
TwoStep == [alertName |-> "PodCrashLooping", severity |-> {"critical"},
            remediation |-> <<Restarting, Scaling>>, rollback |-> {UndoScale}]
Unknown == [alertName |-> "PodCrashLooping", severity |-> {"warning"},
            remediation |-> <<Restarting, Deleting>>, rollback |-> {UndoScale}]

NoPolicy == [forbidden |-> {}, scope |-> {}, requireApprovalFor |-> {},
             forbidDelete |-> FALSE, maxPods |-> 0, maxNamespaces |-> 0]

MCPolicies == {NoPolicy,
               [NoPolicy EXCEPT !.forbidden = {"scale"}],
               [NoPolicy EXCEPT !.requireApprovalFor = {"medium", "high"}],
               [NoPolicy EXCEPT !.scope = {"production"}]}

Config(p, rbs, f, r) ==
    [policy |-> p, runbooks |-> rbs, failAction |-> f, reasoner |-> r]

MCConfigs ==
    {Config(NoPolicy, <<Shipped>>, "", FALSE),
     Config(NoPolicy, <<TwoStep, Shipped>>, "restart", FALSE),
     Config(NoPolicy, <<Unknown, TwoStep>>, "", TRUE)}
      \cup {Config(p, <<Unknown, TwoStep>>, "", FALSE) : p \in MCPolicies}

MCNoIncident == [alertName |-> "nil", severity |-> "nil", namespace |-> "nil",
                 phase |-> "Pending"]

Firing(ns, severity) ==
    [status |-> "firing", alertname |-> "PodCrashLooping",
     severity |-> severity, namespace |-> ns]
Resolved == [Firing("staging", "critical") EXCEPT !.status = "resolved"]

MCPayloads ==
    {[json |-> FALSE, alerts |-> <<>>],
     [json |-> TRUE, alerts |-> <<>>],
     [json |-> TRUE, alerts |-> <<Resolved, Firing("staging", "critical")>>],
     [json |-> TRUE, alerts |-> <<Firing("staging", "warning"), Resolved>>],
     [json |-> TRUE, alerts |-> <<Firing("staging", "critical")>>],
     [json |-> TRUE, alerts |-> <<Firing("production", "critical")>>]}
=============================================================================
