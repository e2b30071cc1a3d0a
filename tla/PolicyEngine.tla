---------------------------- MODULE PolicyEngine ----------------------------
(***************************************************************************)
(* The operator's policy engine (services/operator/internal/policy): pure  *)
(* checks that classify one remediation step, and the plan validators      *)
(* built from them.  Lists the code only tests for membership are sets.    *)
(*                                                                         *)
(*   policy  [forbidden, scope, requireApprovalFor : sets,                 *)
(*            forbidDelete : BOOLEAN, maxPods, maxNamespaces : Nat]        *)
(*   step    [name, action, risk, autoApprove]                             *)
(*   runbook [..., rollback : set of [name, action]]                       *)
(***************************************************************************)
EXTENDS Integers, FiniteSets, Sequences

Approved         == "Approved"
RequiresApproval == "RequiresApproval"
Blocked          == "Blocked"

Classification == {Approved, RequiresApproval, Blocked}

\* How restrictive a classification is: a step may run, waits, never runs.
Strictness(c) == CASE c = Approved         -> 0
                   [] c = RequiresApproval -> 1
                   [] c = Blocked          -> 2

-----------------------------------------------------------------------------
CheckForbidden(action, policy) ==
    IF action \in policy.forbidden THEN Blocked ELSE Approved

\* A limit of zero means "no limit".
CheckBlastRadius(podsAffected, namespacesAffected, policy) ==
    IF \/ policy.maxPods > 0 /\ podsAffected > policy.maxPods
       \/ policy.maxNamespaces > 0 /\ namespacesAffected > policy.maxNamespaces
    THEN RequiresApproval
    ELSE Approved

CheckBlastRadiusAction(action, policy) ==
    IF policy.forbidDelete /\ action = "delete" THEN Blocked ELSE Approved

\* An empty scope allows every namespace.
CheckScope(namespace, policy) ==
    IF policy.scope = {} \/ namespace \in policy.scope THEN Approved ELSE Blocked

\* Mutant: a low-risk step needs no rollback, marked for automatic approval or not.
MutRollback(step, runbook) ==
    IF step.risk # "low" /\ runbook.rollback = {} THEN Blocked ELSE Approved

\* The code searches for an entry that undoes the step, but a runbook with any
\* rollback entry at all passes, matching or not.
CheckRollback(step, runbook) ==
    IF /\ ~(step.risk = "low" /\ step.autoApprove)
       /\ runbook.rollback = {}
    THEN Blocked
    ELSE Approved

\* Mutant: production is looked at only when no risk level is listed.
MutEnvironment(step, environment, policy) ==
    IF \/ policy.requireApprovalFor = {} /\ environment = "production"
       \/ step.risk \in policy.requireApprovalFor
    THEN RequiresApproval
    ELSE Approved

CheckEnvironment(step, environment, policy) ==
    IF environment = "production" \/ step.risk \in policy.requireApprovalFor
    THEN RequiresApproval
    ELSE Approved

\* Mutant: the environment is asked before the rollback path.
MutOrder(step, policy, runbook, environment) ==
    IF CheckForbidden(step.action, policy) = Blocked THEN Blocked
    ELSE IF CheckBlastRadiusAction(step.action, policy) = Blocked THEN Blocked
    ELSE IF CheckScope(environment, policy) = Blocked THEN Blocked
    ELSE IF CheckEnvironment(step, environment, policy) = RequiresApproval
         THEN RequiresApproval
    ELSE CheckRollback(step, runbook)

\* The first check that objects decides; the reconciler passes the incident's
\* namespace as the environment, and the engine uses it for the scope too.
validateSingleAction(step, policy, runbook, environment) ==
    IF CheckForbidden(step.action, policy) = Blocked THEN Blocked
    ELSE IF CheckBlastRadiusAction(step.action, policy) = Blocked THEN Blocked
    ELSE IF CheckScope(environment, policy) = Blocked THEN Blocked
    ELSE IF CheckRollback(step, runbook) = Blocked THEN Blocked
    ELSE CheckEnvironment(step, environment, policy)

ValidatePlan(plan, policy, runbook, environment) ==
    [i \in DOMAIN plan |->
        validateSingleAction(plan[i], policy, runbook, environment)]

\* Mutant: the limit is reached one step early.
MutLimit(plan, policy, runbook, environment, maxAutoApproved) ==
    LET results == ValidatePlan(plan, policy, runbook, environment)
        count(i) == Cardinality({j \in 1..i : results[j] = Approved})
    IN  [i \in DOMAIN results |->
            IF results[i] = Approved /\ count(i) >= maxAutoApproved
            THEN RequiresApproval
            ELSE results[i]]

\* Beyond the first maxAutoApproved approved steps, Approved becomes
\* RequiresApproval; the loop's counter is the number of approved results so far.
ValidatePlanWithLimit(plan, policy, runbook, environment, maxAutoApproved) ==
    LET results == ValidatePlan(plan, policy, runbook, environment)
        count(i) == Cardinality({j \in 1..i : results[j] = Approved})
    IN  [i \in DOMAIN results |->
            IF results[i] = Approved /\ count(i) > maxAutoApproved
            THEN RequiresApproval
            ELSE results[i]]

-----------------------------------------------------------------------------
(* Reference definitions: what a classification is meant to say, written    *)
(* without the order of the checks.                                         *)

\* A step that may run with nobody asked.
Cleared(step, policy, runbook, environment) ==
    /\ step.action \notin policy.forbidden
    /\ policy.forbidDelete => step.action # "delete"
    /\ policy.scope # {} => environment \in policy.scope
    /\ environment # "production"
    /\ step.risk \notin policy.requireApprovalFor
    /\ runbook.rollback = {} => step.risk = "low" /\ step.autoApprove

\* The strictest of the five verdicts, whatever the order they are taken in.
Strictest(step, policy, runbook, environment) ==
    LET verdicts == {CheckForbidden(step.action, policy),
                     CheckBlastRadiusAction(step.action, policy),
                     CheckScope(environment, policy),
                     CheckRollback(step, runbook),
                     CheckEnvironment(step, environment, policy)}
    IN  CHOOSE c \in verdicts :
            \A d \in verdicts : Strictness(d) <= Strictness(c)
=============================================================================
