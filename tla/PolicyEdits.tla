---------------------------- MODULE PolicyEdits -----------------------------
(***************************************************************************)
(* A policy under edit.  Whoever administers RunGuard tightens it one entry *)
(* at a time; the classification of every step, by the engine of           *)
(* services/operator/internal/policy, should only become stricter.  But an  *)
(* empty scope and a zero limit allow everything: the last entry taken away *)
(* lifts the rule.                                                         *)
(***************************************************************************)
EXTENDS PolicyEngine

CONSTANTS Actions,       \* action names a step or a policy may mention
          Risks,         \* risk levels
          Namespaces,    \* namespaces, also passed as the environment
          StepNames,     \* names of remediation steps
          Rollbacks,     \* rollback sections a runbook may have
          MaxLimit,      \* largest blast-radius limit and largest count tried
          Plans          \* plans given to the plan validators

ASSUME LimitAssumption == MaxLimit \in Nat \ {0}

VARIABLE policy

Step == [name : StepNames, action : Actions, risk : Risks, autoApprove : BOOLEAN]

ASSUME PlansAssumption == Plans \subseteq Seq(Step)

Runbook == [rollback : Rollbacks]

Policy == [forbidden : SUBSET Actions, scope : SUBSET Namespaces,
           requireApprovalFor : SUBSET Risks, forbidDelete : BOOLEAN,
           maxPods : 0..MaxLimit, maxNamespaces : 0..MaxLimit]

\* The operator starts from the empty policy (cmd/main.go).
Init == policy = [forbidden |-> {}, scope |-> {}, requireApprovalFor |-> {},
                  forbidDelete |-> FALSE, maxPods |-> 0, maxNamespaces |-> 0]

Forbid(a) == policy' = [policy EXCEPT !.forbidden = @ \cup {a}]

AskFor(r) == policy' = [policy EXCEPT !.requireApprovalFor = @ \cup {r}]

ForbidDelete == policy' = [policy EXCEPT !.forbidDelete = TRUE]

\* A scope is introduced, or loses namespaces, perhaps its last one.
NarrowScope(S) == /\ policy.scope # {} => S \subseteq policy.scope
                  /\ policy' = [policy EXCEPT !.scope = S]

\* Mutant: the limit is lowered by n, whether or not there is one.
MutLowerPods(n) == policy' = [policy EXCEPT !.maxPods = @ - n]

\* A limit is introduced, or lowered, perhaps to zero.
LowerPods(n) == /\ policy.maxPods > 0 => n < policy.maxPods
                /\ policy' = [policy EXCEPT !.maxPods = n]

LowerNamespaces(n) == /\ policy.maxNamespaces > 0 => n < policy.maxNamespaces
                      /\ policy' = [policy EXCEPT !.maxNamespaces = n]

Next == \/ \E a \in Actions : Forbid(a)
        \/ \E r \in Risks : AskFor(r)
        \/ ForbidDelete
        \/ \E S \in SUBSET Namespaces : NarrowScope(S)
        \/ \E n \in 0..MaxLimit : LowerPods(n) \/ LowerNamespaces(n)

Spec == Init /\ [][Next]_policy
-----------------------------------------------------------------------------
\* The policy record keeps its shape under every edit.
TypeOK == policy \in Policy

\* validateSingleAction takes its checks in a fixed order and stops at the first
\* objection; the answer is still the strictest of the five checks, so that no
\* RequiresApproval found early can hide a Blocked found late.
VerdictIsStrictest ==
    \A step \in Step, runbook \in Runbook, env \in Namespaces :
        validateSingleAction(step, policy, runbook, env)
            = Strictest(step, policy, runbook, env)

\* Approved means exactly what the reference definition says: not forbidden, in
\* scope, outside production, of a risk nobody must be asked about, and with a
\* way back unless it is a low-risk step marked for automatic approval.
ApprovedMeansCleared ==
    \A step \in Step, runbook \in Runbook, env \in Namespaces :
        (validateSingleAction(step, policy, runbook, env) = Approved)
            <=> Cleared(step, policy, runbook, env)

\* An edit relaxes a verdict only by taking away the last entry of a rule: the
\* verdict on a step that was out of scope, when the scope gets empty and so allows
\* every namespace (scope.go:10), or on a blast radius above its own limit, when
\* that limit gets zero and so is no limit (blast_radius.go:12, 17).  No other rule
\* added or tightened for one case ever opens another one.
RelaxedOnlyByLifting ==
    [][ /\ \A step \in Step, runbook \in Runbook, env \in Namespaces :
            \/ Strictness(validateSingleAction(step, policy, runbook, env))
                 <= Strictness(validateSingleAction(step, policy', runbook, env))
            \/ policy.scope # {} /\ policy'.scope = {} /\ env \notin policy.scope
        /\ \A pods, ns \in 0..(MaxLimit + 1) :
            \/ Strictness(CheckBlastRadius(pods, ns, policy))
                 <= Strictness(CheckBlastRadius(pods, ns, policy'))
            \/ policy'.maxPods = 0 /\ 0 < policy.maxPods /\ policy.maxPods < pods
            \/ /\ policy'.maxNamespaces = 0
               /\ 0 < policy.maxNamespaces /\ policy.maxNamespaces < ns ]_policy

\* ValidatePlanWithLimit approves exactly the first maxAutoApproved steps that
\* ValidatePlan approves and sends the others to a human; it never touches a
\* step that was blocked or already waits for approval.
LimitKeepsFirstApproved ==
    \A plan \in Plans, runbook \in Runbook, env \in Namespaces,
       max \in -1..(MaxLimit + 1) :
        LET free    == ValidatePlan(plan, policy, runbook, env)
            limited == ValidatePlanWithLimit(plan, policy, runbook, env, max)
            ok(r)   == {i \in DOMAIN plan : r[i] = Approved}
        IN  /\ ok(limited) \subseteq ok(free)
            /\ Cardinality(ok(limited))
                 = IF Cardinality(ok(free)) <= max THEN Cardinality(ok(free))
                   ELSE IF max < 0 THEN 0 ELSE max
            /\ \A i \in ok(limited), j \in ok(free) \ ok(limited) :
                  i < j /\ limited[j] = RequiresApproval
            /\ \A i \in DOMAIN plan \ ok(free) : limited[i] = free[i]
=============================================================================
