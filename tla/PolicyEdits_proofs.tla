-------------------------- MODULE PolicyEdits_proofs ------------------------
(***************************************************************************)
(* Proofs about a policy under edit: the engine's verdicts and that no edit *)
(* relaxes any of them but by lifting a rule, for every set of actions,     *)
(* risk levels, namespaces, rollback sections and limits; and which steps   *)
(* of a plan the limit of automatic approvals keeps.                        *)
(***************************************************************************)
EXTENDS PolicyEdits, PolicyEngine_proofs, FiniteSetTheorems

\* The edits keep the policy's shape.
THEOREM TypeCorrect == Spec => []TypeOK
<1>1. Init => TypeOK
  BY LimitAssumption DEF Init, TypeOK, Policy
<1>2. TypeOK /\ [Next]_policy => TypeOK'
  <2> SUFFICES ASSUME TypeOK, [Next]_policy
               PROVE  TypeOK'
    OBVIOUS
  <2> USE DEF TypeOK, Policy
  <2>1. ASSUME NEW a \in Actions, Forbid(a) PROVE TypeOK'
    BY <2>1 DEF Forbid
  <2>2. ASSUME NEW r \in Risks, AskFor(r) PROVE TypeOK'
    BY <2>2 DEF AskFor
  <2>3. CASE ForbidDelete
    BY <2>3 DEF ForbidDelete
  <2>4. ASSUME NEW S \in SUBSET Namespaces, NarrowScope(S) PROVE TypeOK'
    BY <2>4 DEF NarrowScope
  <2>5. ASSUME NEW n \in 0..MaxLimit, LowerPods(n) PROVE TypeOK'
    BY <2>5, LimitAssumption DEF LowerPods
  <2>6. ASSUME NEW n \in 0..MaxLimit, LowerNamespaces(n) PROVE TypeOK'
    BY <2>6, LimitAssumption DEF LowerNamespaces
  <2>7. CASE UNCHANGED policy
    BY <2>7
  <2> QED BY <2>1, <2>2, <2>3, <2>4, <2>5, <2>6, <2>7 DEF Next
<1> QED BY <1>1, <1>2, PTL DEF Spec

\* Along every sequence of edits the verdict on every step is the strictest of
\* the five checks.
THEOREM VerdictAlwaysStrictest == Spec => []VerdictIsStrictest
<1>1. VerdictIsStrictest
  BY ChainIsStrictest DEF VerdictIsStrictest
<1> QED BY <1>1, PTL

\* Along every sequence of edits a step is approved only when it is cleared.
THEOREM ApprovedAlwaysCleared == Spec => []ApprovedMeansCleared
<1>1. TypeOK => ApprovedMeansCleared
  <2> SUFFICES ASSUME TypeOK, NEW step \in Step, NEW runbook \in Runbook,
                      NEW env \in Namespaces
               PROVE  (validateSingleAction(step, policy, runbook, env) = Approved)
                        <=> Cleared(step, policy, runbook, env)
    BY DEF ApprovedMeansCleared
  <2>1. policy.forbidDelete \in BOOLEAN /\ step.autoApprove \in BOOLEAN
    BY DEF TypeOK, Policy, Step
  <2> QED BY <2>1, ApprovedIsCleared
<1> QED BY <1>1, TypeCorrect, PTL

-----------------------------------------------------------------------------
\* The edit takes away the last namespace of the scope, or a limit.
LiftsScope == policy.scope # {} /\ policy'.scope = {}

LiftsPods == 0 < policy.maxPods /\ policy'.maxPods = 0

LiftsNamespaces == 0 < policy.maxNamespaces /\ policy'.maxNamespaces = 0

\* Every other edit is a tightening.
LEMMA EditsTighten ==
    ASSUME TypeOK, Next, ~LiftsScope, ~LiftsPods, ~LiftsNamespaces
    PROVE  Tighter(policy, policy')
<1> USE LimitAssumption DEF TypeOK, Policy, Tighter, LiftsScope, LiftsPods, LiftsNamespaces
<1>1. ASSUME NEW a \in Actions, Forbid(a) PROVE Tighter(policy, policy')
  BY <1>1 DEF Forbid
<1>2. ASSUME NEW r \in Risks, AskFor(r) PROVE Tighter(policy, policy')
  BY <1>2 DEF AskFor
<1>3. CASE ForbidDelete
  BY <1>3 DEF ForbidDelete
<1>4. ASSUME NEW S \in SUBSET Namespaces, NarrowScope(S)
      PROVE  Tighter(policy, policy')
  BY <1>4 DEF NarrowScope
<1>5. ASSUME NEW n \in 0..MaxLimit, LowerPods(n) PROVE Tighter(policy, policy')
  BY <1>5 DEF LowerPods
<1>6. ASSUME NEW n \in 0..MaxLimit, LowerNamespaces(n)
      PROVE  Tighter(policy, policy')
  BY <1>6 DEF LowerNamespaces
<1> QED BY <1>1, <1>2, <1>3, <1>4, <1>5, <1>6 DEF Next

\* An edit touches one rule: one that lifts a rule leaves the others alone.
LEMMA LiftsAlone ==
    ASSUME TypeOK, Next
    PROVE  /\ LiftsScope => policy' = [policy EXCEPT !.scope = policy'.scope]
           /\ LiftsPods => policy' = [policy EXCEPT !.maxPods = policy'.maxPods]
           /\ LiftsNamespaces
                => policy' = [policy EXCEPT !.maxNamespaces = policy'.maxNamespaces]
<1> USE LimitAssumption DEF TypeOK, Policy, LiftsScope, LiftsPods, LiftsNamespaces
<1>1. ASSUME NEW a \in Actions, Forbid(a)
      PROVE  ~LiftsScope /\ ~LiftsPods /\ ~LiftsNamespaces
  BY <1>1 DEF Forbid
<1>2. ASSUME NEW r \in Risks, AskFor(r)
      PROVE  ~LiftsScope /\ ~LiftsPods /\ ~LiftsNamespaces
  BY <1>2 DEF AskFor
<1>3. ASSUME ForbidDelete PROVE ~LiftsScope /\ ~LiftsPods /\ ~LiftsNamespaces
  BY <1>3 DEF ForbidDelete
<1>4. ASSUME NEW S \in SUBSET Namespaces, NarrowScope(S)
      PROVE  /\ policy' = [policy EXCEPT !.scope = policy'.scope]
             /\ ~LiftsPods /\ ~LiftsNamespaces
  BY <1>4 DEF NarrowScope
<1>5. ASSUME NEW n \in 0..MaxLimit, LowerPods(n)
      PROVE  /\ policy' = [policy EXCEPT !.maxPods = policy'.maxPods]
             /\ ~LiftsScope /\ ~LiftsNamespaces
  BY <1>5 DEF LowerPods
<1>6. ASSUME NEW n \in 0..MaxLimit, LowerNamespaces(n)
      PROVE  /\ policy' = [policy EXCEPT !.maxNamespaces = policy'.maxNamespaces]
             /\ ~LiftsScope /\ ~LiftsPods
  BY <1>6 DEF LowerNamespaces
<1> QED BY <1>1, <1>2, <1>3, <1>4, <1>5, <1>6 DEF Next

\* Strictness is a number, and no verdict is milder than itself.
LEMMA NoMilderThanItself == \A c \in Classification : Strictness(c) <= Strictness(c)
  BY StrictnessValues DEF Classification

\* A step in scope keeps its verdict when the scope is lifted, and every step
\* keeps it when a limit is.
LEMMA LiftKeepsVerdict ==
    ASSUME TypeOK, Next, NEW step, NEW runbook, NEW env,
           LiftsScope \/ LiftsPods \/ LiftsNamespaces, LiftsScope => env \in policy.scope
    PROVE  validateSingleAction(step, policy', runbook, env)
             = validateSingleAction(step, policy, runbook, env)
<1>1. /\ policy'.forbidden = policy.forbidden
      /\ policy'.requireApprovalFor = policy.requireApprovalFor
      /\ policy'.forbidDelete = policy.forbidDelete
      /\ ~LiftsScope => policy'.scope = policy.scope
  BY LiftsAlone DEF TypeOK, Policy
<1>2. CheckScope(env, policy') = CheckScope(env, policy)
  BY <1>1 DEF CheckScope, LiftsScope
<1>3. /\ CheckForbidden(step.action, policy') = CheckForbidden(step.action, policy)
      /\ CheckBlastRadiusAction(step.action, policy')
           = CheckBlastRadiusAction(step.action, policy)
      /\ CheckEnvironment(step, env, policy') = CheckEnvironment(step, env, policy)
  BY <1>1 DEF CheckForbidden, CheckBlastRadiusAction, CheckEnvironment
<1> QED BY <1>2, <1>3 DEF validateSingleAction

\* A blast radius within the limit that is lifted keeps its verdict.
LEMMA LiftKeepsBlastRadius ==
    ASSUME TypeOK, Next, NEW pods \in Nat, NEW ns \in Nat,
           LiftsScope \/ LiftsPods \/ LiftsNamespaces,
           LiftsPods => ~(policy.maxPods < pods),
           LiftsNamespaces => ~(policy.maxNamespaces < ns)
    PROVE  CheckBlastRadius(pods, ns, policy') = CheckBlastRadius(pods, ns, policy)
<1>1. /\ policy.maxPods \in Nat /\ policy.maxNamespaces \in Nat
      /\ ~LiftsPods => policy'.maxPods = policy.maxPods
      /\ ~LiftsNamespaces => policy'.maxNamespaces = policy.maxNamespaces
  BY LiftsAlone, LimitAssumption DEF TypeOK, Policy
<1>2. policy.maxPods > 0 /\ pods > policy.maxPods
        <=> policy'.maxPods > 0 /\ pods > policy'.maxPods
  BY <1>1 DEF LiftsPods
<1>3. policy.maxNamespaces > 0 /\ ns > policy.maxNamespaces
        <=> policy'.maxNamespaces > 0 /\ ns > policy'.maxNamespaces
  BY <1>1 DEF LiftsNamespaces
<1> QED BY <1>2, <1>3 DEF CheckBlastRadius

\* An edit relaxes the classification of a step, or lets a wider blast radius
\* through, only by lifting the rule that stood in the way, whatever the actions,
\* risk levels, namespaces and runbooks.
THEOREM NoEditRelaxes == Spec => RelaxedOnlyByLifting
<1> DEFINE Verdicts ==
        \A step \in Step, runbook \in Runbook, env \in Namespaces :
            \/ Strictness(validateSingleAction(step, policy, runbook, env))
                 <= Strictness(validateSingleAction(step, policy', runbook, env))
            \/ policy.scope # {} /\ policy'.scope = {} /\ env \notin policy.scope
           Radii ==
        \A pods, ns \in 0..(MaxLimit + 1) :
            \/ Strictness(CheckBlastRadius(pods, ns, policy))
                 <= Strictness(CheckBlastRadius(pods, ns, policy'))
            \/ policy'.maxPods = 0 /\ 0 < policy.maxPods /\ policy.maxPods < pods
            \/ /\ policy'.maxNamespaces = 0
               /\ 0 < policy.maxNamespaces /\ policy.maxNamespaces < ns
<1>1. ASSUME TypeOK, TypeOK', Next PROVE Verdicts /\ Radii
  <2>1. /\ policy.forbidDelete \in BOOLEAN /\ policy'.forbidDelete \in BOOLEAN
        /\ policy.maxPods \in Nat /\ policy'.maxPods \in Nat
        /\ policy.maxNamespaces \in Nat /\ policy'.maxNamespaces \in Nat
    BY <1>1, LimitAssumption DEF TypeOK, Policy
  <2>2. ASSUME NEW step \in Step, NEW runbook \in Runbook, NEW env \in Namespaces,
               LiftsScope => env \in policy.scope
        PROVE  Strictness(validateSingleAction(step, policy, runbook, env))
                 <= Strictness(validateSingleAction(step, policy', runbook, env))
    <3>1. CASE LiftsScope \/ LiftsPods \/ LiftsNamespaces
      <4>1. validateSingleAction(step, policy, runbook, env) \in Classification
        BY CheckRange DEF validateSingleAction, Classification
      <4> QED BY <1>1, <2>2, <3>1, <4>1, LiftKeepsVerdict, NoMilderThanItself
    <3>2. CASE ~(LiftsScope \/ LiftsPods \/ LiftsNamespaces)
      <4>1. Tighter(policy, policy')
        BY <1>1, <3>2, EditsTighten
      <4> QED BY <2>1, <4>1, TighterIsStricter
    <3> QED BY <3>1, <3>2
  <2>3. ASSUME NEW pods \in 0..(MaxLimit + 1), NEW ns \in 0..(MaxLimit + 1),
               LiftsPods => ~(policy.maxPods < pods),
               LiftsNamespaces => ~(policy.maxNamespaces < ns)
        PROVE  Strictness(CheckBlastRadius(pods, ns, policy))
                 <= Strictness(CheckBlastRadius(pods, ns, policy'))
    <3>0. pods \in Nat /\ ns \in Nat
      BY LimitAssumption
    <3>1. CASE LiftsScope \/ LiftsPods \/ LiftsNamespaces
      <4>1. CheckBlastRadius(pods, ns, policy) \in Classification
        BY DEF CheckBlastRadius, Classification
      <4>2. CheckBlastRadius(pods, ns, policy') = CheckBlastRadius(pods, ns, policy)
        BY <1>1, <2>3, <3>0, <3>1, LiftKeepsBlastRadius
      <4> QED BY <4>1, <4>2, NoMilderThanItself
    <3>2. CASE ~(LiftsScope \/ LiftsPods \/ LiftsNamespaces)
      <4>1. Tighter(policy, policy')
        BY <1>1, <3>2, EditsTighten
      <4> QED BY <2>1, <3>0, <4>1, TighterBlastRadius
    <3> QED BY <3>1, <3>2
  <2>4. Verdicts
    BY <2>2 DEF LiftsScope
  <2>5. Radii
    BY <2>3 DEF LiftsPods, LiftsNamespaces
  <2> QED BY <2>4, <2>5
<1>2. TypeOK /\ TypeOK' /\ [Next]_policy => [Verdicts /\ Radii]_policy
  BY <1>1
<1> QED BY <1>2, TypeCorrect, PTL DEF Spec, RelaxedOnlyByLifting

-----------------------------------------------------------------------------
(* The limit: the first few members of a set of positions.  No induction     *)
(* is needed, only that a set of positions has a least and a greatest one.   *)

\* A bounded set of numbers has a greatest one.
LEMMA GreatestExists ==
    ASSUME NEW n \in Nat, NEW T, T \subseteq 1..n, T # {}
    PROVE  \E x \in T : \A y \in T : y <= x
<1> DEFINE U == {n - i : i \in T}
<1>1. U \subseteq Nat /\ U # {}
  <2>1. ASSUME NEW i \in T PROVE n - i \in Nat
    <3>1. i \in 1..n
      OBVIOUS
    <3> QED BY <3>1
  <2>2. PICK i \in T : TRUE
    OBVIOUS
  <2>3. n - i \in U
    OBVIOUS
  <2> QED BY <2>1, <2>3
<1>2. PICK u \in U : \A v \in U : u <= v
  BY <1>1, LeastExists
<1>3. PICK x \in T : u = n - x
  BY <1>2
<1>4. ASSUME NEW y \in T PROVE y <= x
  <2>1. n - x <= n - y
    BY <1>2, <1>3
  <2> QED BY <2>1
<1> QED BY <1>4

\* The members of A up to i.
Upto(A, i) == {j \in A : j <= i}

\* Of a set of positions those are kept that have at most max positions up to
\* them: the first max of them, or all.
LEMMA FirstFew ==
    ASSUME NEW n \in Nat, NEW A, A \subseteq 1..n, NEW max \in Int,
           NEW L, L \subseteq A, \A i \in A : i \in L <=> Cardinality(Upto(A, i)) <= max
    PROVE  /\ Cardinality(L) = IF Cardinality(A) <= max THEN Cardinality(A)
                               ELSE IF max < 0 THEN 0 ELSE max
           /\ \A i \in L, j \in A \ L : i < j
<1>1. IsFiniteSet(A) /\ Cardinality(A) \in Nat
  <2>1. IsFiniteSet(1..n)
    BY FS_Interval
  <2> QED BY <2>1, FS_Subset, FS_CardinalityType
<1>2. ASSUME NEW i \in A
      PROVE  /\ Upto(A, i) \in SUBSET A
             /\ IsFiniteSet(Upto(A, i))
             /\ Cardinality(Upto(A, i)) \in Nat
             /\ Cardinality(Upto(A, i)) <= Cardinality(A)
  <2>1. Upto(A, i) \in SUBSET A
    BY DEF Upto
  <2> QED BY <2>1, <1>1, FS_Subset, FS_CardinalityType
<1>3. ASSUME NEW i \in A, NEW j \in A, i <= j
      PROVE  Cardinality(Upto(A, i)) <= Cardinality(Upto(A, j))
  <2>1. i \in Int /\ j \in Int
    OBVIOUS
  <2>2. \A k \in A : k <= i => k <= j
    <3>1. \A k \in A : k \in Int
      OBVIOUS
    <3> QED BY <3>1, <1>3, <2>1
  <2>3. Upto(A, i) \in SUBSET Upto(A, j)
    BY <2>2 DEF Upto
  <2> QED BY <2>3, <1>2, FS_Subset
<1>4. IsFiniteSet(L) /\ L \in SUBSET A
  BY <1>1, FS_Subset
<1>5. \A i \in L, j \in A \ L : i < j
  <2> SUFFICES ASSUME NEW i \in L, NEW j \in A \ L, ~(i < j) PROVE FALSE
    OBVIOUS
  <2>1. j <= i
    BY <1>4
  <2>2. Cardinality(Upto(A, j)) <= Cardinality(Upto(A, i))
    BY <2>1, <1>3, <1>4
  <2> QED BY <2>2, <1>2, <1>4
<1>6. CASE Cardinality(A) <= max
  <2>1. ASSUME NEW i \in A PROVE i \in L
    BY <1>6, <1>1, <1>2
  <2>2. L = A
    BY <2>1
  <2> QED BY <2>2, <1>5, <1>6
<1>7. CASE ~(Cardinality(A) <= max) /\ max < 0
  <2>1. ASSUME NEW i \in A PROVE i \notin L
    <3>1. ~(Cardinality(Upto(A, i)) <= max)
      BY <1>2, <1>7
    <3> QED BY <3>1
  <2>2. L = {}
    BY <2>1
  <2> QED BY <2>2, <1>5, <1>7, FS_EmptySet
<1>8. CASE ~(Cardinality(A) <= max) /\ max >= 0
  <2>1. max \in Nat /\ Cardinality(L) \in Nat
    BY <1>4, <1>8, FS_CardinalityType
  <2>2. Cardinality(L) <= max
    <3>1. CASE L = {}
      <4>1. Cardinality(L) = 0
        BY <3>1, FS_EmptySet
      <4> QED BY <4>1, <2>1
    <3>2. CASE L # {}
      <4>1. L \subseteq 1..n
        BY <1>4
      <4>2. PICK l \in L : \A i \in L : i <= l
        BY <3>2, <4>1, GreatestExists
      <4>3. L \in SUBSET Upto(A, l)
        BY <4>2, <1>4 DEF Upto
      <4>4. Cardinality(L) <= Cardinality(Upto(A, l)) /\ Cardinality(Upto(A, l)) <= max
        BY <4>2, <4>3, <1>2, <1>4, FS_Subset
      <4> QED BY <4>2, <4>4, <1>2, <1>4, <2>1
    <3> QED BY <3>1, <3>2
  <2>3. max <= Cardinality(L)
    <3>1. A \ L # {}
      <4>1. ASSUME A \ L = {} PROVE FALSE
        <5>1. A = L
          BY <4>1, <1>4
        <5> QED BY <5>1, <2>2, <1>8
      <4> QED BY <4>1
    <3>2. PICK m \in A \ L : \A j \in A \ L : m <= j
      <4>1. A \ L \subseteq Nat
        <5>1. \A j \in A : j \in Nat
          OBVIOUS
        <5> QED BY <5>1
      <4> QED BY <3>1, <4>1, LeastExists
    <3>3. Upto(A, m) \in SUBSET (L \cup {m})
      <4> SUFFICES ASSUME NEW j \in Upto(A, m), j \notin L PROVE j = m
        OBVIOUS
      <4>1. j \in A \ L /\ j <= m
        BY DEF Upto
      <4>2. m <= j
        BY <4>1, <3>2
      <4> QED BY <4>1, <4>2
    <3>4. IsFiniteSet(L \cup {m}) /\ Cardinality(L \cup {m}) = Cardinality(L) + 1
      BY <1>4, <3>2, FS_AddElement
    <3>5. Cardinality(Upto(A, m)) <= Cardinality(L) + 1
      BY <3>3, <3>4, FS_Subset
    <3>6. Cardinality(Upto(A, m)) > max
      BY <3>2, <1>2
    <3> QED BY <3>5, <3>6, <3>2, <1>2, <2>1
  <2> QED BY <2>1, <2>2, <2>3, <1>5, <1>8
<1> QED BY <1>1, <1>6, <1>7, <1>8

\* The limit keeps exactly the first approved steps and touches no other, for
\* plans of any length and any limit, negative ones included.
THEOREM LimitAlwaysKeepsFirst == Spec => []LimitKeepsFirstApproved
<1>1. ASSUME NEW plan \in Plans, NEW runbook \in Runbook, NEW env \in Namespaces,
             NEW max \in -1..(MaxLimit + 1)
      PROVE  LET free    == ValidatePlan(plan, policy, runbook, env)
                 limited == ValidatePlanWithLimit(plan, policy, runbook, env, max)
                 ok(r)   == {i \in DOMAIN plan : r[i] = Approved}
             IN  /\ ok(limited) \subseteq ok(free)
                 /\ Cardinality(ok(limited))
                      = IF Cardinality(ok(free)) <= max THEN Cardinality(ok(free))
                        ELSE IF max < 0 THEN 0 ELSE max
                 /\ \A i \in ok(limited), j \in ok(free) \ ok(limited) :
                       i < j /\ limited[j] = RequiresApproval
                 /\ \A i \in DOMAIN plan \ ok(free) : limited[i] = free[i]
  <2> DEFINE free    == ValidatePlan(plan, policy, runbook, env)
             limited == ValidatePlanWithLimit(plan, policy, runbook, env, max)
             count(i) == Cardinality({j \in 1..i : free[j] = Approved})
             A == {i \in DOMAIN plan : free[i] = Approved}
             L == {i \in DOMAIN plan : limited[i] = Approved}
  <2>1. PICK n \in Nat : DOMAIN plan = 1..n
    <3>1. plan \in Seq(Step)
      BY PlansAssumption
    <3>2. Len(plan) \in Nat /\ DOMAIN plan = 1..Len(plan)
      BY <3>1
    <3> QED BY <3>2
  <2>2. max \in Int
    BY LimitAssumption
  <2>3. \A i \in DOMAIN plan : limited[i] = IF free[i] = Approved /\ count(i) > max
                                           THEN RequiresApproval ELSE free[i]
    BY DEF ValidatePlanWithLimit, ValidatePlan
  <2> HIDE DEF free, limited
  <2>4. ASSUME NEW i \in DOMAIN plan PROVE {j \in 1..i : free[j] = Approved} = Upto(A, i)
    <3>1. i \in 1..n
      BY <2>1
    <3>2. \A j : j \in 1..i <=> j \in 1..n /\ j <= i
      BY <3>1
    <3> QED BY <2>1, <3>2 DEF Upto
  <2>5. ASSUME NEW i \in A PROVE Cardinality(Upto(A, i)) \in Nat
    <3>1. IsFiniteSet(1..n)
      BY <2>1, FS_Interval
    <3>2. Upto(A, i) \in SUBSET (1..n)
      BY <2>1 DEF Upto
    <3> HIDE DEF A
    <3> QED BY <3>1, <3>2, FS_Subset, FS_CardinalityType
  <2>6. \A i \in A : i \in L <=> Cardinality(Upto(A, i)) <= max
    <3> SUFFICES ASSUME NEW i \in A
                 PROVE  i \in L <=> Cardinality(Upto(A, i)) <= max
      OBVIOUS
    <3>1. i \in DOMAIN plan /\ free[i] = Approved
      OBVIOUS
    <3>2. count(i) = Cardinality(Upto(A, i)) /\ count(i) \in Nat
      BY <3>1, <2>4, <2>5
    <3>3. i \in L <=> limited[i] = Approved
      BY <3>1
    <3>4. limited[i] = Approved <=> ~(count(i) > max)
      BY <3>1, <2>3 DEF Approved, RequiresApproval
    <3> HIDE DEF count, A, L
    <3> QED BY <3>2, <3>3, <3>4, <2>2
  <2>7. L \subseteq A
    BY <2>3 DEF Approved, RequiresApproval
  <2>8. A \subseteq 1..n
    BY <2>1
  <2>9. \A i \in DOMAIN plan \ A : limited[i] = free[i]
    BY <2>3
  <2>10. \A j \in A \ L : limited[j] = RequiresApproval
    BY <2>3
  <2>11. /\ Cardinality(L) = IF Cardinality(A) <= max THEN Cardinality(A)
                             ELSE IF max < 0 THEN 0 ELSE max
         /\ \A i \in L, j \in A \ L : i < j
    <3> HIDE DEF A, L
    <3> QED BY <2>1, <2>2, <2>6, <2>7, <2>8, FirstFew
  <2> QED BY <2>7, <2>9, <2>10, <2>11 DEF free, limited
<1>2. LimitKeepsFirstApproved
  BY <1>1 DEF LimitKeepsFirstApproved
<1> QED BY <1>2, PTL
=============================================================================
