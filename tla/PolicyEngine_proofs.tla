-------------------------- MODULE PolicyEngine_proofs -----------------------
(***************************************************************************)
(* Lemmas about the policy engine's operators, for every step, policy,      *)
(* runbook and environment: what the chain of checks computes, and that a   *)
(* tighter policy classifies no step more leniently.                        *)
(***************************************************************************)
EXTENDS PolicyEngine, TLAPS, WellFoundedInduction

\* A set of numbers has a least one.
LEMMA LeastExists ==
    ASSUME NEW T, T \subseteq Nat, T # {}
    PROVE  \E x \in T : \A y \in T : x <= y
<1> DEFINE R == {ss \in Nat \X Nat : ss[1] < ss[2]}
<1>1. IsWellFoundedOn(R, Nat)
  BY NatLessThanWellFounded DEF OpToRel
<1>2. PICK x \in T : \A y \in T : ~ (<<y, x>> \in R)
  BY <1>1, WFMin
<1>3. ASSUME NEW y \in T PROVE x <= y
  <2>1. <<y, x>> \notin R
    BY <1>2
  <2>2. x \in Nat /\ y \in Nat
    OBVIOUS
  <2>3. ~(y < x)
    BY <2>1, <2>2
  <2> QED BY <2>2, <2>3
<1> QED BY <1>3

\* Every check answers with one of the three classifications, and only
\* CheckEnvironment ever answers RequiresApproval.
LEMMA CheckRange ==
    ASSUME NEW a, NEW env, NEW step, NEW p, NEW runbook
    PROVE  /\ CheckForbidden(a, p) \in {Approved, Blocked}
           /\ CheckBlastRadiusAction(a, p) \in {Approved, Blocked}
           /\ CheckScope(env, p) \in {Approved, Blocked}
           /\ CheckRollback(step, runbook) \in {Approved, Blocked}
           /\ CheckEnvironment(step, env, p) \in {Approved, RequiresApproval}
  BY DEF CheckForbidden, CheckBlastRadiusAction, CheckScope, CheckRollback,
         CheckEnvironment

\* The three classifications are ordered, Blocked the strictest.
LEMMA StrictnessValues ==
    /\ Strictness(Approved) = 0
    /\ Strictness(RequiresApproval) = 1
    /\ Strictness(Blocked) = 2
  BY DEF Strictness, Approved, RequiresApproval, Blocked

\* In a set of classifications the strictest one exists and is unique.
LEMMA StrictestOfSet ==
    ASSUME NEW V, V \subseteq Classification, NEW c \in V,
           \A d \in V : Strictness(d) <= Strictness(c)
    PROVE  c = CHOOSE x \in V : \A d \in V : Strictness(d) <= Strictness(x)
<1> DEFINE Top(x) == \A d \in V : Strictness(d) <= Strictness(x)
           t      == CHOOSE x \in V : Top(x)
<1>1. t \in V /\ Top(t)
  <2>1. Top(c)
    OBVIOUS
  <2> QED BY <2>1
<1>2. Strictness(t) <= Strictness(c) /\ Strictness(c) <= Strictness(t)
  BY <1>1
<1>3. t \in Classification /\ c \in Classification
  BY <1>1
<1>4. t = c
  BY <1>2, <1>3, StrictnessValues DEF Classification
<1> QED BY <1>4

\* The chain of early returns in validateSingleAction computes the strictest of
\* its five checks, whatever the step, the policy and the runbook.
THEOREM ChainIsStrictest ==
    ASSUME NEW step, NEW p, NEW runbook, NEW env
    PROVE  validateSingleAction(step, p, runbook, env)
             = Strictest(step, p, runbook, env)
<1> DEFINE V == {CheckForbidden(step.action, p),
                 CheckBlastRadiusAction(step.action, p),
                 CheckScope(env, p),
                 CheckRollback(step, runbook),
                 CheckEnvironment(step, env, p)}
           c == validateSingleAction(step, p, runbook, env)
<1>1. V \subseteq Classification
  BY CheckRange DEF Classification
<1>2. c \in V
  BY DEF validateSingleAction
<1>3. \A d \in V : Strictness(d) <= Strictness(c)
  <2>1. CASE Blocked \in V
    <3>1. c = Blocked
      BY <2>1, CheckRange DEF validateSingleAction, Approved, RequiresApproval,
                              Blocked
    <3> QED BY <3>1, <1>1, StrictnessValues DEF Classification
  <2>2. CASE Blocked \notin V
    <3>1. c = CheckEnvironment(step, env, p)
      BY <2>2 DEF validateSingleAction
    <3>2. V \subseteq {Approved, c}
      BY <2>2, <3>1, CheckRange
    <3>3. c \in {Approved, RequiresApproval}
      BY <3>1, CheckRange
    <3> QED BY <3>2, <3>3, StrictnessValues
  <2> QED BY <2>1, <2>2
<1> HIDE DEF c
<1>4. c = CHOOSE x \in V : \A d \in V : Strictness(d) <= Strictness(x)
  BY <1>1, <1>2, <1>3, StrictestOfSet
<1> QED BY <1>4 DEF Strictest, c

\* A step is approved exactly when the reference definition clears it: the
\* decision to run with nobody asked, for every step, policy and runbook.
THEOREM ApprovedIsCleared ==
    ASSUME NEW step, NEW p, NEW runbook, NEW env, p.forbidDelete \in BOOLEAN,
           step.autoApprove \in BOOLEAN
    PROVE  (validateSingleAction(step, p, runbook, env) = Approved)
             <=> Cleared(step, p, runbook, env)
<1>1. (validateSingleAction(step, p, runbook, env) = Approved)
        <=> /\ CheckForbidden(step.action, p) # Blocked
            /\ CheckBlastRadiusAction(step.action, p) # Blocked
            /\ CheckScope(env, p) # Blocked
            /\ CheckRollback(step, runbook) # Blocked
            /\ CheckEnvironment(step, env, p) = Approved
  BY DEF validateSingleAction, Approved, Blocked
<1>2. CheckForbidden(step.action, p) # Blocked <=> step.action \notin p.forbidden
  BY DEF CheckForbidden, Approved, Blocked
<1>3. CheckBlastRadiusAction(step.action, p) # Blocked
        <=> (p.forbidDelete => step.action # "delete")
  BY DEF CheckBlastRadiusAction, Approved, Blocked
<1>4. CheckScope(env, p) # Blocked <=> (p.scope # {} => env \in p.scope)
  BY DEF CheckScope, Approved, Blocked
<1>5. CheckRollback(step, runbook) # Blocked
        <=> (runbook.rollback = {} => step.risk = "low" /\ step.autoApprove)
  BY DEF CheckRollback, Approved, Blocked
<1>6. CheckEnvironment(step, env, p) = Approved
        <=> env # "production" /\ step.risk \notin p.requireApprovalFor
  BY DEF CheckEnvironment, Approved, RequiresApproval
<1> QED BY <1>1, <1>2, <1>3, <1>4, <1>5, <1>6 DEF Cleared

-----------------------------------------------------------------------------
\* q allows nothing that p does not.
Tighter(p, q) ==
    /\ p.forbidden \subseteq q.forbidden
    /\ p.requireApprovalFor \subseteq q.requireApprovalFor
    /\ p.forbidDelete => q.forbidDelete
    /\ p.scope # {} => q.scope # {} /\ q.scope \subseteq p.scope
    /\ p.maxPods > 0 => q.maxPods > 0 /\ q.maxPods <= p.maxPods
    /\ p.maxNamespaces > 0 => /\ q.maxNamespaces > 0
                              /\ q.maxNamespaces <= p.maxNamespaces

\* Under a tighter policy a step that is not blocked was not blocked before, and
\* one that is approved was approved before.
LEMMA TighterIsStricter ==
    ASSUME NEW p, NEW q, Tighter(p, q), p.forbidDelete \in BOOLEAN,
           q.forbidDelete \in BOOLEAN, NEW step, NEW runbook, NEW env
    PROVE  Strictness(validateSingleAction(step, p, runbook, env))
             <= Strictness(validateSingleAction(step, q, runbook, env))
<1> DEFINE V(x) == validateSingleAction(step, x, runbook, env)
<1>1. V(p) \in Classification /\ V(q) \in Classification
  BY CheckRange DEF validateSingleAction, Classification
<1>2. V(p) = Blocked => V(q) = Blocked
  <2>1. CheckForbidden(step.action, p) = Blocked
          => CheckForbidden(step.action, q) = Blocked
    BY DEF CheckForbidden, Tighter, Approved, Blocked
  <2>2. CheckBlastRadiusAction(step.action, p) = Blocked
          => CheckBlastRadiusAction(step.action, q) = Blocked
    BY DEF CheckBlastRadiusAction, Tighter, Approved, Blocked
  <2>3. CheckScope(env, p) = Blocked => CheckScope(env, q) = Blocked
    BY DEF CheckScope, Tighter, Approved, Blocked
  <2>4. CheckEnvironment(step, env, p) # Blocked
    BY CheckRange DEF Approved, RequiresApproval, Blocked
  <2> QED BY <2>1, <2>2, <2>3, <2>4 DEF validateSingleAction
<1>3. V(q) = Approved => V(p) # RequiresApproval
  <2>1. CheckEnvironment(step, env, p) = RequiresApproval
          => CheckEnvironment(step, env, q) = RequiresApproval
    BY DEF CheckEnvironment, Tighter, Approved, RequiresApproval
  <2>2. ASSUME V(q) = Approved PROVE CheckEnvironment(step, env, q) = Approved
    BY <2>2 DEF validateSingleAction, Approved, Blocked
  <2>3. ASSUME V(p) = RequiresApproval
        PROVE  CheckEnvironment(step, env, p) = RequiresApproval
    BY <2>3 DEF validateSingleAction, RequiresApproval, Blocked
  <2> QED BY <2>1, <2>2, <2>3 DEF Approved, RequiresApproval
<1> HIDE DEF V
<1>4. Strictness(V(p)) <= Strictness(V(q))
  BY <1>1, <1>2, <1>3, StrictnessValues DEF Classification
<1> QED BY <1>4 DEF V

\* Under a tighter policy no larger blast radius goes unasked.
LEMMA TighterBlastRadius ==
    ASSUME NEW p, NEW q, Tighter(p, q), NEW pods \in Nat, NEW ns \in Nat,
           p.maxPods \in Nat, q.maxPods \in Nat,
           p.maxNamespaces \in Nat, q.maxNamespaces \in Nat
    PROVE  Strictness(CheckBlastRadius(pods, ns, p))
             <= Strictness(CheckBlastRadius(pods, ns, q))
<1>1. CheckBlastRadius(pods, ns, p) = RequiresApproval
        => CheckBlastRadius(pods, ns, q) = RequiresApproval
  BY DEF CheckBlastRadius, Tighter, Approved, RequiresApproval
<1>2. /\ CheckBlastRadius(pods, ns, p) \in {Approved, RequiresApproval}
      /\ CheckBlastRadius(pods, ns, q) \in {Approved, RequiresApproval}
  BY DEF CheckBlastRadius
<1> QED BY <1>1, <1>2, StrictnessValues
=============================================================================
