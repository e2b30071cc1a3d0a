--------------------------- MODULE Operator_proofs --------------------------
(***************************************************************************)
(* Proofs about the operator, for every set of webhook payloads, every     *)
(* reconciler configuration and any number of incidents and restarts.      *)
(***************************************************************************)
EXTENDS Operator, PolicyEngine_proofs, FiniteSetTheorems, SequenceTheorems

\* matchRunbook returns 0 or the position of a runbook for this name and severity.
LEMMA MatchRunbookType ==
    ASSUME NEW rbs \in Seq(Runbook), NEW a, NEW s
    PROVE  /\ matchRunbook(a, s, rbs) \in 0..Len(rbs)
           /\ matchRunbook(a, s, rbs) # 0 =>
                  matchRunbook(a, s, rbs) \in DOMAIN rbs
<1> DEFINE M == {k \in DOMAIN rbs : /\ rbs[k].alertName = a
                                    /\ s \in rbs[k].severity}
           m == CHOOSE k \in M : \A j \in M : k <= j
<1>1. M \subseteq 1..Len(rbs) /\ DOMAIN rbs = 1..Len(rbs) /\ Len(rbs) \in Nat
  BY LenProperties
<1>2. CASE M = {}
  BY <1>1, <1>2 DEF matchRunbook
<1>3. CASE M # {}
  <2>1. \E k \in M : \A j \in M : k <= j
    <3>1. M \subseteq Nat
      BY <1>1
    <3> HIDE DEF M
    <3> QED BY <3>1, <1>3, LeastExists
  <2>2. m \in M
    BY <2>1
  <2>3. matchRunbook(a, s, rbs) = m
    BY <1>3 DEF matchRunbook
  <2> QED BY <1>1, <2>2, <2>3
<1> QED BY <1>2, <1>3

\* What the assumptions on the constants say of the chosen configuration.
LEMMA ConfigType ==
    ASSUME TypeOK
    PROVE  /\ config.policy \in Policy
           /\ config.runbooks \in Seq(Runbook)
           /\ config.failAction \in STRING
           /\ config.reasoner \in BOOLEAN
           /\ Len(config.runbooks) \in Nat
           /\ DOMAIN config.runbooks = 1..Len(config.runbooks)
<1>1. config \in [policy : Policy, runbooks : Seq(Runbook),
                  failAction : STRING, reasoner : BOOLEAN]
  BY ConfigsAssumption DEF TypeOK
<1>2. config.runbooks \in Seq(Runbook)
  BY <1>1
<1> QED BY <1>1, <1>2, LenProperties

\* A matched runbook has a plan, a finite sequence of steps.
LEMMA PlanType ==
    ASSUME TypeOK, NEW k \in DOMAIN config.runbooks
    PROVE  /\ Plan(k) \in Seq(Step)
           /\ Len(Plan(k)) \in Nat
           /\ DOMAIN Plan(k) = 1..Len(Plan(k))
<1>1. config.runbooks[k] \in Runbook
  BY ConfigType, LenProperties, ElementOfSeq
<1>2. Plan(k) \in Seq(Step)
  BY <1>1 DEF Plan, Runbook
<1> QED BY <1>2, LenProperties

\* A payload that is accepted yields an incident in phase Pending.
LEMMA ParsedType ==
    ASSUME NEW payload \in Payloads, Accepts(payload)
    PROVE  ParsedIncident(Head(payload.alerts)) \in Incident
<1>1. payload.alerts \in Seq(Alert) /\ payload.alerts # <<>>
  BY PayloadsAssumption DEF Accepts
<1>2. Head(payload.alerts) \in Alert
  BY <1>1
<1> QED BY <1>2 DEF ParsedIncident, Alert, Incident, Phase

-----------------------------------------------------------------------------
\* The four writes of the phase are written with the same operator.
LEMMA UpdateType ==
    ASSUME TypeOK, NEW id \in 1..nextID, NEW p \in Phase,
           NEW pc \in {"analyze", "execute", "done"},
           NEW k \in 0..Len(config.runbooks), Update(id, p, pc, k)
    PROVE  TypeOK'
<1>1. Len(config.runbooks) \in Nat
  BY ConfigType
<1>2. worker[id] \in Worker /\ k \in Nat
  BY <1>1 DEF TypeOK
<1> DEFINE inc == [worker[id].inc EXCEPT !.phase = p]
<1>3. inc \in Incident
  BY <1>2 DEF Worker, Incident
<1>4. [pc |-> pc, inc |-> inc, runbook |-> k, step |-> worker[id].step] \in Worker
  BY <1>2, <1>3 DEF Worker
<1> HIDE DEF inc
<1>5. /\ incidents' = [incidents EXCEPT ![id] = inc]
      /\ worker' = [worker EXCEPT ![id] =
           [pc |-> pc, inc |-> inc, runbook |-> k, step |-> worker[id].step]]
      /\ UNCHANGED <<config, restarts, nextID, executed>>
  BY DEF Update, inc
<1>6. incidents' \in [1..nextID -> Incident]
  BY <1>3, <1>5 DEF TypeOK
<1>7. worker' \in [1..nextID -> Worker]
  BY <1>4, <1>5 DEF TypeOK
<1>8. \A j \in 1..nextID : worker'[j].runbook \in 0..Len(config.runbooks)
  BY <1>5 DEF TypeOK
<1> QED BY <1>5, <1>6, <1>7, <1>8 DEF TypeOK

\* Every step of a goroutine keeps the types.
LEMMA ReconcileType ==
    ASSUME TypeOK, NEW id \in 1..nextID, Reconcile(id)
    PROVE  TypeOK'
<1> DEFINE w == worker[id]
<1>1. w \in Worker /\ incidents[id] \in Incident
      /\ w.runbook \in 0..Len(config.runbooks)
  BY DEF TypeOK
<1>2. CASE Get(id)
  <2>1. [pc |-> "decide", inc |-> incidents[id], runbook |-> 0, step |-> 1]
          \in Worker
    BY <1>1 DEF Worker
  <2>2. worker' \in [1..nextID -> Worker]
    BY <1>2, <2>1 DEF Get, TypeOK
  <2>3. \A j \in 1..nextID : worker'[j].runbook \in 0..Len(config.runbooks)
    BY <1>2, ConfigType DEF Get, TypeOK
  <2> QED BY <1>2, <2>2, <2>3 DEF Get, TypeOK
<1>3. CASE Decide(id)
  <2> DEFINE k == matchRunbook(w.inc.alertName, w.inc.severity, config.runbooks)
             p == Decision(w.inc, k)
  <2>1. k \in 0..Len(config.runbooks)
    BY ConfigType, MatchRunbookType
  <2>2. p \in Phase
    BY DEF Decision, Phase
  <2> HIDE DEF k, p
  <2>3. \E pc \in {"analyze", "execute", "done"} : Update(id, p, pc, k)
    BY <1>3 DEF Decide, k, p
  <2> QED BY <2>1, <2>2, <2>3, UpdateType
<1>4. CASE Analyzed(id)
  BY <1>1, <1>4, UpdateType DEF Analyzed, Phase
<1>5. CASE Execute(id)
  <2> DEFINE e == [restart |-> restarts, id |-> id, namespace |-> w.inc.namespace,
                   runbook |-> w.runbook, step |-> w.step]
             v == [pc |-> "execute", inc |-> w.inc, runbook |-> w.runbook,
                   step |-> w.step + 1]
  <2>1. e \in Event
    <3>1. id \in 1..MaxRequests /\ restarts \in 0..MaxRestarts
      BY BoundsAssumption DEF TypeOK
    <3>2. w.inc.namespace \in STRING /\ w.runbook \in Nat /\ w.step \in Nat \ {0}
      BY <1>1 DEF Worker, Incident
    <3> QED BY <3>1, <3>2 DEF Event
  <2>2. v \in Worker
    BY <1>1 DEF Worker
  <2>3. executed' \subseteq Event
    BY <1>5, <2>1 DEF Execute, TypeOK
  <2>4. worker' \in [1..nextID -> Worker]
    BY <1>5, <2>2 DEF Execute, TypeOK
  <2>5. \A j \in 1..nextID : worker'[j].runbook \in 0..Len(config.runbooks)
    BY <1>5 DEF Execute, TypeOK
  <2> QED BY <1>5, <2>3, <2>4, <2>5 DEF Execute, TypeOK
<1>6. CASE ExecuteError(id)
  <2> DEFINE v == [pc |-> "fail", inc |-> w.inc, runbook |-> w.runbook,
                   step |-> w.step]
  <2>1. v \in Worker
    BY <1>1 DEF Worker
  <2>2. worker' \in [1..nextID -> Worker]
    BY <1>6, <2>1 DEF ExecuteError, TypeOK
  <2>3. \A j \in 1..nextID : worker'[j].runbook \in 0..Len(config.runbooks)
    BY <1>6 DEF ExecuteError, TypeOK
  <2> QED BY <1>6, <2>2, <2>3 DEF ExecuteError, TypeOK
<1>7. CASE Fail(id)
  BY <1>1, <1>7, UpdateType DEF Fail, Phase
<1>8. CASE Resolve(id)
  BY <1>1, <1>8, UpdateType DEF Resolve, Phase
<1> QED BY <1>2, <1>3, <1>4, <1>5, <1>6, <1>7, <1>8 DEF Reconcile

\* So does a webhook.
LEMMA WebhookType ==
    ASSUME TypeOK, NEW payload \in Payloads, Webhook(payload)
    PROVE  TypeOK'
<1> DEFINE id  == nextID + 1
           inc == ParsedIncident(Head(payload.alerts))
           w   == [pc |-> "get", inc |-> NoIncident, runbook |-> 0, step |-> 1]
<1>1. inc \in Incident
  BY ParsedType DEF Webhook
<1>2. w \in Worker
  BY NoIncidentAssumption DEF Worker
<1> HIDE DEF inc
<1>3. id \in 1..MaxRequests /\ 1..id = 1..nextID \cup {id}
  BY BoundsAssumption DEF Webhook, TypeOK
<1>4. /\ nextID' = id
      /\ incidents' = [i \in 1..id |-> IF i = id THEN inc ELSE incidents[i]]
      /\ worker' = [i \in 1..id |-> IF i = id THEN w ELSE worker[i]]
      /\ UNCHANGED <<config, restarts, executed>>
  BY <1>3 DEF Webhook, TypeOK, inc
<1>5. incidents' \in [1..id -> Incident]
  BY <1>1, <1>3, <1>4 DEF TypeOK
<1>6. worker' \in [1..id -> Worker]
  BY <1>2, <1>3, <1>4 DEF TypeOK
<1>7. \A j \in 1..id : worker'[j].runbook \in 0..Len(config.runbooks)
  BY <1>3, <1>4, ConfigType DEF TypeOK
<1> QED BY <1>3, <1>4, <1>5, <1>6, <1>7 DEF TypeOK

\* And a restart.
LEMMA RestartType == ASSUME TypeOK, Restart PROVE TypeOK'
<1>1. /\ Empty \in [1..0 -> Incident]
      /\ Empty \in [1..0 -> Worker]
  BY DEF Empty
<1> QED BY <1>1, BoundsAssumption DEF Restart, TypeOK

LEMMA TypeInit == Init => TypeOK
<1>1. /\ Empty \in [1..0 -> Incident]
      /\ Empty \in [1..0 -> Worker]
  BY DEF Empty
<1> QED BY <1>1, BoundsAssumption DEF Init, TypeOK

LEMMA TypeStep == TypeOK /\ [Next]_vars => TypeOK'
<1> SUFFICES ASSUME TypeOK, [Next]_vars PROVE TypeOK'
  OBVIOUS
<1>1. ASSUME NEW payload \in Payloads, Webhook(payload) PROVE TypeOK'
  BY <1>1, WebhookType
<1>2. ASSUME NEW id \in DOMAIN worker, Reconcile(id) PROVE TypeOK'
  <2>1. id \in 1..nextID
    BY <1>2 DEF TypeOK
  <2> QED BY <1>2, <2>1, ReconcileType
<1>3. CASE Restart
  BY <1>3, RestartType
<1>4. CASE UNCHANGED vars
  BY <1>4 DEF vars, TypeOK
<1> QED BY <1>1, <1>2, <1>3, <1>4 DEF Next

\* Stored incidents, goroutines, ids and the record of what ran keep their
\* shapes, for every configuration and payload.
THEOREM TypeCorrect == Spec => []TypeOK
  BY TypeInit, TypeStep, PTL DEF Spec

-----------------------------------------------------------------------------
\* A step that leaves an incident and its goroutine alone keeps WorkerOK.
LEMMA Frame ==
    ASSUME NEW j \in 1..nextID, WorkerOK(j), worker'[j] = worker[j],
           incidents'[j] = incidents[j], config' = config,
           restarts' = restarts, StepsRun(j)' = StepsRun(j)
    PROVE  WorkerOK(j)'
<1>1. \A k : StepOf(j, k)' = StepOf(j, k)
  BY DEF StepOf
<1>2. \A k, ns : PlanCleared(k, ns)' = PlanCleared(k, ns)
  BY DEF PlanCleared, Plan
<1>3. \A k : Plan(k)' = Plan(k)
  BY DEF Plan
<1> QED BY <1>1, <1>2, <1>3 DEF WorkerOK

\* A step of one goroutine that runs nothing keeps the invariant if it leaves
\* that goroutine in order.
LEMMA Quiet ==
    ASSUME IInv, TypeOK', NEW id \in 1..nextID, WorkerOK(id)',
           UNCHANGED <<config, restarts, nextID, executed>>,
           \A j \in 1..nextID \ {id} : /\ worker'[j] = worker[j]
                                      /\ incidents'[j] = incidents[j]
    PROVE  IInv'
<1>1. \A j : StepsRun(j)' = StepsRun(j)
  BY DEF StepsRun
<1>2. \A j \in 1..nextID : WorkerOK(j)'
  BY <1>1, Frame DEF IInv
<1>3. ExecutedIsCleared'
  BY DEF IInv, ExecutedIsCleared, Plan
<1>4. ExecutedInOrder'
  BY DEF IInv, ExecutedInOrder
<1> QED BY <1>2, <1>3, <1>4 DEF IInv

\* An incident before its goroutine's first write has had no step run.
LEMMA NothingRun ==
    ASSUME NEW id, WorkerOK(id), worker[id].step = 1
    PROVE  StepsRun(id) = {}
  BY DEF WorkerOK

LEMMA GetInv ==
    ASSUME IInv, TypeOK', NEW id \in 1..nextID, Get(id)
    PROVE  IInv'
<1>1. /\ UNCHANGED <<config, restarts, nextID, incidents, executed>>
      /\ worker[id].pc = "get"
      /\ worker'[id] = [pc |-> "decide", inc |-> incidents[id],
                        runbook |-> 0, step |-> 1]
      /\ \A j \in 1..nextID \ {id} : worker'[j] = worker[j]
  BY DEF Get, IInv, TypeOK
<1>2. WorkerOK(id)
  BY DEF IInv
<1>3. StepsRun(id)' = {}
  <2>1. worker[id].step = 1
    BY <1>1, <1>2 DEF WorkerOK
  <2> QED BY <1>1, <1>2, <2>1, NothingRun DEF StepsRun
<1>4. WorkerOK(id)'
  BY <1>1, <1>2, <1>3 DEF WorkerOK
<1> QED BY <1>1, <1>4, Quiet

\* What Update leaves behind for the incident it writes.
LEMMA UpdateEffect ==
    ASSUME IInv, NEW id \in 1..nextID, NEW p, NEW pc, NEW k, Update(id, p, pc, k),
           worker[id].pc # "get"
    PROVE  /\ UNCHANGED <<config, restarts, nextID, executed>>
           /\ incidents'[id].phase = p
           /\ incidents'[id].alertName = incidents[id].alertName
           /\ incidents'[id].severity = incidents[id].severity
           /\ incidents'[id].namespace = incidents[id].namespace
           /\ worker'[id] = [pc |-> pc, inc |-> incidents'[id], runbook |-> k,
                             step |-> worker[id].step]
           /\ \A j \in 1..nextID \ {id} : /\ worker'[j] = worker[j]
                                         /\ incidents'[j] = incidents[j]
           /\ StepsRun(id)' = StepsRun(id)
<1>1. worker[id].inc = incidents[id] /\ incidents[id] \in Incident
  BY DEF IInv, WorkerOK, TypeOK
<1>2. /\ incidents' = [incidents EXCEPT ![id] = [incidents[id] EXCEPT !.phase = p]]
      /\ worker' = [worker EXCEPT ![id] =
             [pc |-> pc, inc |-> [incidents[id] EXCEPT !.phase = p], runbook |-> k,
              step |-> worker[id].step]]
      /\ UNCHANGED <<config, restarts, nextID, executed>>
  BY <1>1 DEF Update
<1>3. incidents'[id] = [incidents[id] EXCEPT !.phase = p]
  BY <1>2 DEF IInv, TypeOK
<1>4. /\ incidents'[id].phase = p
      /\ incidents'[id].alertName = incidents[id].alertName
      /\ incidents'[id].severity = incidents[id].severity
      /\ incidents'[id].namespace = incidents[id].namespace
  BY <1>1, <1>3 DEF Incident
<1>5. worker'[id] = [pc |-> pc, inc |-> incidents'[id], runbook |-> k,
                     step |-> worker[id].step]
  BY <1>2, <1>3 DEF IInv, TypeOK
<1>6. \A j \in 1..nextID \ {id} : /\ worker'[j] = worker[j]
                                  /\ incidents'[j] = incidents[j]
  BY <1>2 DEF IInv, TypeOK
<1> QED BY <1>2, <1>3, <1>4, <1>5, <1>6 DEF StepsRun

\* A plan is started only if it is cleared as a whole, and failed only if there
\* is no runbook or a step to block.
LEMMA DecisionMeaning ==
    ASSUME TypeOK, NEW inc \in Incident, NEW k \in 0..Len(config.runbooks),
           NEW p, p = Decision(inc, k)
    PROVE  /\ p \in {"Failed", "Analyzing", "RequiresApproval", "Executing"}
           /\ p = "Executing" => /\ k # 0 /\ ~config.reasoner
                                /\ PlanCleared(k, inc.namespace)
           /\ p = "Analyzing" => k # 0 /\ config.reasoner
           /\ p = "Failed" => k = 0 \/ 1 <= Len(Plan(k))
<1>1. CASE k = 0
  BY <1>1 DEF Decision
<1>2. CASE k # 0 /\ config.reasoner
  BY <1>2 DEF Decision
<1>3. CASE k # 0 /\ ~config.reasoner
  <2> DEFINE rb == config.runbooks[k]
             v  == ValidatePlan(Plan(k), config.policy, rb, inc.namespace)
             Some(c) == \E i \in DOMAIN v : v[i] = c
  <2>1. k \in DOMAIN config.runbooks
    BY <1>3, ConfigType
  <2>2. /\ Plan(k) \in Seq(Step)
        /\ Len(Plan(k)) \in Nat
        /\ DOMAIN Plan(k) = 1..Len(Plan(k))
    BY <2>1, PlanType
  <2>3. /\ DOMAIN v = DOMAIN Plan(k)
        /\ \A i \in DOMAIN Plan(k) :
              v[i] = validateSingleAction(Plan(k)[i], config.policy, rb,
                                          inc.namespace)
    BY DEF ValidatePlan
  <2>4. p = IF Some(Blocked) THEN "Failed"
            ELSE IF Some(RequiresApproval) THEN "RequiresApproval"
            ELSE "Executing"
    BY <1>3 DEF Decision
  <2>5. ASSUME p = "Executing" PROVE PlanCleared(k, inc.namespace)
    <3> SUFFICES ASSUME NEW i \in DOMAIN Plan(k)
                 PROVE  Cleared(Plan(k)[i], config.policy, rb, inc.namespace)
      BY DEF PlanCleared
    <3>1. v[i] # Blocked /\ v[i] # RequiresApproval
      BY <2>3, <2>4, <2>5
    <3>2. v[i] \in Classification
      BY <2>3, CheckRange DEF validateSingleAction, Classification
    <3>3. validateSingleAction(Plan(k)[i], config.policy, rb, inc.namespace)
            = Approved
      BY <2>3, <3>1, <3>2 DEF Classification
    <3>4. Plan(k)[i] \in Step
      BY <2>2, ElementOfSeq
    <3>5. Plan(k)[i].autoApprove \in BOOLEAN /\ config.policy.forbidDelete \in BOOLEAN
      BY <3>4, ConfigType DEF Step, Policy
    <3> QED BY <3>3, <3>5, ApprovedIsCleared
  <2>6. ASSUME p = "Failed" PROVE 1 <= Len(Plan(k))
    <3>1. Some(Blocked)
      BY <2>4, <2>6
    <3> QED BY <2>2, <2>3, <3>1
  <2> HIDE DEF Some
  <2> QED BY <1>3, <2>4, <2>5, <2>6
<1> QED BY <1>1, <1>2, <1>3, ConfigType

\* Every goroutine's decision keeps the invariant.
LEMMA DecideInv ==
    ASSUME IInv, TypeOK', NEW id \in 1..nextID, Decide(id)
    PROVE  IInv'
<1> DEFINE inc == worker[id].inc
           Point(p) == CASE p = "Executing" -> "execute"
                         [] p = "Analyzing" -> "analyze"
                         [] OTHER           -> "done"
<1>1. WorkerOK(id) /\ TypeOK /\ worker[id].pc = "decide"
  BY DEF IInv, Decide
<1>2. /\ inc = incidents[id] /\ inc \in Incident
      /\ worker[id].step = 1 /\ StepsRun(id) = {}
  BY <1>1, NothingRun DEF WorkerOK, TypeOK
<1>3. PICK k, p, pc : /\ k = matchRunbook(inc.alertName, inc.severity,
                                          config.runbooks)
                      /\ p = Decision(inc, k)
                      /\ pc = Point(p)
                      /\ Update(id, p, pc, k)
  BY DEF Decide
<1>4. k \in 0..Len(config.runbooks)
  BY <1>1, <1>3, ConfigType, MatchRunbookType
<1>5. /\ p \in {"Failed", "Analyzing", "RequiresApproval", "Executing"}
      /\ p = "Executing" => /\ k # 0 /\ ~config.reasoner
                           /\ PlanCleared(k, inc.namespace)
      /\ p = "Analyzing" => k # 0 /\ config.reasoner
      /\ p = "Failed" => k = 0 \/ 1 <= Len(Plan(k))
  BY <1>1, <1>2, <1>3, <1>4, DecisionMeaning
<1>6. /\ UNCHANGED <<config, restarts, nextID, executed>>
      /\ incidents'[id].phase = p
      /\ incidents'[id].alertName = inc.alertName
      /\ incidents'[id].severity = inc.severity
      /\ incidents'[id].namespace = inc.namespace
      /\ worker'[id] = [pc |-> pc, inc |-> incidents'[id], runbook |-> k, step |-> 1]
      /\ \A j \in 1..nextID \ {id} : /\ worker'[j] = worker[j]
                                    /\ incidents'[j] = incidents[j]
      /\ StepsRun(id)' = {}
  <2>1. worker[id].pc # "get"
    BY <1>1
  <2>2. Update(id, p, pc, k)
    BY <1>3
  <2>3. /\ UNCHANGED <<config, restarts, nextID, executed>>
        /\ incidents'[id].phase = p
        /\ incidents'[id].alertName = incidents[id].alertName
        /\ incidents'[id].severity = incidents[id].severity
        /\ incidents'[id].namespace = incidents[id].namespace
        /\ worker'[id] = [pc |-> pc, inc |-> incidents'[id], runbook |-> k,
                          step |-> worker[id].step]
        /\ \A j \in 1..nextID \ {id} : /\ worker'[j] = worker[j]
                                      /\ incidents'[j] = incidents[j]
        /\ StepsRun(id)' = StepsRun(id)
    BY <2>1, <2>2, UpdateEffect
  <2> QED BY <1>2, <2>3
<1>7. k = 0 \/ Len(Plan(k)) \in Nat
  BY <1>1, <1>4, ConfigType, PlanType
<1>8. WorkerOK(id)'
  <2>1. PlanCleared(k, inc.namespace) => PlanCleared(k, incidents[id].namespace)'
    BY <1>6 DEF PlanCleared, Plan
  <2>2. Plan(k)' = Plan(k)
    BY <1>6 DEF Plan
  <2>3. k = matchRunbook(incidents'[id].alertName, incidents'[id].severity,
                         config'.runbooks)
    BY <1>3, <1>6
  <2> QED BY <1>3, <1>5, <1>6, <1>7, <2>1, <2>2, <2>3 DEF WorkerOK
<1> QED BY <1>6, <1>8, Quiet

\* A goroutine that has matched a runbook has a plan of finite length.
LEMMA RunningPlan ==
    ASSUME IInv, NEW id \in 1..nextID,
           worker[id].pc \in {"analyze", "execute", "fail"}
    PROVE  /\ worker[id].runbook \in DOMAIN config.runbooks
           /\ Len(Plan(worker[id].runbook)) \in Nat
           /\ DOMAIN Plan(worker[id].runbook) = 1..Len(Plan(worker[id].runbook))
           /\ Plan(worker[id].runbook) \in Seq(Step)
<1>1. worker[id].runbook \in 0..Len(config.runbooks) /\ worker[id].runbook # 0
  BY DEF IInv, TypeOK, WorkerOK
<1>2. TypeOK
  BY DEF IInv
<1>3. worker[id].runbook \in DOMAIN config.runbooks
  BY <1>1, <1>2, ConfigType
<1> QED BY <1>2, <1>3, PlanType

\* The writes after the plan was accepted: to Executing once the reasoner has
\* answered, to Failed after an error, to Resolved at the end of the plan.
LEMMA LaterUpdate ==
    ASSUME IInv, TypeOK', NEW id \in 1..nextID, NEW p, NEW pc, NEW k,
           k = worker[id].runbook, Update(id, p, pc, k),
           \/ worker[id].pc = "analyze" /\ p = "Executing" /\ pc = "execute"
           \/ worker[id].pc = "fail" /\ p = "Failed" /\ pc = "done"
           \/ /\ worker[id].pc = "execute" /\ ~StepsLeft(id)
              /\ p = "Resolved" /\ pc = "done"
    PROVE  IInv'
<1>1. WorkerOK(id) /\ worker[id].pc # "get" /\ worker[id] \in Worker
  BY DEF IInv, TypeOK
<1>2. k # 0 /\ Len(Plan(k)) \in Nat
  BY RunningPlan DEF IInv, WorkerOK
<1>3. /\ UNCHANGED <<config, restarts, nextID, executed>>
      /\ incidents'[id].phase = p
      /\ incidents'[id].alertName = incidents[id].alertName
      /\ incidents'[id].severity = incidents[id].severity
      /\ incidents'[id].namespace = incidents[id].namespace
      /\ worker'[id] = [pc |-> pc, inc |-> incidents'[id], runbook |-> k,
                        step |-> worker[id].step]
      /\ \A j \in 1..nextID \ {id} : /\ worker'[j] = worker[j]
                                    /\ incidents'[j] = incidents[j]
      /\ StepsRun(id)' = StepsRun(id)
  BY <1>1, UpdateEffect
<1>4. WorkerOK(id)'
  <2>1. Plan(k)' = Plan(k)
    BY <1>3 DEF Plan
  <2>2. \A i : StepOf(id, i)' = StepOf(id, i)
    BY <1>3 DEF StepOf
  <2>3. k = matchRunbook(incidents'[id].alertName, incidents'[id].severity,
                         config'.runbooks)
    BY <1>1, <1>3 DEF WorkerOK
  <2>4. StepsRun(id)' = {StepOf(id, i)' : i \in 1..(worker[id].step - 1)}
    BY <1>1, <1>3, <2>2 DEF WorkerOK
  <2>5. CASE worker[id].pc = "analyze"
    <3>1. /\ p = "Executing" /\ pc = "execute"
          /\ worker[id].step = 1 /\ config.reasoner
      BY <1>1, <2>5 DEF WorkerOK
    <3>2. config'.reasoner /\ 1 <= Len(Plan(k)) + 1
      BY <1>2, <1>3, <3>1
    <3> QED BY <1>2, <1>3, <2>1, <2>3, <2>4, <3>1, <3>2 DEF WorkerOK
  <2>6. CASE worker[id].pc = "fail"
    <3>1. p = "Failed" /\ pc = "done"
      BY <2>6
    <3>2. worker[id].step <= Len(Plan(k)) /\ worker[id].step >= 1
      BY <1>1, <2>6 DEF WorkerOK
    <3> QED BY <1>2, <1>3, <2>1, <2>3, <2>4, <3>1, <3>2 DEF WorkerOK
  <2>7. CASE worker[id].pc = "execute"
    <3>1. p = "Resolved" /\ pc = "done" /\ ~StepsLeft(id)
      BY <2>7
    <3>2. worker[id].step = Len(Plan(k)) + 1
      BY <1>1, <1>2, <2>7, <3>1 DEF WorkerOK, StepsLeft, Worker
    <3>3. worker[id].step >= 1
      BY <1>1 DEF WorkerOK
    <3> QED BY <1>2, <1>3, <2>1, <2>3, <2>4, <3>1, <3>2, <3>3 DEF WorkerOK
  <2> QED BY <2>5, <2>6, <2>7
<1> QED BY <1>3, <1>4, Quiet

LEMMA ExecuteErrorInv ==
    ASSUME IInv, TypeOK', NEW id \in 1..nextID, ExecuteError(id)
    PROVE  IInv'
<1>1. /\ UNCHANGED <<config, restarts, nextID, incidents, executed>>
      /\ worker[id].pc = "execute" /\ StepsLeft(id)
      /\ worker'[id] = [pc |-> "fail", inc |-> worker[id].inc,
                        runbook |-> worker[id].runbook, step |-> worker[id].step]
      /\ \A j \in 1..nextID \ {id} : worker'[j] = worker[j]
  BY DEF ExecuteError, IInv, TypeOK
<1>2. WorkerOK(id)
  BY DEF IInv
<1>3. StepsRun(id)' = StepsRun(id)
  BY <1>1 DEF StepsRun
<1>4. \A i : StepOf(id, i)' = StepOf(id, i)
  BY <1>1 DEF StepOf
<1>5. /\ \A r, ns : PlanCleared(r, ns)' = PlanCleared(r, ns)
      /\ \A r : Plan(r)' = Plan(r)
  BY <1>1 DEF PlanCleared, Plan
<1>6. WorkerOK(id)'
  BY <1>1, <1>2, <1>3, <1>4, <1>5 DEF WorkerOK, StepsLeft
<1> QED BY <1>1, <1>6, Quiet

\* Running one step extends what ran by that step, which is cleared because the
\* whole plan is.
LEMMA ExecuteInv ==
    ASSUME IInv, TypeOK', NEW id \in 1..nextID, Execute(id)
    PROVE  IInv'
<1> DEFINE w == worker[id]
           e == [restart |-> restarts, id |-> id, namespace |-> w.inc.namespace,
                 runbook |-> w.runbook, step |-> w.step]
<1>1. /\ UNCHANGED <<config, restarts, nextID, incidents>>
      /\ w.pc = "execute" /\ StepsLeft(id)
      /\ executed' = executed \cup {e}
      /\ worker'[id] = [pc |-> "execute", inc |-> w.inc,
                        runbook |-> w.runbook, step |-> w.step + 1]
      /\ \A j \in 1..nextID \ {id} : worker'[j] = worker[j]
  BY DEF Execute, IInv, TypeOK
<1>2. /\ WorkerOK(id) /\ w.inc = incidents[id]
      /\ w.step \in Nat \ {0} /\ w.step <= Len(Plan(w.runbook))
  BY <1>1 DEF IInv, TypeOK, WorkerOK, Worker, StepsLeft
<1>3. /\ w.runbook \in DOMAIN config.runbooks
      /\ Len(Plan(w.runbook)) \in Nat
  BY <1>1, RunningPlan
<1>4. e = StepOf(id, w.step)
  BY <1>2 DEF StepOf
<1>5. StepsRun(id) = {StepOf(id, k) : k \in 1..(w.step - 1)}
  BY <1>2 DEF WorkerOK
<1>6. StepsRun(id)' = StepsRun(id) \cup {e}
  BY <1>1 DEF StepsRun
<1>7. /\ \A r, ns : PlanCleared(r, ns)' = PlanCleared(r, ns)
      /\ \A r : Plan(r)' = Plan(r)
      /\ \A k : StepOf(id, k)' = StepOf(id, k)
  BY <1>1 DEF PlanCleared, Plan, StepOf
<1> HIDE DEF e
<1>8. StepsRun(id)' = {StepOf(id, k)' : k \in 1..((w.step + 1) - 1)}
  BY <1>2, <1>4, <1>5, <1>6, <1>7
<1>9. WorkerOK(id)'
  BY <1>1, <1>2, <1>3, <1>7, <1>8 DEF WorkerOK
<1>10. \A j \in 1..nextID \ {id} : WorkerOK(j)'
  <2> SUFFICES ASSUME NEW j \in 1..nextID \ {id} PROVE WorkerOK(j)'
    OBVIOUS
  <2>1. StepsRun(j)' = StepsRun(j)
    BY <1>1 DEF StepsRun, e
  <2>2. worker'[j] = worker[j] /\ incidents'[j] = incidents[j] /\ WorkerOK(j)
    BY <1>1 DEF IInv
  <2> QED BY <1>1, <2>1, <2>2, Frame
<1>11. ExecutedIsCleared'
  <2>1. ASSUME ~config.reasoner PROVE PlanCleared(w.runbook, incidents[id].namespace)
    BY <1>1, <1>2, <2>1 DEF WorkerOK
  <2>2. e.runbook = w.runbook /\ e.namespace = incidents[id].namespace
    BY <1>2 DEF e
  <2> QED BY <1>1, <2>1, <2>2 DEF ExecutedIsCleared, PlanCleared, Plan, IInv
<1>12. ExecutedInOrder'
  <2> SUFFICES ASSUME NEW d \in executed', NEW k \in 1..(d.step - 1)
               PROVE  [d EXCEPT !.step = k] \in executed'
    BY DEF ExecutedInOrder
  <2>1. CASE d \in executed
    BY <1>1, <2>1 DEF IInv, ExecutedInOrder
  <2>2. CASE d = e
    <3>1. k \in 1..(w.step - 1)
      BY <2>2 DEF e
    <3>2. [d EXCEPT !.step = k] = StepOf(id, k)
      BY <1>2, <2>2 DEF StepOf, e
    <3>3. StepOf(id, k) \in StepsRun(id)
      BY <1>5, <3>1
    <3> QED BY <1>1, <3>2, <3>3 DEF StepsRun
  <2> QED BY <1>1, <2>1, <2>2
<1>13. IsFiniteSet(executed')
  BY <1>1, FS_AddElement DEF IInv
<1>14. \A d \in executed' : /\ d.runbook \in DOMAIN config'.runbooks
                            /\ d.restart <= restarts'
                            /\ d.restart = restarts' => d.id \in 1..nextID'
  <2>1. e.runbook = w.runbook /\ e.restart = restarts /\ e.id = id
    BY DEF e
  <2>2. restarts \in Nat
    BY DEF IInv, TypeOK
  <2> QED BY <1>1, <1>3, <2>1, <2>2 DEF IInv
<1> QED BY <1>1, <1>9, <1>10, <1>11, <1>12, <1>13, <1>14 DEF IInv

LEMMA ReconcileInv ==
    ASSUME IInv, TypeOK', NEW id \in 1..nextID, Reconcile(id)
    PROVE  IInv'
<1>1. PICK k : k = worker[id].runbook
  OBVIOUS
<1>2. CASE Get(id)
  BY <1>2, GetInv
<1>3. CASE Decide(id)
  BY <1>3, DecideInv
<1>4. CASE Analyzed(id)
  BY <1>1, <1>4, LaterUpdate DEF Analyzed
<1>5. CASE Execute(id)
  BY <1>5, ExecuteInv
<1>6. CASE ExecuteError(id)
  BY <1>6, ExecuteErrorInv
<1>7. CASE Fail(id)
  BY <1>1, <1>7, LaterUpdate DEF Fail
<1>8. CASE Resolve(id)
  BY <1>1, <1>8, LaterUpdate DEF Resolve
<1> QED BY <1>2, <1>3, <1>4, <1>5, <1>6, <1>7, <1>8 DEF Reconcile

\* A webhook's id is fresh: nothing has run under it since the last restart.
LEMMA WebhookInv ==
    ASSUME IInv, TypeOK', NEW payload \in Payloads, Webhook(payload)
    PROVE  IInv'
<1>. PICK id : id = nextID + 1
  OBVIOUS
<1>1. /\ UNCHANGED <<config, restarts, executed>>
      /\ nextID' = id /\ nextID \in Nat
      /\ 1..id = 1..nextID \cup {id} /\ id \notin 1..nextID
  BY BoundsAssumption DEF Webhook, IInv, TypeOK
<1>2. /\ incidents'[id] = ParsedIncident(Head(payload.alerts))
      /\ worker'[id] = [pc |-> "get", inc |-> NoIncident, runbook |-> 0, step |-> 1]
      /\ \A j \in 1..nextID : /\ incidents'[j] = incidents[j]
                             /\ worker'[j] = worker[j]
  BY <1>1 DEF Webhook, IInv, TypeOK
<1>3. incidents'[id].phase = "Pending"
  BY <1>2 DEF ParsedIncident
<1>4. \A j : StepsRun(j)' = StepsRun(j)
  BY <1>1 DEF StepsRun
<1>5. \A j \in 1..nextID : WorkerOK(j)'
  BY <1>1, <1>2, <1>4, Frame DEF IInv
<1>6. WorkerOK(id)'
  <2>1. StepsRun(id)' = {}
    BY <1>1, <1>4 DEF StepsRun, IInv
  <2> QED BY <1>2, <1>3, <2>1 DEF WorkerOK
<1>7. ExecutedIsCleared' /\ ExecutedInOrder'
  BY <1>1 DEF IInv, ExecutedIsCleared, ExecutedInOrder, Plan
<1>8. \A e \in executed' : /\ e.runbook \in DOMAIN config'.runbooks
                           /\ e.restart <= restarts'
                           /\ e.restart = restarts' => e.id \in 1..nextID'
  BY <1>1 DEF IInv
<1> QED BY <1>1, <1>5, <1>6, <1>7, <1>8 DEF IInv

\* After a restart no incident is known, and what ran ran before.
LEMMA RestartInv ==
    ASSUME IInv, TypeOK', Restart
    PROVE  IInv'
<1>1. /\ UNCHANGED <<config, executed>>
      /\ restarts' = restarts + 1 /\ nextID' = 0 /\ restarts \in Nat
  BY BoundsAssumption DEF Restart, IInv, TypeOK
<1>2. \A e \in executed' : /\ e.runbook \in DOMAIN config'.runbooks
                           /\ e.restart < restarts'
  <2>1. \A e \in executed : e.restart \in Nat
    BY BoundsAssumption DEF IInv, TypeOK, Event
  <2> QED BY <1>1, <2>1 DEF IInv
<1>3. ExecutedIsCleared' /\ ExecutedInOrder'
  BY <1>1 DEF IInv, ExecutedIsCleared, ExecutedInOrder, Plan
<1>4. \A j \in 1..nextID' : WorkerOK(j)'
  BY <1>1
<1>5. \A e \in executed' : e.restart \in Nat /\ restarts' \in Nat
  BY <1>1, BoundsAssumption DEF IInv, TypeOK, Event
<1> QED BY <1>1, <1>2, <1>3, <1>4, <1>5 DEF IInv

LEMMA InvInit == Init => IInv
<1> SUFFICES ASSUME Init PROVE IInv
  OBVIOUS
<1>1. TypeOK /\ nextID = 0 /\ executed = {}
  BY TypeInit DEF Init
<1> QED BY <1>1, FS_EmptySet DEF IInv, ExecutedIsCleared, ExecutedInOrder

LEMMA InvStep == IInv /\ [Next]_vars => IInv'
<1> SUFFICES ASSUME IInv, [Next]_vars PROVE IInv'
  OBVIOUS
<1>1. TypeOK'
  BY TypeStep DEF IInv
<1>2. ASSUME NEW payload \in Payloads, Webhook(payload) PROVE IInv'
  BY <1>1, <1>2, WebhookInv
<1>3. ASSUME NEW id \in DOMAIN worker, Reconcile(id) PROVE IInv'
  <2>1. id \in 1..nextID
    BY <1>3 DEF IInv, TypeOK
  <2> QED BY <1>1, <1>3, <2>1, ReconcileInv
<1>4. CASE Restart
  BY <1>1, <1>4, RestartInv
<1>5. CASE UNCHANGED vars
  <2>1. UNCHANGED <<config, restarts, nextID, incidents, worker, executed>>
    BY <1>5 DEF vars
  <2>2. \A j \in 1..nextID : WorkerOK(j)'
    BY <2>1, Frame DEF IInv, StepsRun
  <2>3. ExecutedIsCleared' /\ ExecutedInOrder'
    BY <2>1 DEF IInv, ExecutedIsCleared, ExecutedInOrder, Plan
  <2> QED BY <1>1, <2>1, <2>2, <2>3 DEF IInv
<1> QED BY <1>2, <1>3, <1>4, <1>5 DEF Next

\* The inductive invariant holds in every reachable state.
THEOREM Invariance == Spec => []IInv
  BY InvInit, InvStep, PTL DEF Spec

\* Without a reasoner nothing runs on the cluster unless its whole plan is cleared
\* by the policy, whatever the webhooks, restarts and interleavings.
THEOREM NothingRunsUncleared == Spec => []ExecutedIsCleared
<1>1. IInv => ExecutedIsCleared
  BY DEF IInv
<1> QED BY <1>1, Invariance, PTL

\* Only a step of the plan the goroutine runs is ever handed to the executor.
RanOfPlan == \A e \in executed : e.step \in DOMAIN Plan(e.runbook)

LEMMA RanOfPlanStep ==
    ASSUME IInv, RanOfPlan, [Next]_vars
    PROVE  RanOfPlan'
<1>1. ASSUME UNCHANGED <<config, executed>> PROVE RanOfPlan'
  BY <1>1 DEF RanOfPlan, Plan
<1>2. ASSUME NEW id \in DOMAIN worker, Execute(id) PROVE RanOfPlan'
  <2>1. id \in 1..nextID
    BY <1>2 DEF IInv, TypeOK
  <2>2. worker[id].runbook \in DOMAIN config.runbooks
    BY <1>2, <2>1, RunningPlan DEF Execute
  <2>3. DOMAIN Plan(worker[id].runbook) = 1..Len(Plan(worker[id].runbook))
    BY <2>2, PlanType DEF IInv
  <2>4. worker[id].step \in Nat \ {0}
    BY <2>1 DEF IInv, TypeOK, Worker
  <2>5. worker[id].step <= Len(Plan(worker[id].runbook))
    BY <1>2 DEF Execute, StepsLeft
  <2>6. Len(Plan(worker[id].runbook)) \in Nat
    BY <2>2, PlanType DEF IInv
  <2>7. worker[id].step \in DOMAIN Plan(worker[id].runbook)
    BY <2>3, <2>4, <2>5, <2>6
  <2>8. \A e \in executed' :
            \/ e \in executed
            \/ e.runbook = worker[id].runbook /\ e.step = worker[id].step
    BY <1>2 DEF Execute
  <2>9. config' = config
    BY <1>2 DEF Execute
  <2> QED BY <2>7, <2>8, <2>9 DEF RanOfPlan, Plan
<1>3. ASSUME NEW payload \in Payloads, Webhook(payload) PROVE RanOfPlan'
  BY <1>1, <1>3 DEF Webhook
<1>4. ASSUME NEW id \in DOMAIN worker, Reconcile(id) PROVE RanOfPlan'
  BY <1>1, <1>2, <1>4 DEF Reconcile, Get, Decide, Analyzed, ExecuteError, Fail,
                         Resolve, Update
<1>5. CASE Restart
  BY <1>1, <1>5 DEF Restart
<1>6. CASE UNCHANGED vars
  BY <1>1, <1>6 DEF vars
<1> QED BY <1>3, <1>4, <1>5, <1>6 DEF Next

\* Where the reconciler with a reasoner runs plans in production unasked, the one
\* with the policy engine never does, and what it runs is itself cleared: neither
\* forbidden, nor out of scope, nor of a risk that needs an approval
\* (reconciler.go:80-96; requirements.md:92).
THEOREM EngineKeepsProductionManual ==
    Spec => [](~config.reasoner =>
                   /\ ProductionNeedsApproval
                   /\ \A e \in executed :
                          Cleared(Plan(e.runbook)[e.step], config.policy,
                                  config.runbooks[e.runbook], e.namespace))
<1>1. Init => RanOfPlan
  BY DEF Init, RanOfPlan
<1>2. IInv /\ RanOfPlan /\ [Next]_vars => RanOfPlan'
  BY RanOfPlanStep
<1>3. ASSUME IInv, RanOfPlan, ~config.reasoner
      PROVE  /\ ProductionNeedsApproval
             /\ \A e \in executed :
                    Cleared(Plan(e.runbook)[e.step], config.policy,
                            config.runbooks[e.runbook], e.namespace)
  <2>1. ASSUME NEW e \in executed
        PROVE  Cleared(Plan(e.runbook)[e.step], config.policy,
                       config.runbooks[e.runbook], e.namespace)
    BY <1>3 DEF IInv, RanOfPlan, ExecutedIsCleared
  <2>2. ProductionNeedsApproval
    BY <2>1 DEF Cleared, ProductionNeedsApproval
  <2> QED BY <2>1, <2>2
<1> QED BY <1>1, <1>2, <1>3, Invariance, PTL DEF Spec

\* Steps run in plan order and none after one that failed.
THEOREM PlansRunInOrder == Spec => []ExecutedInOrder
<1>1. IInv => ExecutedInOrder
  BY DEF IInv
<1> QED BY <1>1, Invariance, PTL

\* The phase a reader finds in the store tells what ran: all of a matching plan
\* if Resolved, not all of it if Failed, nothing before Executing.
THEOREM PhasesTellTheTruth == Spec => []PhaseIsTruthful
<1>1. IInv => PhaseIsTruthful
  <2> SUFFICES ASSUME IInv, NEW id \in 1..nextID
               PROVE  LET inc == incidents[id]
                          k   == matchRunbook(inc.alertName, inc.severity,
                                              config.runbooks)
                          ran == {e.step : e \in StepsRun(id)}
                      IN  CASE inc.phase = "Resolved" ->
                                 k # 0 /\ ran = DOMAIN Plan(k)
                            [] inc.phase = "Failed" ->
                                 k # 0 => ran # DOMAIN Plan(k)
                            [] inc.phase = "Executing" ->
                                 k # 0 /\ ran \subseteq DOMAIN Plan(k)
                            [] OTHER -> ran = {}
    BY DEF PhaseIsTruthful, IInv, TypeOK
  <2> DEFINE w   == worker[id]
             inc == incidents[id]
             k   == matchRunbook(inc.alertName, inc.severity, config.runbooks)
             ran == {e.step : e \in StepsRun(id)}
  <2>1. WorkerOK(id) /\ w \in Worker /\ inc \in Incident
    BY DEF IInv, TypeOK
  <2>2. ran = 1..(w.step - 1)
    <3>1. StepsRun(id) = {StepOf(id, i) : i \in 1..(w.step - 1)}
      BY <2>1 DEF WorkerOK
    <3>2. \A i : StepOf(id, i).step = i
      BY DEF StepOf
    <3> QED BY <3>1, <3>2
  <2>3. w.step \in Nat \ {0}
    BY <2>1 DEF Worker
  <2>4. w.pc \in {"get", "decide"} \/ w.runbook = k
    BY <2>1 DEF WorkerOK
  <2>5. w.runbook # 0 => /\ Len(Plan(w.runbook)) \in Nat
                         /\ DOMAIN Plan(w.runbook) = 1..Len(Plan(w.runbook))
    <3>1. TypeOK /\ w.runbook \in 0..Len(config.runbooks)
      BY DEF IInv, TypeOK
    <3>2. w.runbook # 0 => w.runbook \in DOMAIN config.runbooks
      BY <3>1, ConfigType
    <3> QED BY <3>1, <3>2, PlanType
  <2> HIDE DEF ran, k
  <2>6. inc.phase = "Resolved" => k # 0 /\ ran = DOMAIN Plan(k)
    <3> SUFFICES ASSUME inc.phase = "Resolved"
                 PROVE  k # 0 /\ ran = DOMAIN Plan(k)
      OBVIOUS
    <3>1. w.runbook # 0 /\ w.step = Len(Plan(w.runbook)) + 1 /\ w.runbook = k
      BY <2>1, <2>4 DEF WorkerOK
    <3> QED BY <2>2, <2>5, <3>1
  <2>7. inc.phase = "Failed" => (k # 0 => ran # DOMAIN Plan(k))
    <3> SUFFICES ASSUME inc.phase = "Failed", k # 0
                 PROVE  ran # DOMAIN Plan(k)
      OBVIOUS
    <3>1. w.runbook = k
      BY <2>1, <2>4 DEF WorkerOK
    <3>2. w.step <= Len(Plan(k))
      BY <2>1, <3>1 DEF WorkerOK
    <3>3. w.step \in DOMAIN Plan(k) /\ w.step \notin ran
      BY <2>2, <2>3, <2>5, <3>1, <3>2
    <3> QED BY <3>3
  <2>8. inc.phase = "Executing" => k # 0 /\ ran \subseteq DOMAIN Plan(k)
    <3> SUFFICES ASSUME inc.phase = "Executing"
                 PROVE  k # 0 /\ ran \subseteq DOMAIN Plan(k)
      OBVIOUS
    <3>1. w.pc \in {"execute", "fail"}
      BY <2>1 DEF WorkerOK, Worker
    <3>2. w.runbook = k /\ k # 0
      BY <2>1, <2>4, <3>1 DEF WorkerOK
    <3>3. w.step <= Len(Plan(k)) + 1
      <4>1. w.step <= Len(Plan(w.runbook)) \/ w.step <= Len(Plan(w.runbook)) + 1
        BY <2>1, <3>1 DEF WorkerOK
      <4> QED BY <2>3, <2>5, <3>2, <4>1
    <3> QED BY <2>2, <2>3, <2>5, <3>2, <3>3
  <2>9. inc.phase \in {"Pending", "Analyzing", "RequiresApproval", "Rejected"}
          => ran = {}
    <3> SUFFICES ASSUME inc.phase \in {"Pending", "Analyzing",
                                      "RequiresApproval", "Rejected"}
                 PROVE  ran = {}
      OBVIOUS
    <3>1. w.step = 1
      BY <2>1 DEF WorkerOK, Worker
    <3> QED BY <2>2, <3>1
  <2>10. inc.phase \in Phase
    BY <2>1 DEF Incident
  <2> QED BY <2>6, <2>7, <2>8, <2>9, <2>10 DEF Phase, ran, k
<1> QED BY <1>1, Invariance, PTL

-----------------------------------------------------------------------------
(* The operator implements IncidentLifecycle.                               *)

PhaseBar == [id \in DOMAIN incidents |-> incidents[id].phase]
WorkBar  == [id \in DOMAIN incidents |-> Cardinality(StepsRun(id))]

LEMMA BarDomains ==
    ASSUME IInv
    PROVE  DOMAIN PhaseBar = 1..nextID /\ DOMAIN WorkBar = 1..nextID
  BY DEF IInv, TypeOK, PhaseBar, WorkBar

\* A write of the phase is a move of the lifecycle, if its table has it.
LEMMA UpdateMoves ==
    ASSUME IInv, TypeOK', NEW id \in 1..nextID, NEW p \in Phase, NEW pc, NEW k,
           Update(id, p, pc, k), worker[id].pc # "get",
           <<incidents[id].phase, p>> \in Lifecycle!Transition
    PROVE  Lifecycle!Next
<1>1. /\ UNCHANGED <<config, restarts, nextID, executed>>
      /\ incidents'[id].phase = p
      /\ \A j \in 1..nextID \ {id} : incidents'[j] = incidents[j]
  BY UpdateEffect
<1>2. DOMAIN incidents = 1..nextID /\ DOMAIN incidents' = 1..nextID
  BY <1>1 DEF IInv, TypeOK
<1>3. PhaseBar' = [PhaseBar EXCEPT ![id] = p]
  BY <1>1, <1>2 DEF PhaseBar
<1>4. \A j : StepsRun(j)' = StepsRun(j)
  BY <1>1 DEF StepsRun
<1>5. WorkBar' = WorkBar
  BY <1>2, <1>4 DEF WorkBar
<1>6. PhaseBar[id] = incidents[id].phase /\ id \in DOMAIN PhaseBar
  BY <1>2 DEF PhaseBar
<1>7. p \in Lifecycle!Phase
  BY DEF Phase, Lifecycle!Phase
<1>8. Lifecycle!Move(id)
  BY <1>3, <1>5, <1>6, <1>7 DEF Lifecycle!Move, PhaseBar, WorkBar
<1> QED BY <1>6, <1>8 DEF Lifecycle!Next, PhaseBar

\* Running a step is the lifecycle's Work: it happens in phase Executing and adds
\* one to what ran.
LEMMA ExecuteWorks ==
    ASSUME IInv, TypeOK', NEW id \in 1..nextID, Execute(id)
    PROVE  Lifecycle!Next
<1> DEFINE w == worker[id]
           e == [restart |-> restarts, id |-> id, namespace |-> w.inc.namespace,
                 runbook |-> w.runbook, step |-> w.step]
<1>1. /\ UNCHANGED <<config, restarts, nextID, incidents>>
      /\ w.pc = "execute" /\ executed' = executed \cup {e}
  BY DEF Execute
<1>2. /\ WorkerOK(id) /\ w.inc = incidents[id] /\ w.step \in Nat
      /\ incidents[id].phase = "Executing"
  BY <1>1 DEF IInv, TypeOK, WorkerOK, Worker
<1>3. StepsRun(id) = {StepOf(id, k) : k \in 1..(w.step - 1)}
  BY <1>2 DEF WorkerOK
<1>4. e \notin StepsRun(id)
  <2>1. \A k : StepOf(id, k).step = k
    BY DEF StepOf
  <2>2. e.step = w.step
    OBVIOUS
  <2> HIDE DEF e
  <2>3. \A k \in 1..(w.step - 1) : StepOf(id, k) # e
    BY <1>2, <2>1, <2>2
  <2> QED BY <1>3, <2>3
<1>5. IsFiniteSet(StepsRun(id))
  <2>1. IsFiniteSet(executed) /\ StepsRun(id) \in SUBSET executed
    BY DEF IInv, StepsRun
  <2> QED BY <2>1, FS_Subset
<1>6. StepsRun(id)' = StepsRun(id) \cup {e}
  BY <1>1 DEF StepsRun
<1>7. \A j : j # id => StepsRun(j)' = StepsRun(j)
  BY <1>1 DEF StepsRun
<1> HIDE DEF e
<1>8. Cardinality(StepsRun(id)') = Cardinality(StepsRun(id)) + 1
  BY <1>4, <1>5, <1>6, FS_AddElement
<1>9. DOMAIN incidents = 1..nextID
  BY DEF IInv, TypeOK
<1>10. WorkBar' = [WorkBar EXCEPT ![id] = @ + 1]
  <2>1. Cardinality(StepsRun(id))' = Cardinality(StepsRun(id)) + 1
    BY <1>8
  <2>2. \A j : j # id => Cardinality(StepsRun(j))' = Cardinality(StepsRun(j))
    BY <1>7
  <2> QED BY <1>1, <1>9, <2>1, <2>2 DEF WorkBar
<1>11. PhaseBar' = PhaseBar /\ PhaseBar[id] = "Executing" /\ id \in DOMAIN PhaseBar
  BY <1>1, <1>2, <1>9 DEF PhaseBar
<1>12. Lifecycle!Work(id)
  BY <1>10, <1>11 DEF Lifecycle!Work, PhaseBar, WorkBar
<1> QED BY <1>11, <1>12 DEF Lifecycle!Next, PhaseBar

\* A webhook opens an incident under an id nothing has run for.
LEMMA WebhookOpens ==
    ASSUME IInv, TypeOK', NEW payload \in Payloads, Webhook(payload)
    PROVE  Lifecycle!Next
<1>. PICK id : id = nextID + 1
  OBVIOUS
<1>1. /\ UNCHANGED <<config, restarts, executed>>
      /\ id \in 1..MaxRequests /\ id \notin 1..nextID
      /\ DOMAIN incidents = 1..nextID /\ DOMAIN incidents' = 1..nextID \cup {id}
      /\ \A j \in 1..nextID : incidents'[j] = incidents[j]
      /\ incidents'[id].phase = "Pending"
  BY BoundsAssumption DEF Webhook, IInv, TypeOK, ParsedIncident
<1>2. \A j : StepsRun(j)' = StepsRun(j)
  BY <1>1 DEF StepsRun
<1>3. StepsRun(id) = {}
  BY <1>1 DEF StepsRun, IInv
<1>4. DOMAIN PhaseBar = 1..nextID /\ DOMAIN WorkBar = 1..nextID
  BY BarDomains
<1>5. PhaseBar' = [i \in DOMAIN PhaseBar \cup {id} |->
                     IF i = id THEN "Pending" ELSE PhaseBar[i]]
  BY <1>1, <1>4 DEF PhaseBar
<1>6. WorkBar' = [i \in DOMAIN WorkBar \cup {id} |->
                     IF i = id THEN 0 ELSE WorkBar[i]]
  <2>1. Cardinality(StepsRun(id))' = 0
    BY <1>2, <1>3, FS_EmptySet
  <2>2. \A j : Cardinality(StepsRun(j))' = Cardinality(StepsRun(j))
    BY <1>2
  <2> QED BY <1>1, <1>4, <2>1, <2>2 DEF WorkBar
<1>7. Lifecycle!Open(id)
  BY <1>1, <1>4, <1>5, <1>6 DEF Lifecycle!Open, PhaseBar, WorkBar
<1> QED BY <1>1, <1>7 DEF Lifecycle!Next

LEMMA RestartForgets == Restart => Lifecycle!Next
<1> SUFFICES ASSUME Restart PROVE Lifecycle!Restart
  BY DEF Lifecycle!Next
<1>1. incidents' = Empty /\ DOMAIN Empty = {}
  BY DEF Restart, Empty
<1> QED BY <1>1 DEF Lifecycle!Restart

\* A goroutine's step is a move, work, or invisible to readers of the store.
LEMMA ReconcileRefines ==
    ASSUME IInv, TypeOK', NEW id \in 1..nextID, Reconcile(id)
    PROVE  [Lifecycle!Next]_Lifecycle!vars
<1>1. WorkerOK(id) /\ TypeOK
  BY DEF IInv
<1>. PICK k : k = worker[id].runbook
  OBVIOUS
<1>2. ASSUME UNCHANGED <<restarts, incidents, executed>>
      PROVE  UNCHANGED Lifecycle!vars
  <2>1. \A j : StepsRun(j)' = StepsRun(j)
    BY <1>2 DEF StepsRun
  <2> QED BY <1>2, <2>1 DEF Lifecycle!vars
<1>3. CASE Get(id)
  BY <1>2, <1>3 DEF Get
<1>4. CASE Decide(id)
  <2> DEFINE inc == worker[id].inc
  <2>1. /\ inc = incidents[id] /\ inc \in Incident /\ inc.phase = "Pending"
        /\ worker[id].pc # "get"
    BY <1>1, <1>4 DEF Decide, WorkerOK, TypeOK
  <2>2. PICK r, p, pc : /\ r = matchRunbook(inc.alertName, inc.severity,
                                            config.runbooks)
                        /\ p = Decision(inc, r)
                        /\ Update(id, p, pc, r)
    BY <1>4 DEF Decide
  <2>3. r \in 0..Len(config.runbooks)
    BY <1>1, <2>2, ConfigType, MatchRunbookType
  <2>4. p \in {"Failed", "Analyzing", "RequiresApproval", "Executing"}
    BY <1>1, <2>1, <2>2, <2>3, DecisionMeaning
  <2>5. p \in Phase /\ <<incidents[id].phase, p>> \in Lifecycle!Transition
    BY <2>1, <2>4 DEF Phase, Lifecycle!Transition
  <2> QED BY <2>1, <2>2, <2>5, UpdateMoves
<1>5. CASE Analyzed(id)
  <2>1. /\ worker[id].pc # "get" /\ Update(id, "Executing", "execute", k)
        /\ <<incidents[id].phase, "Executing">> \in Lifecycle!Transition
    BY <1>1, <1>5 DEF Analyzed, WorkerOK, Lifecycle!Transition
  <2> QED BY <2>1, UpdateMoves DEF Phase
<1>6. CASE Execute(id)
  BY <1>6, ExecuteWorks
<1>7. CASE ExecuteError(id)
  BY <1>2, <1>7 DEF ExecuteError
<1>8. CASE Fail(id)
  <2>1. /\ worker[id].pc # "get" /\ Update(id, "Failed", "done", k)
        /\ <<incidents[id].phase, "Failed">> \in Lifecycle!Transition
    BY <1>1, <1>8 DEF Fail, WorkerOK, Lifecycle!Transition
  <2> QED BY <2>1, UpdateMoves DEF Phase
<1>9. CASE Resolve(id)
  <2>1. /\ worker[id].pc # "get" /\ Update(id, "Resolved", "done", k)
        /\ <<incidents[id].phase, "Resolved">> \in Lifecycle!Transition
    BY <1>1, <1>9 DEF Resolve, WorkerOK, Lifecycle!Transition
  <2> QED BY <2>1, UpdateMoves DEF Phase
<1> QED BY <1>3, <1>4, <1>5, <1>6, <1>7, <1>8, <1>9 DEF Reconcile

\* Every behaviour of the operator is a behaviour of the incident lifecycle: no
\* phase changes outside its table, final phases are final, and steps reach the
\* cluster only while the incident is Executing.
THEOREM Refinement == Spec => ImplementsLifecycle
<1>1. Init => Lifecycle!Init
  <2> SUFFICES ASSUME Init PROVE Lifecycle!Init
    OBVIOUS
  <2>1. incidents = Empty /\ DOMAIN Empty = {}
    BY DEF Init, Empty
  <2> QED BY <2>1 DEF Lifecycle!Init
<1>2. IInv /\ IInv' /\ [Next]_vars => [Lifecycle!Next]_Lifecycle!vars
  <2> SUFFICES ASSUME IInv, IInv', [Next]_vars
               PROVE  [Lifecycle!Next]_Lifecycle!vars
    OBVIOUS
  <2>1. TypeOK'
    BY DEF IInv
  <2>2. ASSUME NEW payload \in Payloads, Webhook(payload)
        PROVE  Lifecycle!Next
    BY <2>1, <2>2, WebhookOpens
  <2>3. ASSUME NEW id \in DOMAIN worker, Reconcile(id)
        PROVE  [Lifecycle!Next]_Lifecycle!vars
    <3>1. id \in 1..nextID
      BY <2>3 DEF IInv, TypeOK
    <3> QED BY <2>1, <2>3, <3>1, ReconcileRefines
  <2>4. CASE Restart
    BY <2>4, RestartForgets
  <2>5. CASE UNCHANGED vars
    <3>1. UNCHANGED <<restarts, incidents, executed>>
      BY <2>5 DEF vars
    <3>2. \A j : StepsRun(j)' = StepsRun(j)
      BY <3>1 DEF StepsRun
    <3> QED BY <3>1, <3>2 DEF Lifecycle!vars
  <2> QED BY <2>2, <2>3, <2>4, <2>5 DEF Next
<1> QED BY <1>1, <1>2, Invariance, PTL DEF Spec, ImplementsLifecycle, Lifecycle!Spec

-----------------------------------------------------------------------------
(* What a step may never do to a stored incident.                           *)

\* The goroutines write back whole local copies, yet no step changes what an alert
\* said of its incident, and once the incident is settled it stays as it is and
\* nothing more runs for it, until a restart forgets it.
SameAlert(inc, other) ==
    /\ inc.alertName = other.alertName
    /\ inc.severity = other.severity
    /\ inc.namespace = other.namespace

Kept(id) ==
    /\ id \in DOMAIN incidents'
    /\ SameAlert(incidents'[id], incidents[id])
    /\ incidents[id].phase \in {"Resolved", "Failed", "RequiresApproval"} =>
           incidents'[id] = incidents[id] /\ StepsRun(id)' = StepsRun(id)

\* A goroutine that is still to write leaves every incident kept: its own is not
\* settled, the others it does not touch.
LEMMA UpdateKeeps ==
    ASSUME IInv, TypeOK', NEW id \in 1..nextID, NEW p, NEW pc, NEW k,
           Update(id, p, pc, k),
           worker[id].pc \in {"decide", "analyze", "execute", "fail"},
           NEW j \in 1..nextID
    PROVE  Kept(j)
<1>1. WorkerOK(id)
  BY DEF IInv
<1>2. incidents[id].phase \notin {"Resolved", "Failed", "RequiresApproval"}
  BY <1>1 DEF WorkerOK
<1>3. /\ UNCHANGED <<nextID, restarts, executed>>
      /\ SameAlert(incidents'[id], incidents[id])
      /\ \A i \in 1..nextID \ {id} : incidents'[i] = incidents[i]
  BY UpdateEffect DEF SameAlert
<1>4. DOMAIN incidents' = 1..nextID
  BY <1>3 DEF TypeOK
<1>5. StepsRun(j)' = StepsRun(j)
  BY <1>3 DEF StepsRun
<1> QED BY <1>2, <1>3, <1>4, <1>5 DEF Kept, SameAlert

LEMMA ReconcileKeeps ==
    ASSUME IInv, TypeOK', NEW id \in 1..nextID, Reconcile(id), NEW j \in 1..nextID
    PROVE  Kept(j)
<1>1. PICK k : k = worker[id].runbook
  OBVIOUS
<1>2. DOMAIN incidents = 1..nextID
  BY DEF IInv, TypeOK
<1>3. ASSUME UNCHANGED <<restarts, incidents, executed>> PROVE Kept(j)
  BY <1>2, <1>3 DEF Kept, SameAlert, StepsRun
<1>4. CASE Get(id) \/ ExecuteError(id)
  BY <1>3, <1>4 DEF Get, ExecuteError
<1>5. CASE Decide(id)
  BY <1>5, UpdateKeeps DEF Decide
<1>6. CASE Analyzed(id)
  BY <1>1, <1>6, UpdateKeeps DEF Analyzed
<1>7. CASE Fail(id)
  BY <1>1, <1>7, UpdateKeeps DEF Fail
<1>8. CASE Resolve(id)
  BY <1>1, <1>8, UpdateKeeps DEF Resolve
<1>9. CASE Execute(id)
  <2>1. UNCHANGED <<restarts, incidents>>
    BY <1>9 DEF Execute
  <2>2. j # id => StepsRun(j)' = StepsRun(j)
    BY <1>9 DEF Execute, StepsRun
  <2>3. incidents[id].phase = "Executing"
    BY <1>9 DEF Execute, IInv, WorkerOK
  <2> QED BY <1>2, <2>1, <2>2, <2>3 DEF Kept, SameAlert
<1> QED BY <1>4, <1>5, <1>6, <1>7, <1>8, <1>9 DEF Reconcile

\* What a reader has seen of a settled incident stays true until a restart: no late
\* write of another goroutine's copy brings an incident back, changes its alert or
\* lets one more step of its plan run (reconciler.go:55-113).
THEOREM SettledIncidentsStay ==
    Spec => [][restarts' = restarts => \A id \in DOMAIN incidents : Kept(id)]_vars
<1>1. IInv /\ TypeOK' /\ [Next]_vars =>
         [restarts' = restarts => \A id \in DOMAIN incidents : Kept(id)]_vars
  <2> SUFFICES ASSUME IInv, TypeOK', Next, restarts' = restarts,
                      NEW j \in DOMAIN incidents
               PROVE  Kept(j)
    OBVIOUS
  <2>1. j \in 1..nextID /\ nextID \in Nat
    BY BoundsAssumption DEF IInv, TypeOK
  <2>2. ASSUME NEW payload \in Payloads, Webhook(payload) PROVE Kept(j)
    <3>1. DOMAIN incidents = 1..nextID /\ j # nextID + 1
      BY <2>1 DEF IInv, TypeOK
    <3>2. j \in DOMAIN incidents' /\ incidents'[j] = incidents[j]
      BY <2>2, <3>1 DEF Webhook
    <3>3. StepsRun(j)' = StepsRun(j)
      BY <2>2 DEF Webhook, StepsRun
    <3> QED BY <3>2, <3>3 DEF Kept, SameAlert
  <2>3. ASSUME NEW id \in DOMAIN worker, Reconcile(id) PROVE Kept(j)
    <3>1. id \in 1..nextID
      BY <2>3 DEF IInv, TypeOK
    <3> QED BY <2>1, <2>3, <3>1, ReconcileKeeps
  <2>4. ~Restart
    BY BoundsAssumption DEF Restart, IInv, TypeOK
  <2> QED BY <2>2, <2>3, <2>4 DEF Next
<1> QED BY <1>1, Invariance, TypeCorrect, PTL DEF Spec
=============================================================================
