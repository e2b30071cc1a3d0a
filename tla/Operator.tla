------------------------------ MODULE Operator ------------------------------
(***************************************************************************)
(* The operator service: the Alertmanager webhook, the in-memory incident  *)
(* store, and one Reconcile goroutine per accepted incident, which         *)
(* validates the matched runbook's plan and hands its steps one by one to  *)
(* the executor.  The process may restart at any point: the store and the  *)
(* goroutines are lost, what already ran on the cluster is not.            *)
(*                                                                         *)
(* A step of a goroutine ends at each access to shared state (the store's  *)
(* lock, the executor), so goroutines and webhooks interleave there.       *)
(***************************************************************************)
EXTENDS PolicyEngine

CONSTANTS
    Payloads,      \* webhook bodies: [json : BOOLEAN, alerts : sequence of alerts]
    Configs,       \* how the reconciler may have been constructed
    NoIncident,    \* the local variable inc before store.Get returned; never read
    MaxRequests,   \* bound on the webhooks accepted between two restarts
    MaxRestarts    \* bound on the restarts of the process

Step == [name : STRING, action : STRING, risk : STRING, autoApprove : BOOLEAN]

Runbook == [alertName : STRING, severity : SUBSET STRING,
            remediation : Seq(Step),
            rollback : SUBSET [name : STRING, action : STRING]]

Policy == [forbidden : SUBSET STRING, scope : SUBSET STRING,
           requireApprovalFor : SUBSET STRING, forbidDelete : BOOLEAN,
           maxPods : Nat, maxNamespaces : Nat]

Alert == [status : STRING, alertname : STRING, severity : STRING,
          namespace : STRING]

Phase == {"Pending", "Analyzing", "RequiresApproval", "Executing",
          "Resolved", "Failed", "Rejected"}

Incident == [alertName : STRING, severity : STRING, namespace : STRING,
             phase : Phase]

ASSUME BoundsAssumption == MaxRequests \in Nat /\ MaxRestarts \in Nat

ASSUME ConfigsAssumption ==
    Configs \subseteq [policy : Policy, runbooks : Seq(Runbook),
                       failAction : STRING, reasoner : BOOLEAN]

ASSUME PayloadsAssumption ==
    Payloads \subseteq [json : BOOLEAN, alerts : Seq(Alert)]

ASSUME NoIncidentAssumption == NoIncident \in Incident

VARIABLES
    config,        \* the reconciler's fields, fixed when it is constructed
    restarts,      \* how often the process restarted
    nextID,        \* MemoryIncidentStore.nextID
    incidents,     \* MemoryIncidentStore.incidents; id n stands for "inc-n"
    worker,        \* the Reconcile goroutine of each incident
    executed       \* every step whose Execute returned nil, over all restarts

vars == <<config, restarts, nextID, incidents, worker, executed>>

\* Program points of Reconcile, and its locals inc, runbook and the loop index.
Worker == [pc : {"get", "decide", "analyze", "execute", "fail", "done"},
           inc : Incident, runbook : Nat, step : Nat \ {0}]

\* An empty Go map.
Empty == [i \in {} |-> i]

Init == /\ config \in Configs
        /\ restarts = 0
        /\ nextID = 0
        /\ incidents = Empty
        /\ worker = Empty
        /\ executed = {}

-----------------------------------------------------------------------------
(* The webhook. *)

\* Mutant: the phase is left at Go's zero value of a map lookup, not Pending.
MutParseWebhook(alert) ==
    [alertName |-> alert.alertname, severity |-> alert.severity,
     namespace |-> alert.namespace, phase |-> ""]

ParsedIncident(alert) ==
    [alertName |-> alert.alertname, severity |-> alert.severity,
     namespace |-> alert.namespace, phase |-> "Pending"]

\* Only the first alert of the payload is looked at.
Accepts(payload) == /\ payload.json
                    /\ payload.alerts # <<>>
                    /\ Head(payload.alerts).status = "firing"

\* An accepted payload is stored and its goroutine started; a refused one (400)
\* changes nothing.
Webhook(payload) ==
    LET id == nextID + 1
    IN  /\ nextID < MaxRequests
        /\ Accepts(payload)
        /\ nextID' = id
        /\ incidents' = [i \in DOMAIN incidents \cup {id} |->
               IF i = id THEN ParsedIncident(Head(payload.alerts))
                         ELSE incidents[i]]
        /\ worker' = [i \in DOMAIN worker \cup {id} |->
               IF i = id THEN [pc |-> "get", inc |-> NoIncident,
                               runbook |-> 0, step |-> 1]
                         ELSE worker[i]]
        /\ UNCHANGED <<config, restarts, executed>>

-----------------------------------------------------------------------------
(* Reconcile. *)

\* The first runbook for the alert's name and severity, 0 when there is none.
matchRunbook(alertName, severity, runbooks) ==
    LET matching == {k \in DOMAIN runbooks :
                        /\ runbooks[k].alertName = alertName
                        /\ severity \in runbooks[k].severity}
    IN  IF matching = {} THEN 0
        ELSE CHOOSE k \in matching : \A j \in matching : k <= j

Plan(k) == config.runbooks[k].remediation

\* Mutant: starting the plan does not reach the store.
MutUpdate(id, p, pc, k) ==
    LET inc == [worker[id].inc EXCEPT !.phase = p]
    IN  /\ incidents' = [incidents EXCEPT ![id] =
               IF p = "Executing" THEN @ ELSE inc]
        /\ worker' = [worker EXCEPT ![id] =
               [pc |-> pc, inc |-> inc, runbook |-> k, step |-> worker[id].step]]
        /\ UNCHANGED <<config, restarts, nextID, executed>>

\* inc.Phase = p; store.Update(inc): the whole local copy is written back, and
\* the goroutine goes on at pc with runbook k.
Update(id, p, pc, k) ==
    LET inc == [worker[id].inc EXCEPT !.phase = p]
    IN  /\ incidents' = [incidents EXCEPT ![id] = inc]
        /\ worker' = [worker EXCEPT ![id] =
               [pc |-> pc, inc |-> inc, runbook |-> k, step |-> worker[id].step]]
        /\ UNCHANGED <<config, restarts, nextID, executed>>

Get(id) ==
    /\ worker[id].pc = "get"
    /\ worker' = [worker EXCEPT ![id] =
           [pc |-> "decide", inc |-> incidents[id], runbook |-> 0, step |-> 1]]
    /\ UNCHANGED <<config, restarts, nextID, incidents, executed>>

\* Mutant: one approved step is enough to start.
MutDecision(inc, k) ==
    LET verdict == ValidatePlan(Plan(k), config.policy, config.runbooks[k],
                                inc.namespace)
        Some(c) == \E i \in DOMAIN verdict : verdict[i] = c
    IN  CASE k = 0                    -> "Failed"
          [] k # 0 /\ config.reasoner -> "Analyzing"
          [] OTHER -> IF Some(Blocked) THEN "Failed"
                      ELSE IF ~Some(Approved) THEN "RequiresApproval"
                      ELSE "Executing"

\* The phase Reconcile moves a fetched incident to.  The reconciler with a
\* reasoner does not validate the plan.
Decision(inc, k) ==
    LET verdict == ValidatePlan(Plan(k), config.policy, config.runbooks[k],
                                inc.namespace)
        Some(c) == \E i \in DOMAIN verdict : verdict[i] = c
    IN  CASE k = 0                    -> "Failed"
          [] k # 0 /\ config.reasoner -> "Analyzing"
          [] OTHER -> IF Some(Blocked) THEN "Failed"
                      ELSE IF Some(RequiresApproval) THEN "RequiresApproval"
                      ELSE "Executing"

Decide(id) ==
    LET inc == worker[id].inc
        k   == matchRunbook(inc.alertName, inc.severity, config.runbooks)
        p   == Decision(inc, k)
    IN  /\ worker[id].pc = "decide"
        /\ Update(id, p, CASE p = "Executing" -> "execute"
                           [] p = "Analyzing" -> "analyze"
                           [] OTHER           -> "done", k)

\* Analyze returned, with an analysis or an error; Reconcile uses neither.
Analyzed(id) ==
    /\ worker[id].pc = "analyze"
    /\ Update(id, "Executing", "execute", worker[id].runbook)

StepsLeft(id) == worker[id].step <= Len(Plan(worker[id].runbook))

\* Executor.Execute's error paths; in dry-run mode and in the real one every
\* other step returns nil.  MockExecutor, the reasoner's executor, never fails.
ExecuteFails(step) ==
    /\ ~config.reasoner
    /\ \/ config.failAction # "" /\ step.action = config.failAction
       \/ step.action \notin {"restart", "scale", "rollback"}

Execute(id) ==
    LET w == worker[id]
    IN  /\ w.pc = "execute"
        /\ StepsLeft(id)
        /\ ~ExecuteFails(Plan(w.runbook)[w.step])
        /\ executed' = executed \cup
               {[restart |-> restarts, id |-> id, namespace |-> w.inc.namespace,
                 runbook |-> w.runbook, step |-> w.step]}
        /\ worker' = [worker EXCEPT ![id] =
               [pc |-> "execute", inc |-> w.inc, runbook |-> w.runbook,
                step |-> w.step + 1]]
        /\ UNCHANGED <<config, restarts, nextID, incidents>>

\* Mutant: the loop goes on with the next step.
MutExecuteError(id) ==
    LET w == worker[id]
    IN  /\ w.pc = "execute"
        /\ StepsLeft(id)
        /\ ExecuteFails(Plan(w.runbook)[w.step])
        /\ worker' = [worker EXCEPT ![id] =
               [pc |-> "execute", inc |-> w.inc, runbook |-> w.runbook,
                step |-> w.step + 1]]
        /\ UNCHANGED <<config, restarts, nextID, incidents, executed>>

ExecuteError(id) ==
    LET w == worker[id]
    IN  /\ w.pc = "execute"
        /\ StepsLeft(id)
        /\ ExecuteFails(Plan(w.runbook)[w.step])
        /\ worker' = [worker EXCEPT ![id] =
               [pc |-> "fail", inc |-> w.inc, runbook |-> w.runbook,
                step |-> w.step]]
        /\ UNCHANGED <<config, restarts, nextID, incidents, executed>>

\* Mutant: the error is returned before the incident is updated.
MutFail(id) ==
    /\ worker[id].pc = "fail"
    /\ worker' = [worker EXCEPT ![id].pc = "done"]
    /\ UNCHANGED <<config, restarts, nextID, incidents, executed>>

Fail(id) ==
    /\ worker[id].pc = "fail"
    /\ Update(id, "Failed", "done", worker[id].runbook)

\* Mutant: the incident is resolved before its last step ran.
MutResolve(id) ==
    /\ worker[id].pc = "execute"
    /\ worker[id].step >= Len(Plan(worker[id].runbook))
    /\ Update(id, "Resolved", "done", worker[id].runbook)

Resolve(id) ==
    /\ worker[id].pc = "execute"
    /\ ~StepsLeft(id)
    /\ Update(id, "Resolved", "done", worker[id].runbook)

-----------------------------------------------------------------------------
\* The process stops and starts again.
Restart ==
    /\ restarts < MaxRestarts
    /\ restarts' = restarts + 1
    /\ nextID' = 0
    /\ incidents' = Empty
    /\ worker' = Empty
    /\ UNCHANGED <<config, executed>>

Reconcile(id) == \/ Get(id) \/ Decide(id) \/ Analyzed(id)
                 \/ Execute(id) \/ ExecuteError(id)
                 \/ Fail(id) \/ Resolve(id)

Next == \/ \E payload \in Payloads : Webhook(payload)
        \/ \E id \in DOMAIN worker : Reconcile(id)
        \/ Restart

\* The Go scheduler runs every goroutine that can run; Execute and Analyze are
\* assumed to return.  Nothing makes a webhook arrive or the process restart.
Fairness == \A id \in 1..MaxRequests :
                WF_vars(id \in DOMAIN worker /\ Reconcile(id))

Spec == Init /\ [][Next]_vars

FairSpec == Spec /\ Fairness

-----------------------------------------------------------------------------
Event == [restart : 0..MaxRestarts, id : 1..MaxRequests, namespace : STRING,
          runbook : Nat, step : Nat \ {0}]

\* Every record keeps its shape, stored incidents are in a known phase, and ids
\* are those the counter has handed out.
TypeOK ==
    /\ config \in Configs
    /\ restarts \in 0..MaxRestarts
    /\ nextID \in 0..MaxRequests
    /\ incidents \in [1..nextID -> Incident]
    /\ worker \in [1..nextID -> Worker]
    /\ \A id \in 1..nextID : worker[id].runbook \in 0..Len(config.runbooks)
    /\ executed \subseteq Event

\* The reconciler with a policy engine: a step runs only if every step of its
\* plan, the later ones included, is cleared to run with nobody asked.  One
\* blocked or held step keeps the whole plan off the cluster (reconciler.go:80-96).
ExecutedIsCleared ==
    ~config.reasoner =>
        \A e \in executed : \A i \in DOMAIN Plan(e.runbook) :
            Cleared(Plan(e.runbook)[i], config.policy,
                    config.runbooks[e.runbook], e.namespace)

\* Steps reach the cluster in plan order and none after a failed one: whatever
\* ran, the steps before it ran for the same incident (reconciler.go:102-108).
ExecutedInOrder ==
    \A e \in executed : \A k \in 1..(e.step - 1) :
        [e EXCEPT !.step = k] \in executed

\* The steps of incident id that ran since the last restart.
StepsRun(id) == {e \in executed : e.restart = restarts /\ e.id = id}

\* What a reader of the store learns about the cluster is true: a Resolved
\* incident had every step of a matching runbook run, a Failed one had not, and
\* one that is Pending, Analyzing or waits for approval had none.
PhaseIsTruthful ==
    \A id \in DOMAIN incidents :
        LET inc == incidents[id]
            k   == matchRunbook(inc.alertName, inc.severity, config.runbooks)
            ran == {e.step : e \in StepsRun(id)}
        IN  CASE inc.phase = "Resolved"  -> k # 0 /\ ran = DOMAIN Plan(k)
              [] inc.phase = "Failed"    -> k # 0 => ran # DOMAIN Plan(k)
              [] inc.phase = "Executing" -> k # 0 /\ ran \subseteq DOMAIN Plan(k)
              [] OTHER                   -> ran = {}

\* "WHILE the environment is identified as `production`, THE Policy_Engine SHALL
\* require manual approval for every action regardless of risk level"
\* (requirements.md:92): no step runs for an incident in production, since no
\* reconciler waits for an approval.  ReconcilerWithReasoner runs the plan without
\* consulting the policy engine (reconciler.go:142-190).
ProductionNeedsApproval == \A e \in executed : e.namespace # "production"

-----------------------------------------------------------------------------
(* The inductive invariant of the proofs. *)

\* Step k of incident id, as it is recorded when it ran.
StepOf(id, k) ==
    [restart |-> restarts, id |-> id, namespace |-> incidents[id].namespace,
     runbook |-> worker[id].runbook, step |-> k]

PlanCleared(k, namespace) ==
    \A i \in DOMAIN Plan(k) :
        Cleared(Plan(k)[i], config.policy, config.runbooks[k], namespace)

\* A goroutine that has fetched its incident holds what the store holds, since it
\* is the incident's only writer; the phase says where the goroutine is; what
\* ran for the incident is the part of the plan before the goroutine's step.
WorkerOK(id) ==
    LET w == worker[id]
        p == incidents[id].phase
        n == Len(Plan(w.runbook))
    IN  /\ w.pc # "get" => w.inc = incidents[id]
        /\ w.pc \in {"get", "decide"} => p = "Pending" /\ w.runbook = 0
        /\ w.pc = "analyze" => p = "Analyzing" /\ config.reasoner
        /\ w.pc \in {"execute", "fail"} => p = "Executing"
        /\ w.pc = "done" => p \in {"Resolved", "Failed", "RequiresApproval"}
        /\ w.pc \notin {"get", "decide"} =>
               w.runbook = matchRunbook(incidents[id].alertName,
                                        incidents[id].severity,
                                        config.runbooks)
        /\ w.pc \in {"analyze", "execute", "fail"} => w.runbook # 0
        /\ w.pc \in {"execute", "fail"} /\ ~config.reasoner =>
               PlanCleared(w.runbook, incidents[id].namespace)
        /\ w.pc \in {"get", "decide", "analyze"} => w.step = 1
        /\ w.pc = "execute" => w.step <= n + 1
        /\ w.pc = "fail" => w.step <= n
        /\ p = "Resolved" => w.runbook # 0 /\ w.step = n + 1
        /\ p = "Failed" => w.runbook = 0 \/ w.step <= n
        /\ p = "RequiresApproval" => w.step = 1
        /\ w.step >= 1 /\ (w.runbook = 0 => w.step = 1)
        /\ StepsRun(id) = {StepOf(id, k) : k \in 1..(w.step - 1)}

IInv == /\ TypeOK
        /\ \A id \in 1..nextID : WorkerOK(id)
        /\ \A e \in executed : /\ e.runbook \in DOMAIN config.runbooks
                               /\ e.restart <= restarts
                               /\ e.restart = restarts => e.id \in 1..nextID
        /\ ExecutedIsCleared
        /\ ExecutedInOrder
        /\ IsFiniteSet(executed)

-----------------------------------------------------------------------------
\* The operator implements the lifecycle every reader of an incident relies on.
Lifecycle == INSTANCE IncidentLifecycle WITH
    Ids   <- 1..MaxRequests,
    phase <- [id \in DOMAIN incidents |-> incidents[id].phase],
    work  <- [id \in DOMAIN incidents |-> Cardinality(StepsRun(id))]

ImplementsLifecycle == Lifecycle!Spec

\* Every accepted incident is resolved, failed or handed to a human, unless the
\* process restarts and forgets it: a goroutine is never stuck.
Settles ==
    \A id \in 1..MaxRequests, r \in 0..MaxRestarts :
        (restarts = r /\ id \in DOMAIN incidents)
            ~> \/ restarts # r
               \/ /\ id \in DOMAIN incidents
                  /\ incidents[id].phase \in
                        {"Resolved", "Failed", "RequiresApproval"}
=============================================================================
