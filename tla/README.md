# RunGuard in TLA+

TLA+ models of RunGuard, the TLC runs that check them on small instances, and
TLAPS proofs of the properties that matter most for instances of any size.
RunGuard receives Alertmanager webhooks, matches each incident with a runbook,
classifies the runbook's steps with a policy engine, and executes the plan, hands
it to a human, or refuses it. Paths below are relative to `src/`.

## 1. Inventory

| Component | State it keeps | Operations | Interacts with |
|---|---|---|---|
| **Policy engine** `services/operator/internal/policy` | none | five checks, `ValidatePlan`, `ValidatePlanWithLimit`, `ValidatePlanSafe` | called by the reconciler |
| **Operator** `services/operator/cmd`, `internal/webhook`, `internal/controller` | incidents by id, a counter for ids (memory only); one goroutine per accepted incident | `POST /webhook/alertmanager`, `Reconcile` (with a policy engine, or with a reasoner) | policy engine, executor, reasoner |
| **Executor** `services/operator/internal/executor` | dry-run flag, a failure to simulate, a rollback log | `Execute`, `ExecuteWithRollback` | called by the reconciler |
| **Runbook compiler** `services/operator/internal/compiler` | versions of runbooks by name, append only, under one lock | `ParseMarkdown`, `GeneratePolicy`; `Store`, `Get`, `GetLatest`, `ListVersions` | produces runbooks and policies (used by no service yet) |
| **Approval workflow** `services/backend/internal/handler` | one cancel function per incident under `h.mu`; one goroutine per timer | HTTP approve/reject, `FullHandler.Approve/Reject`, `StartApprovalTimeout`, `CancelTimeout` | backend store, audit trail, Slack |
| **Backend store, audit trail** `services/backend/internal/store`, `audit` | incidents, runbooks, audit records (memory only) | create, get, update, list; append, query | handlers |
| **Circuit breaker, retry** `shared/resilience` | state, failure count, time of the last failure, under one lock | `Execute`, `State`; `Retry` | any caller of a remote service (none yet) |
| **Reasoner** `services/reasoner` (Python) | prompt cache, token usage; one coroutine per analysis | `ReasonerOrchestrator.analyze`, `PromptCache.get`/`set`, fallback chain | Claude API |
| **API gateway** `services/api-gateway` | one rate limiter per address | JWT check, rate limit, proxy `/v1` to `/api` | backend |
| **Shared plumbing** `shared/server`, `middleware`, `metrics`, `health`, `tracing` | none of its own | HTTP middleware, graceful stop | every service |

How they interact: the operator is one process in which webhooks, `Reconcile`
goroutines and the executor share the incident store; the backend is another
process with its own store, in which approvals, timers and queries share
incidents. The two stores are **not** connected. An incident the operator leaves
in `RequiresApproval` is never resumed there, and `backend/cmd/main.go` mounts
neither the approve/reject routes nor `FullHandler`, so the approval workflow is
checked as the library it is.

What is hard here:

* *interleaving*: overlapping goroutines that read an incident, decide, and write
  the whole record back without holding the store's lock (reconciler, HTTP
  handlers, timers);
* *stale reads*: the expiry timer and the approve/reject handlers check a phase
  that may have changed before they write;
* *timeouts*: timers that fire while they are replaced or cancelled;
* *restarts*: stores in memory, ids that start again at `inc-1`, plans half run;
* *partial failure*: a step that fails in the middle of a plan, an audit record
  written after the decision it records, and decisions without one;
* *configuration*: empty lists and zero limits mean "no restriction", so editing a
  policy crosses discontinuities: the last namespace taken out of a scope opens it;
* *late outcomes*: a breaker whose calls outlive the state that admitted them; a
  model that answers after another coroutine has, or after its entry has expired;
* *keys*: a cache key that says less than the prompt (the namespace is not in it);
* *long inputs*: a parser whose state crosses sections, fences and headings.

What makes each component correct:

* **Policy engine**: the verdict does not depend on the order of the checks;
  `Approved` means cleared by every check; an edit relaxes a verdict only by lifting
  a restriction (emptying the scope, zeroing a limit) that stood in the way, and then
  only this one; the limit keeps the first approved steps and touches no other.
* **Operator**: nothing runs unless the whole plan is cleared; steps run in order
  and none after a failed one; the phase tells the truth about the cluster; every
  accepted incident settles.
* **Executor**: nothing starts after the first error; a rollback undoes exactly the
  tried steps that have an undo, once each, the latest first; what the policy
  engine approves can be undone.
* **Approval**: a decision is not overwritten by a writer that checked the phase
  after it; a reject is final; the audit trail holds exactly the decisions of the
  `FullHandler` calls that returned (those of HTTP requests and timers leave none); an
  incident with a running timer is decided at last.
* **Circuit breaker**: closed exactly below the threshold; a failed trial opens it
  again (once the counter wrapped, up to `maxFailures` failures leave it half-open);
  it always recovers; one call on trial.
* **Runbook compiler**: what is parsed is what the headings above each line say; a
  version once returned stays and numbers have no gap; a refused document leaves no
  trace and no lock; the generated policy holds back the risky steps of the very
  plan it was generated from, and blocks nothing the runbook gives no reason for.
* **Reasoner**: an analysis served, from the cache or not, is one of the same alert
  and the same evidence up to secrets, with the right flag and not expired; one that
  comes from the model is also of the incident's namespace, one from the cache may be
  of another; the cache keeps the latest answer of each key; every analysis ends.

## 2. Modules

| Module | Models | Kind |
|---|---|---|
| `PolicyEngine` | `internal/policy/*.go`: the checks as operators, and reference definitions `Cleared`, `Strictest` | pure |
| `PolicyEdits` | a policy while it is edited one entry at a time, through empty lists and zero limits | state machine over `PolicyEngine` |
| `PolicyEngine_proofs`, `PolicyEdits_proofs` | | proofs |
| `IncidentLifecycle` | what a reader of an incident may rely on: the transition table, and that work happens only while Executing | abstract specification |
| `Operator` | webhook, incident store, both reconcilers, executor's `Execute`, restart; EXTENDS `PolicyEngine`, implements `IncidentLifecycle` | detailed specification |
| `Operator_proofs` | | proofs |
| `Compensation` | what a caller of `ExecuteWithRollback` may rely on: the whole plan, or an orderly retreat | abstract specification |
| `Executor` | `SetFailAction`, `ExecuteWithRollback`, `rollback`; EXTENDS `PolicyEngine`, implements `Compensation` | detailed specification |
| `Executor_proofs` | | proofs |
| `Approval` | approve/reject requests, expiry timers and their registry, backend store, audit trail | state machine |
| `Approval_proofs` | | proofs |
| `CircuitBreaker` | `shared/resilience/circuit_breaker.go` | state machine |
| `CircuitBreaker_proofs` | | proofs |
| `VersionLog` | what a caller of `VersionedStore.Store` may rely on: each version appended at one moment, complete and read as a whole | abstract specification |
| `RunbookParser` | `compiler/parser.go` as a machine fed one line at a time, `policy_generator.go`; and the reference definition `Says` | pure |
| `Compiler` | `compiler/versioning.go` over `RunbookParser`; EXTENDS `PolicyEngine` to classify what it stores, implements `VersionLog` | detailed specification |
| `Compiler_proofs` | | proofs |
| `Reasoner` | `reasoner/orchestrator.py`, `cache.py` and what it sees of `llm.py` | state machine |
| `Reasoner_proofs` | | proofs |
| `MC*` | constants for TLC; one `.cfg` per run | |

### State and actions

**Operator.** `incidents` is `MemoryIncidentStore.incidents` (id *n* is `inc-n`),
`nextID` its counter, `config` the fields a reconciler is constructed with.
`worker[id]` is the goroutine started for incident *id*: its program point, its
local copy `inc`, the matched runbook and the index of the loop over its steps.
A goroutine's step ends at each access to shared state: `Get` is `store.Get`;
`Decide` is everything between it and the first `store.Update` (matching,
`ValidatePlan`, the two loops over the verdicts), which is local, with that
update; `Execute`/`ExecuteError` is one call of the executor; `Fail` and
`Resolve` are the updates after the loop; `Analyzed` is the return of the
reasoner's call with the update to Executing. Both reconcilers share these
actions and differ in `Decision` (the one with a reasoner does not validate) and
in `ExecuteFails` (its executor is `MockExecutor`). `Restart` empties the memory
of the process and keeps `executed`, the history of what reached the cluster. The
request context that `main.go` hands to `Reconcile` is cancelled when the handler
returns; store and executor ignore it, so nothing in the model depends on it.

**Executor.** One executor serves calls one after the other (nothing in the
repository calls `ExecuteWithRollback` from two goroutines). A step is one turn of
one of the two loops: `ExecuteStep` records the next step (`tried`; the slice
`executedSteps` is the plan's first `tried` steps) and runs it, `RollbackStep`
looks for the entry of step `i` and logs it; `ReturnNil` and `ReturnError` end the
call. `RollbackLog` lives as long as the executor. `before` and `undone` are
history. Dry-run mode is left out: both modes take the same branches, and the
functions that would reach Kubernetes are empty. Only names of rollback entries
are compared, so `rollbackSteps` is a set, and `UndoOf` stands for prefixing
`"undo_"`. `InForce`, what was tried and not undone, is the refinement mapping to
`Compensation`: `Undo` there takes the latest such step that has an undo, and a
turn that finds no entry is a stutter.

**Approval.** `phase` is the store, `cancelFuncs` the registry (the timer an
incident is bound to), `timer[t]` a goroutine of `StartApprovalTimeout` with the
state of its context, `request[r]` a call. HTTP requests read and check the phase
(`GetIncident`), then write (`UpdateIncident`); `FullHandler`'s cancel the timer
first (`CancelTimeout`), do not check, and append an audit record afterwards.
`Expire` is the deadline; `WakeExpired` the timer's read and check,
`TimerUpdate` its write, `TimerDelete` the removal of the registry entry.
`writes` and `readAt` are history: the decisions in the order they were written,
and how many of them existed when a writer read the store. `audit` gets a record from
`FullHandler` alone, as in the code: nothing appends one for an HTTP decision or an
expiry. `Create` takes any
unused id: ids are interchangeable. `Hold` is external (nothing in the backend
moves an incident to RequiresApproval; the tests create it there).

**CircuitBreaker.** `Admit`/`Reject` are the first critical section of `Execute`,
`Fail`/`Succeed` the second, `Panic` a protected call that never reaches it. Time is
`age`, ticks since `lastFailureAt`, where `Timeout + 1` stands for every longer
time: the code only compares it with `timeout`. `failures` wraps at `Modulus` (2^32
in the code). `run` (failures since the last success, up to `Modulus`) and `misses`
(failures in a row that left the breaker half-open) are history.

**Compiler.** `entries` and `lock` are `VersionedStore`'s; `call[c]` is a goroutine
in `Store` with the parser's locals (`Parser`: section, subsection, open code block,
runbook so far). `Store` takes the lock; `ParseLine` is one turn of the loop;
`MissingRollback` the error return; `ReadVersions` reads the list and `AppendVersion`
appends and unlocks. The parser runs under the write lock, so its steps are visible
to nobody; they are steps because the properties follow the parser line by line. A
document without a title is refused before anything changes and is no step. The
readers are operators. A line is what `ParseMarkdown` can tell of it (its kind, text,
key and value; see `RunbookParser`), so that trimming and the case of keys are part
of what a line stands for. `acked` is history. To `VersionLog` only `entries` and
`acked` are visible: `AppendVersion` is its `Publish`, every other step a stutter.
`Complete`, the documents it publishes, is said of the document by its headings, so
it does not repeat the parser's test. Entries hold pointers into what the
caller passed (`Raw`); callers are taken not to edit it.

**Reasoner.** A step is what a coroutine does between two awaits. `Hit` is `analyze`
from its start to the return of a cached result; `Miss` from its start to the await,
the delete of an expired entry included; `Reply`, `Fail` and `GiveUp` go from the
await to the return: an answer that is cached, an error (or an answer that is no
JSON object, on which `analyze` raises), the deadline. A `Reply` is possible until
the deadline is acted on. `Tick` is time, for the cache and for the waits; an age
above `TTL` stands for every later one. A `Question` is what the model is told:
alert, namespace and redacted evidence. A `Key` is what the SHA-256 key identifies:
alert and redacted evidence, without the namespace. An analysis carries the question
it was computed for, so that serving it under the same key to an incident in another
namespace can be seen; a call that was served from the cache ends in "hit", one that
the model answered in "answered". `last`, the latest answer of each key, is history.
The runbooks do not change while the process runs (`runbooks` is given to the
constructor).

## 3. Runs

| Run | Bounds | Shows |
|---|---|---|
| `policy_edits` | 2 actions (one is `delete`), 3 risk levels, 2 namespaces (one is `production`), limits 0..2, plans of up to 3 of 3 steps | the properties of section 1 for every policy reachable by edits (2304), those that empty the scope or zero a limit included, and every step |
| `operator` | 7 reconcilers, 6 payloads, 2 incidents, 1 restart | the properties of section 1 and `ImplementsLifecycle`, `Settles` |
| `executor` | plans of up to 3 steps over 2 names and 2 actions (one unknown), every subset of their undo entries, 2 calls, a simulated failure or none | the properties of section 1 and `ImplementsCompensation` |
| `approval` | 1 incident, 2 requests (every pair of the 4 operations), 2 timers | the properties of section 1 and `ExpiryDecides` |
| `circuit_breaker` | 3 callers, threshold 2, timeout 1, `Modulus` 5 | the properties of section 1 and `Recovers` |
| `compiler` | 2 callers; a complete runbook whose remediation, rollback or first section is replaced by every sequence of up to 3 lines (2 in the first section) of the kinds that matter there; 1 version of any of these, 2 of a few others | the properties of section 1, `LockIsReleased` and `ImplementsVersionLog` |
| `reasoner` | 2 coroutines, 2 alerts (one without a runbook), 2 namespaces, 2 pieces of evidence that differ in a secret, 1 answer, lifetime 2, deadline 1 | the properties of section 1 and `AnalysesEnd` |
| `operator_production` | as `operator` | violation: finding 1 |
| `approved_stands`, `rejected_never_executes` | as `approval` | violations: findings 2 and 3 |
| `executor_undoable` | as `executor` | violation: finding 5 |
| `half_open` | as `circuit_breaker` | violation: finding 4 |

Why these bounds are enough to meet the interesting cases:

* *policy_edits*: every comparison in the engine is an equality with `production`,
  `delete` or `low`, a membership test, or a comparison with zero or with a limit;
  two values on each side of each are present, and a step's verdict depends on no
  other step. The proofs of `PolicyEdits_proofs` have no bound.
* *operator*: goroutines touch only their own incident, so two of them show every
  interference there could be; one restart makes the ids collide. The runbooks
  have two steps so that a failure can leave one done, and a failing first step
  shows that the second is not tried; the configurations cover each verdict, no
  matching runbook, an unknown action, a simulated failure and the reasoner.
  `MaxRequests` and `MaxRestarts` bound the two counters.
* *executor*: three steps let a step in the middle lack an undo while both its
  neighbours have one; two names over three steps make two steps share one; the
  second call shows that the log of the first stays. `MaxCalls` bounds the calls.
* *approval*: the registry, the store and the timers are keyed by incident, so
  one incident is enough; two writers make every pairwise race, and a second
  timer meets the first one before, while and after it fires.
* *circuit_breaker*: one caller opens the breaker, one is on trial, one is late;
  `Modulus` is small enough to wrap within the run and larger than the threshold.
* *compiler*: the parser's state is a section, a subsection and a flag,
  which sections, headings and fences change; three free lines between fixed ones put every
  pair of kinds in either order, leave fences open, scatter a step over two headings
  and two sections, and give a field twice. The lock makes calls of `Store` follow
  one another; two versions of one name and two callers show that. `MaxVersions`
  bounds the versions.
* *reasoner*: the cache is a map by key, so two coroutines show every race on one
  entry; two namespaces let one key stand for two questions, and, with the ages,
  tell two answers under one key apart, for which a second answer would add nothing;
  a lifetime longer than the deadline lets an entry expire under, before and after a
  wait.

Deadlock checking is off where the system rightly stops: no webhook and no restart
left (operator), every call returned and every timer ended (approval), every version
stored (compiler).

Fairness. *Operator*: each `Reconcile` goroutine that can run does so; `Execute`
and `Analyze` return. Nothing forces a webhook or a restart. *Approval*: deadlines
pass, timers run, and a request that began goes on (`h.mu` is never held across a
blocking call); nothing forces a client to call. *CircuitBreaker*: time passes;
nothing forces a call or its return. *Compiler*: a `Store` that began goes on; nothing
forces one. *Reasoner*: time passes and the event loop runs its timers, which is what
`asyncio.wait_for` rests on; the model need never answer.

## 4. Findings

1. `ReconcilerWithReasoner.Reconcile` (`reconciler.go:142-190`) runs the plan
   without the policy engine, in production too, against requirement 4.6
   (`specs/requirements.md:92`). `cmd/main.go` uses the other reconciler.
2. An expiry timer that read RequiresApproval overwrites a later approval with
   Rejected (`approval.go:120-129`); `approval_timeout_test.go:50` expects it "should not be
   rejected after approval". Cancelling does not help: the context has expired.
3. `ApprovalHandler.Approve` (`approval.go:149-159`) executes an incident it found
   Rejected, against requirement 5.3 (`specs/requirements.md:105`).
4. The half-open breaker admits every caller (`circuit_breaker.go:54-63`);
   `circuit_breaker_test.go:102` speaks of one request.
5. `CheckRollback` approves a step under any rollback entry, matching or not
   (`rollback.go:26-27`, deliberate by the comment there, against the one at line 7
   and requirement 4.3, `specs/requirements.md:88`); the executor skips a step
   without its own entry (`executor.go:133-140`), so an approved plan can fail and
   leave in force a step that nothing undoes.

Met while modelling, and not the subject of a run: `ExecuteWithRollback` rolls back
at once, where requirement 11.2 wants a human to choose; `CheckBlastRadius` is
called by nobody but tests, and so is `ValidatePlanWithLimit`, so requirement 11.5
is not enforced; the audit trail is incomplete: approvals and rejections over HTTP
(`approval.go:50-51`, `79-80`) and expiries (`approval.go:126-128`) decide without a
record, where requirement 7.3 (`specs/requirements.md:137`) wants one for every
action executed or rejected, and nothing writes the `approval_timeout` record that
`audit/store.go:21` names; `OnlyFullHandlerRecords` states exactly which decisions
have one. Where there is one it follows the change of phase, and requirement 7.7
(`specs/requirements.md:141`) wants it first. A timer that fires after a newer one
was started for its incident removes the newer one's registry entry
(`approval.go:131-133`), which can then no longer be cancelled. Webhooks are not
deduplicated (requirement 2.6) and the parser looks at the first alert of a payload,
not "the first firing alert" (`parser.go:34`); ids repeat after a restart; a late
success of a call admitted before the breaker opened closes it within the window. In
the compiler: a risk is compared by its exact spelling, so a step marked "High"
counts as low for `GeneratePolicy` and for the engine and runs unasked outside
production; "- Namespaces:" with nothing after the colon yields a scope of one empty
name, which blocks every step; a fence never closed swallows the rest of the
document, its rollback section included; no code turns a `ParsedRunbook` into the
`types.Runbook` the engine takes (`CompiledPlanIsHeld` takes the fields as they
are). In the reasoner: the token budget is applied to each piece of evidence and not
to the incident (`orchestrator.py:57-60`, requirement 13.3); `main.py` passes
`LLMClient` a `max_tokens` it does not accept and its `/analyze` bypasses the
orchestrator; an answer that is JSON but no object makes `analyze` raise; concurrent
analyses under one key each call the model. The model is told the namespace
(`orchestrator.py:64-69`) but the cache is not (`orchestrator.py:52, 103`), so an
incident may be served an analysis made for another namespace. Requirement 13.2
(`specs/requirements.md:224`) asks for caching "on repeated incident types with
similar evidence patterns" and says nothing of namespaces, so this is reported here
and not as a finding; `ServedForThisIncident` states it.

## 5. Proofs

Assumptions are the named `ASSUME`s of the modules: the shape of payloads,
configurations, plans and limits, `NoTimer` not being a timer, timers not being
requests, a threshold between 1 and
the counter's width, documents that are non-empty sequences of lines, redaction that
maps evidence to evidence. TLC evaluates them in the runs.

* **PolicyEngine_proofs.** `ChainIsStrictest`: the five checks have a known range
  (`CheckRange`), strictness is injective on it (`StrictnessValues`), a set of
  verdicts has a strictest member (`StrictestOfSet`); then by cases on the first
  check that objects. `ApprovedIsCleared` unfolds both sides. `TighterIsStricter`
  gives monotonicity from an order on policies (`Tighter`). `LeastExists` (from the
  library's well-founded order on the numbers) serves the other modules.
* **PolicyEdits_proofs.** An edit that lifts nothing yields a `Tighter` policy
  (`EditsTighten`). One that does, lifts one restriction and changes nothing else
  (`LiftsAlone`), so only the verdicts which that restriction caused can become milder
  (`LiftKeepsVerdict`, `LiftKeepsBlastRadius`); `NoEditRelaxes` joins the two cases.
  The two state properties need only the type invariant.
  `LimitAlwaysKeepsFirst` compares the code's running count with "the first few"
  (`FirstFew`) without induction: a set of positions has a least and a greatest
  member (`LeastExists`), and the steps kept are those before the least one dropped.
* **Operator_proofs.** `PhaseIsTruthful` is not inductive: it says nothing of where
  the goroutine is. `IInv` adds, for each incident (`WorkerOK`), that the goroutine
  holds the store's copy, which program points go with which phase, that the
  runbook is the matched one and its plan cleared, and that what ran for the
  incident is exactly the part of the plan before the goroutine's step; and that
  what ran before the last restart carries an older restart number, so reused ids
  do not mix. `Refinement` maps `work` to the number of steps run; it rests on
  `IInv` for the transition table and on finiteness for the count.
  `EngineKeepsProductionManual` is the other half of finding 1: `ExecutedIsCleared`
  speaks of all steps of a plan, and the additional invariant `RanOfPlan`, that what
  ran is a step of that plan, carries it to the step itself, so that the reconciler
  with the policy engine never runs one in production. `SettledIncidentsStay` is about
  the whole records that goroutines write back: by `WorkerOK` the copy is the stored
  incident, and its phase is not a settled one while its goroutine can still write.
* **Executor_proofs.** `LogReversesPlan` says which steps have been undone in terms
  of the loop index, which makes it inductive; `IInv` adds that a running call has
  no error and a call that returned one has finished its loop. `Refinement` has one
  lemma per action of `Compensation` and needs only that invariant.
  `FailureLeavesUndone` is the other half of finding 5: which steps stay in force
  depends on their own entries alone, and with one for each nothing stays.
* **Approval_proofs.** `CheckedWritersRespectDecisions` speaks of decisions already
  written; the goroutine that is about to write is what a proof has to follow.
  `IInv` adds that a decided incident stays decided (`DecidedPhases`), hence that a
  timer or an HTTP request that read RequiresApproval had no decision before its
  read (`Fresh`, in `TimerOK` and `RequestOK`), and that it has written nothing
  until its program counter says so, so that its `readAt` may still move. For the
  audit trail `VerdictOK` ties the decision a request wrote to its program counter
  and its record, and `AuditOK` every record to a finished request of `FullHandler`;
  together they make `AuditTrailExact` an equivalence, so that it says of HTTP
  requests and timers that they leave no record. For the registry `TimerOK` has an
  idle timer armed. One lemma per action, the two that write over `WriteFacts`. A
  second invariant, `History`, needs the first: every decision was written after its
  writer's read, and the store shows the last one (`StoreShowsLastDecision`).
  Together they give the other half of finding 3 (`CheckedCallsKeepRejections`): a
  rejection that was there to be seen is overturned only by
  `ApprovalHandler.Approve`, never through the HTTP handlers.
* **CircuitBreaker_proofs.** `IInv`: `failures` never exceeds `run` and equals it
  until `run` reaches `Modulus`; closed exactly when `run < MaxFailures`. Only the
  failure that wraps the counter needs an argument: it cannot happen while closed,
  because the threshold is below the width. `FailedTrialReopens` covers that failure
  too: it sends the counter back to 0, below the threshold, and `misses` is bounded by
  what the counter still has to climb (`FailStep`), so at most `MaxFailures`
  failures leave the breaker half-open, and only after the wrap.

* **Compiler_proofs.** *The parser.* `ParserAgrees` needs no induction over the
  document, because the machine reads it a line per step: the invariant (`ReadInv`)
  is the agreement after *n* lines, and `ReadLineAgrees` carries it to *n + 1*. It
  has two parts. `Position` puts the parser's locals in the words of the reference
  definition: the flag is the parity of the fences (`EvenStep`), section and
  subsection are the texts of the last headings (`HeadingStep`), the open code block
  is the text since the last fence. `Says` is then kept part by part (`FieldsStep`
  and `SaysMerge` for the steps, `ForbiddenStep`, `NamespacesStep`,
  `DiagnosisStep`): what the headings say of a line is settled by the lines before
  it, so a new line adds at most itself to each set of lines.
  *The store.* `IInv` adds that version *i* is at position *i*, that the returned
  versions are exactly the stored ones, that only the holder of the lock is in a
  call, so that the list it read is still the stored one, and that a stored runbook
  has a rollback section and step names that are unique (`WellFormed`), which
  `ReadLine` keeps line by line. `Refinement` and `RefusedIfIncomplete` join the
  two invariants: at the end of its document a parser has found a rollback exactly
  if the document is `Complete` (`WholeDocument`).
  *The policy.* `PolicyHoldsPlan` is about every parsed runbook, reachable or not:
  by cases on the highest risk, over `GeneratePolicy` and the engine's checks.
  `StricterRunbookTightens` compares the policies of two runbooks and ends in
  `TighterIsStricter`.
* **Reasoner_proofs.** `ServedForThisIncident` says nothing of entries nobody has
  asked for yet; `IInv` adds that every entry holds an analysis of its own key's
  alert and evidence, made for some namespace, with the flag of its alert, and that a
  waiting coroutine has matched its own alert. `LatestAnswerIsKept` is inductive as it
  stands. `OwnNamespaceWhereOneAsks` says what would close the gap: if under each key
  only one namespace ever asks, every analysis served, from the cache too, is of the
  incident's own namespace. Its invariant `InNamespace` follows the namespace from the
  coroutine into the entry and out of it.

Only model-checked: the liveness properties (`Settles`, `ExpiryDecides`, `Recovers`,
`LockIsReleased`, `AnalysesEnd`), which rest on fairness and are out of the prover's
reach. Every safety property, action property and refinement that a passing run
checks is also a theorem. The violations are TLC's; for findings 1, 3 and 5 a
theorem says under which condition the property does hold.

## 6. Plan

Done, in this order: policy engine; operator and its lifecycle; executor and
compensation; approval workflow; circuit breaker; runbook compiler and versions;
reasoner; the parser's agreement with its reference definition and the version log.
Each has an inductive invariant and theorems about the properties its run checks.

Left, if the code grows there:

1. The joint behaviour of operator and backend, once an approval resumes an incident;
   today the stores share nothing.
2. The fallback chain of the reasoner, once something constructs it.

## 7. Not modelled

*Pure data or I/O*: redaction and prompt building (regular expressions and text),
the reasoner's tool server and job processor, evidence collection (external commands,
called by no service), Slack messages, JWT and service tokens, routing, metrics,
tracing, health endpoints, configuration. None keeps state that outlives a request.

*State too simple to go wrong*: the backend's runbook store and list handlers, a map
under a lock; the gateway's table of the library's rate limiters, which only grows;
the audit trail's readers, which sort and filter.

*Not called*: `Retry`, a loop around one call; `FallbackClient`, whose methods the
orchestrator does not use; `TokenBudget.record_usage`; `MatchRunbook` and
`ClassifyRisk`, which repeat the reconciler's matching. `ValidatePlanSafe` guards
against panics no input of `ValidatePlan` causes.

Formatting of ids, reasons and messages is left out everywhere, and so is a step's
target, which no decision reads.
