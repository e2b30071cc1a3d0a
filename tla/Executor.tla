------------------------------ MODULE Executor ------------------------------
(***************************************************************************)
(* The operator's executor (services/operator/internal/executor): running  *)
(* the plan of a runbook and, on the first error, its rollback.  One        *)
(* executor serves a series of calls and keeps one RollbackLog over all of  *)
(* them.  Dry-run mode and the real one take the same branches and return   *)
(* the same errors, so the mode is left out.                                *)
(***************************************************************************)
EXTENDS PolicyEngine

CONSTANTS
    Names,         \* names of steps and of rollback entries
    UndoOf,        \* the name of the entry that undoes a step: "undo_" + name
    Runbooks,      \* the runbooks whose plans are executed
    FailActions,   \* arguments of SetFailAction; "" makes nothing fail
    MaxCalls       \* bound on the calls of ExecuteWithRollback

ASSUME UndoAssumption == UndoOf \in [Names -> Names]

ASSUME RunbooksAssumption ==
    \A rb \in Runbooks :
        /\ rb.remediation \in Seq([name : Names, action : STRING,
                                   risk : STRING, autoApprove : BOOLEAN])
        /\ rb.rollback \subseteq [name : Names, action : STRING]

VARIABLES
    failAction,    \* Executor.failAction
    RollbackLog,   \* Executor.RollbackLog
    runbook,       \* the arguments of the call: actions and rollbackSteps
    pc,            \* where the call is; "idle" between calls
    tried,         \* Len(executedSteps), which are the plan's first steps
    i,             \* rollback's loop index, counted from 1
    err,           \* what the call returns: "nil" or "error"
    calls,         \* calls made so far
    before,        \* history: Len(RollbackLog) when the call began
    undone         \* history: the steps undone in this call, in order

vars == <<failAction, RollbackLog, runbook, pc, tried, i, err, calls,
          before, undone>>

NoRunbook == [remediation |-> <<>>, rollback |-> {}]

Init == /\ failAction = ""
        /\ RollbackLog = <<>>
        /\ runbook = NoRunbook
        /\ pc = "idle"
        /\ tried = 0 /\ i = 0 /\ err = "nil" /\ calls = 0
        /\ before = 0 /\ undone = <<>>

-----------------------------------------------------------------------------
SetFailAction(action) ==
    /\ pc = "idle"
    /\ failAction' = action
    /\ UNCHANGED <<RollbackLog, runbook, pc, tried, i, err, calls, before, undone>>

ExecuteWithRollback(rb) ==
    /\ pc = "idle"
    /\ calls < MaxCalls
    /\ calls' = calls + 1
    /\ runbook' = rb
    /\ pc' = "run"
    /\ tried' = 0 /\ i' = 0 /\ err' = "nil"
    /\ before' = Len(RollbackLog) /\ undone' = <<>>
    /\ UNCHANGED <<failAction, RollbackLog>>

\* Execute's error paths: the simulated failure and the actions it does not know.
ExecuteFails(step) == \/ failAction # "" /\ step.action = failAction
                      \/ step.action \notin {"restart", "scale", "rollback"}

Execute(step) == IF ExecuteFails(step) THEN "error" ELSE "nil"

\* Mutant: an error does not stop the loop.
MutStep == /\ pc = "run"
           /\ tried < Len(runbook.remediation)
           /\ tried' = tried + 1
           /\ err' = IF err = "error" THEN err ELSE Execute(runbook.remediation[tried'])
           /\ pc' = IF err' = "error" /\ tried' = Len(runbook.remediation)
                    THEN "rollback" ELSE "run"
           /\ i' = tried'
           /\ UNCHANGED <<failAction, RollbackLog, runbook, calls, before, undone>>

\* Mutant: the loop index starts one past the last executed step.
MutIndex == /\ pc = "run"
            /\ tried < Len(runbook.remediation)
            /\ tried' = tried + 1
            /\ err' = Execute(runbook.remediation[tried'])
            /\ pc' = IF err' = "error" THEN "rollback" ELSE "run"
            /\ i' = IF err' = "error" THEN tried' + 1 ELSE i
            /\ UNCHANGED <<failAction, RollbackLog, runbook, calls, before, undone>>

\* Mutant: the failed step is recorded only after it succeeded.
MutRecord == /\ pc = "run"
             /\ tried < Len(runbook.remediation)
             /\ err' = Execute(runbook.remediation[tried + 1])
             /\ tried' = tried + 1
             /\ pc' = IF err' = "error" THEN "rollback" ELSE "run"
             /\ i' = IF err' = "error" THEN tried ELSE i
             /\ UNCHANGED <<failAction, RollbackLog, runbook, calls, before, undone>>

\* One turn of the forward loop.  The step is recorded before it runs, so a
\* failed step is among those rolled back.
ExecuteStep == /\ pc = "run"
               /\ tried < Len(runbook.remediation)
               /\ tried' = tried + 1
               /\ err' = Execute(runbook.remediation[tried'])
               /\ pc' = IF err' = "error" THEN "rollback" ELSE "run"
               /\ i' = IF err' = "error" THEN tried' ELSE i
               /\ UNCHANGED <<failAction, RollbackLog, runbook, calls, before, undone>>

\* return nil
ReturnNil == /\ pc = "run"
             /\ tried = Len(runbook.remediation)
             /\ pc' = "idle"
             /\ UNCHANGED <<failAction, RollbackLog, runbook, tried, i, err,
                            calls, before, undone>>

\* The entry that undoes step k of the plan, and whether the runbook has it.
UndoName(k) == UndoOf[runbook.remediation[k].name]

HasUndo(k) == \E rb \in runbook.rollback : rb.name = UndoName(k)

\* Mutant: a step without an undo ends the rollback.
MutRollbackStep ==
    /\ pc = "rollback"
    /\ i > 0
    /\ IF HasUndo(i)
       THEN /\ RollbackLog' = Append(RollbackLog, UndoName(i))
            /\ undone' = Append(undone, i)
            /\ i' = i - 1
       ELSE i' = 0 /\ UNCHANGED <<RollbackLog, undone>>
    /\ UNCHANGED <<failAction, runbook, pc, tried, err, calls, before>>

\* One turn of rollback's loop.
RollbackStep ==
    /\ pc = "rollback"
    /\ i > 0
    /\ i' = i - 1
    /\ IF HasUndo(i)
       THEN /\ RollbackLog' = Append(RollbackLog, UndoName(i))
            /\ undone' = Append(undone, i)
       ELSE UNCHANGED <<RollbackLog, undone>>
    /\ UNCHANGED <<failAction, runbook, pc, tried, err, calls, before>>

\* rollback returns, and the error is returned.
ReturnError == /\ pc = "rollback"
               /\ i = 0
               /\ pc' = "idle"
               /\ UNCHANGED <<failAction, RollbackLog, runbook, tried, i, err,
                              calls, before, undone>>

Next == \/ \E action \in FailActions : SetFailAction(action)
        \/ \E rb \in Runbooks : ExecuteWithRollback(rb)
        \/ ExecuteStep \/ ReturnNil \/ RollbackStep \/ ReturnError

Spec == Init /\ [][Next]_vars

-----------------------------------------------------------------------------
Plan == DOMAIN runbook.remediation

\* The shape of the state.
TypeOK == /\ RollbackLog \in Seq(Names)
          /\ runbook \in Runbooks \cup {NoRunbook}
          /\ pc \in {"idle", "run", "rollback"}
          /\ tried \in 0..Len(runbook.remediation)
          /\ i \in 0..tried
          /\ err \in {"nil", "error"}
          /\ calls \in Nat
          /\ before \in Nat /\ before <= Len(RollbackLog)
          /\ undone \in Seq(Plan)

\* The log of a call is the undo entries of exactly the steps it has rolled back
\* so far, the failed one included, in the reverse of their order, once per step
\* even when two steps share a name and so an undo; what earlier calls logged
\* stays before it (executor.go:121-142, requirements.md:197).
LogReversesPlan ==
    /\ Len(RollbackLog) = before + Len(undone)
    /\ \A k \in DOMAIN undone : RollbackLog[before + k] = UndoName(undone[k])
    /\ \A j, k \in DOMAIN undone : j < k => undone[j] > undone[k]
    /\ \A p \in Plan : (\E k \in DOMAIN undone : undone[k] = p)
                           <=> err = "error" /\ i < p /\ p <= tried /\ HasUndo(p)

\* A call stops at its first error and returns nil only if the whole plan ran: no
\* step before the last one tried err, and the last one did exactly when the
\* call rolls back (executor.go:43-52, requirements.md:195).
StopsAtFirstError ==
    /\ pc # "idle" => \A k \in 1..tried :
           ExecuteFails(runbook.remediation[k]) <=> k = tried /\ err = "error"
    /\ pc = "idle" /\ err = "nil" => tried = Len(runbook.remediation)

\* The steps of the plan that were tried and not undone.
InForce == {p \in 1..tried : \A k \in DOMAIN undone : undone[k] # p}

Mode == CASE pc = "idle" -> "idle" [] pc = "run" -> "forward"
          [] pc = "rollback" -> "backward"

C == INSTANCE Compensation WITH
         mode <- Mode, size <- Len(runbook.remediation),
         undoable <- {p \in Plan : HasUndo(p)}, inForce <- InForce

\* The two loops implement the abstract specification: all of the plan, or an
\* orderly retreat (executor.go:35-53, 122-142).
ImplementsCompensation == C!CSpec

\* "CheckRollback validates that a remediation step has a corresponding rollback
\* path" (rollback.go:7): when a plan the engine approves fails half-way, what
\* succeeded and stays in force are low-risk automatic steps, which need no undo.
ApprovedIsUndoable ==
    LET empty == [forbidden |-> {}, scope |-> {}, requireApprovalFor |-> {},
                  forbidDelete |-> FALSE, maxPods |-> 0, maxNamespaces |-> 0]
        verdict == ValidatePlan(runbook.remediation, empty, runbook, "staging")
    IN  /\ pc = "idle"
        /\ err = "error"
        /\ \A k \in Plan : verdict[k] = Approved
        => \A p \in InForce \ {tried} : /\ runbook.remediation[p].risk = "low"
                                        /\ runbook.remediation[p].autoApprove

-----------------------------------------------------------------------------
(* The inductive invariant of the proofs: the properties above, and that a call
   with an error is on its way back or has returned. *)

IInv == /\ TypeOK
        /\ LogReversesPlan
        /\ StopsAtFirstError
        /\ pc = "run" => err = "nil"
        /\ pc = "rollback" => err = "error"
        /\ pc = "idle" => err = "nil" \/ i = 0
=============================================================================
