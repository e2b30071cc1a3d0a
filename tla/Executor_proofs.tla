--------------------------- MODULE Executor_proofs --------------------------
(***************************************************************************)
(* Proofs about the executor's two loops, for plans of any length, any     *)
(* choice of undo entries and any number of calls.                         *)
(***************************************************************************)
EXTENDS Executor, TLAPS

\* What a plan and its names are.
LEMMA PlanFacts ==
    ASSUME NEW rb \in Runbooks \cup {NoRunbook}
    PROVE  /\ Len(rb.remediation) \in Nat
           /\ DOMAIN rb.remediation = 1..Len(rb.remediation)
           /\ \A k \in DOMAIN rb.remediation :
                  UndoOf[rb.remediation[k].name] \in Names
<1>1. CASE rb \in Runbooks
  <2>. DEFINE S == [name : Names, action : STRING, risk : STRING, autoApprove : BOOLEAN]
  <2>1. rb.remediation \in Seq(S)
    BY <1>1, RunbooksAssumption
  <2>2. \A e \in S : e.name \in Names
    OBVIOUS
  <2>. HIDE DEF S
  <2>3. /\ Len(rb.remediation) \in Nat
        /\ DOMAIN rb.remediation = 1..Len(rb.remediation)
        /\ \A k \in DOMAIN rb.remediation : rb.remediation[k] \in S
    BY <2>1
  <2>. QED  BY <2>2, <2>3, UndoAssumption
<1>2. CASE rb = NoRunbook
  <2>1. rb.remediation = <<>>
    BY <1>2 DEF NoRunbook
  <2>. QED  BY <2>1
<1>. QED  BY <1>1, <1>2

\* Before the first call there is no plan.
LEMMA EmptyPlan ==
    ASSUME NEW rb, rb = NoRunbook
    PROVE  rb.remediation = <<>>
  BY DEF NoRunbook

\* Appending keeps what is there in its place.
LEMMA AppendFacts ==
    ASSUME NEW S, NEW s \in Seq(S), NEW e \in S
    PROVE  /\ Append(s, e) \in Seq(S)
           /\ Len(s) \in Nat /\ Len(Append(s, e)) = Len(s) + 1
           /\ DOMAIN s = 1..Len(s)
           /\ DOMAIN Append(s, e) = DOMAIN s \cup {Len(s) + 1}
           /\ \A n \in DOMAIN s : Append(s, e)[n] = s[n]
           /\ Append(s, e)[Len(s) + 1] = e
  OBVIOUS

\* The initial state satisfies the invariant.
LEMMA InitInvariant == Init => IInv
<1>. SUFFICES ASSUME Init PROVE IInv
  OBVIOUS
<1>1. /\ runbook = NoRunbook /\ pc = "idle" /\ err = "nil"
      /\ RollbackLog = <<>> /\ undone = <<>>
      /\ tried = 0 /\ i = 0 /\ calls = 0 /\ before = 0
  BY DEF Init
<1>2. runbook.remediation = <<>>
  BY <1>1, EmptyPlan
<1>3. /\ Plan = {} /\ Len(runbook.remediation) = 0
      /\ DOMAIN undone = {} /\ Len(undone) = 0 /\ Len(RollbackLog) = 0
  BY <1>1, <1>2 DEF Plan
<1>4. TypeOK
  BY <1>1, <1>3 DEF TypeOK
<1>5. LogReversesPlan
  BY <1>1, <1>3 DEF LogReversesPlan
<1>6. StopsAtFirstError
  BY <1>1, <1>3 DEF StopsAtFirstError
<1>. QED  BY <1>1, <1>4, <1>5, <1>6 DEF IInv

\* Between calls nothing but failAction changes, and no finished call depends on it.
LEMMA SetFailActionInvariant ==
    ASSUME IInv, NEW action, SetFailAction(action)
    PROVE  IInv'
  BY DEF SetFailAction, IInv, TypeOK, LogReversesPlan, StopsAtFirstError, Plan,
         HasUndo, UndoName

\* A call begins.
LEMMA CallInvariant ==
    ASSUME IInv, NEW rb \in Runbooks, ExecuteWithRollback(rb)
    PROVE  IInv'
<1>. USE DEF ExecuteWithRollback
<1>1. Len(rb.remediation) \in Nat
  BY PlanFacts
<1>2. TypeOK'
  BY <1>1 DEF IInv, TypeOK, Plan
<1>3. LogReversesPlan'
  BY DEF IInv, TypeOK, LogReversesPlan
<1>4. StopsAtFirstError'
  BY <1>1 DEF StopsAtFirstError
<1>. QED  BY <1>2, <1>3, <1>4 DEF IInv

\* A step of the plan is run.
LEMMA ExecuteStepInvariant ==
    ASSUME IInv, ExecuteStep
    PROVE  IInv'
<1>1. /\ UNCHANGED <<failAction, RollbackLog, runbook, calls, before, undone>>
      /\ pc = "run" /\ tried < Len(runbook.remediation) /\ tried' = tried + 1
      /\ Len(runbook.remediation) \in Nat /\ tried \in Nat /\ i \in 0..tried
      /\ Plan = 1..Len(runbook.remediation)
  BY PlanFacts DEF ExecuteStep, IInv, TypeOK, Plan
<1>. DEFINE fails == ExecuteFails(runbook.remediation[tried + 1])
<1>2. \/ fails /\ err' = "error" /\ pc' = "rollback" /\ i' = tried + 1
      \/ ~fails /\ err' = "nil" /\ pc' = "run" /\ i' = i
  BY <1>1 DEF ExecuteStep, Execute
<1>. HIDE DEF fails
<1>3. TypeOK'
  BY <1>1, <1>2 DEF IInv, TypeOK, Plan
<1>4. DOMAIN undone = {}
  <2>1. ASSUME NEW k \in DOMAIN undone PROVE FALSE
    <3>1. undone[k] \in Plan
      BY DEF IInv, TypeOK
    <3>2. err = "error"
      BY <3>1 DEF IInv, LogReversesPlan
    <3>. QED  BY <1>1, <3>2 DEF IInv
  <2>. QED  BY <2>1
<1>5. LogReversesPlan'
  <2>1. \A p \in Plan : ~(i' < p /\ p <= tried' /\ err' = "error")
    BY <1>1, <1>2
  <2>2. RollbackLog' = RollbackLog /\ before' = before /\ undone' = undone
        /\ Plan' = Plan
    BY <1>1 DEF Plan
  <2>. QED  BY <1>4, <2>1, <2>2 DEF IInv, LogReversesPlan
<1>6. StopsAtFirstError'
  <2>1. \A k \in 1..tried : ~ExecuteFails(runbook.remediation[k])
    BY <1>1 DEF IInv, StopsAtFirstError
  <2>2. ASSUME NEW k \in 1..tried'
        PROVE  ExecuteFails(runbook.remediation[k])' <=> k = tried' /\ err' = "error"
    <3>1. ExecuteFails(runbook.remediation[k])'
              <=> ExecuteFails(runbook.remediation[k])
      BY <1>1 DEF ExecuteFails
    <3>2. CASE k = tried + 1
      BY <1>1, <1>2, <3>1, <3>2 DEF fails
    <3>3. CASE k # tried + 1
      <4>1. k \in 1..tried /\ k # tried'
        BY <1>1, <3>3
      <4>. QED  BY <2>1, <3>1, <4>1
    <3>. QED  BY <3>2, <3>3
  <2>3. pc' # "idle"
    BY <1>2
  <2>. QED  BY <2>2, <2>3 DEF StopsAtFirstError
<1>. QED  BY <1>2, <1>3, <1>5, <1>6 DEF IInv

\* The call returns.
LEMMA ReturnInvariant ==
    ASSUME IInv, ReturnNil \/ ReturnError
    PROVE  IInv'
<1>1. /\ UNCHANGED <<failAction, RollbackLog, runbook, tried, i, err, calls,
                     before, undone>>
      /\ pc' = "idle"
      /\ \/ pc = "run" /\ tried = Len(runbook.remediation)
         \/ pc = "rollback" /\ i = 0
  BY DEF ReturnNil, ReturnError
<1>2. TypeOK'
  BY <1>1 DEF IInv, TypeOK, Plan
<1>3. LogReversesPlan'
  BY <1>1 DEF IInv, LogReversesPlan, Plan, HasUndo, UndoName
<1>4. StopsAtFirstError'
  BY <1>1 DEF IInv, StopsAtFirstError
<1>. QED  BY <1>1, <1>2, <1>3, <1>4 DEF IInv

\* A step of the plan is rolled back, or passed over.
LEMMA RollbackStepInvariant ==
    ASSUME IInv, RollbackStep
    PROVE  IInv'
<1>1. /\ UNCHANGED <<failAction, runbook, pc, tried, err, calls, before>>
      /\ pc = "rollback" /\ err = "error"
      /\ i \in 1..tried /\ i' = i - 1 /\ tried \in 1..Len(runbook.remediation)
      /\ i' \in 0..tried
      /\ Len(runbook.remediation) \in Nat
      /\ Plan = 1..Len(runbook.remediation)
      /\ i \in Plan /\ UndoName(i) \in Names
      /\ UNCHANGED <<Plan>>
      /\ \A k : UndoName(k)' = UndoName(k) /\ (HasUndo(k)' <=> HasUndo(k))
  BY PlanFacts DEF RollbackStep, IInv, TypeOK, Plan, UndoName, HasUndo
<1>2. /\ RollbackLog \in Seq(Names) /\ undone \in Seq(Plan)
      /\ before \in Nat /\ before <= Len(RollbackLog)
      /\ Len(RollbackLog) = before + Len(undone)
  BY DEF IInv, TypeOK, LogReversesPlan
<1>3. StopsAtFirstError'
  BY <1>1 DEF IInv, StopsAtFirstError, ExecuteFails
<1>4. CASE HasUndo(i)
  <2>1. /\ RollbackLog' = Append(RollbackLog, UndoName(i))
        /\ undone' = Append(undone, i)
    BY <1>4 DEF RollbackStep
  <2>2. /\ RollbackLog' \in Seq(Names)
        /\ Len(RollbackLog) \in Nat /\ Len(RollbackLog') = Len(RollbackLog) + 1
        /\ DOMAIN RollbackLog = 1..Len(RollbackLog)
        /\ \A k \in DOMAIN RollbackLog : RollbackLog'[k] = RollbackLog[k]
        /\ RollbackLog'[Len(RollbackLog) + 1] = UndoName(i)
    <3>1. PICK n \in Names : n = UndoName(i)
      BY <1>1
    <3>2. RollbackLog' = Append(RollbackLog, n) /\ RollbackLog \in Seq(Names)
      BY <1>2, <2>1, <3>1
    <3>3. /\ Append(RollbackLog, n) \in Seq(Names)
          /\ Len(RollbackLog) \in Nat
          /\ Len(Append(RollbackLog, n)) = Len(RollbackLog) + 1
          /\ DOMAIN RollbackLog = 1..Len(RollbackLog)
          /\ \A k \in DOMAIN RollbackLog :
                 Append(RollbackLog, n)[k] = RollbackLog[k]
          /\ Append(RollbackLog, n)[Len(RollbackLog) + 1] = n
      BY <3>2, AppendFacts
    <3>. QED  BY <3>1, <3>2, <3>3
  <2>3. /\ undone' \in Seq(Plan)
        /\ Len(undone) \in Nat /\ Len(undone') = Len(undone) + 1
        /\ DOMAIN undone = 1..Len(undone)
        /\ DOMAIN undone' = DOMAIN undone \cup {Len(undone) + 1}
        /\ \A k \in DOMAIN undone : undone'[k] = undone[k]
        /\ undone'[Len(undone) + 1] = i
    <3>. HIDE DEF Plan
    <3>. QED  BY <1>1, <1>2, <2>1, AppendFacts
  <2>4. TypeOK'
    BY <1>1, <1>2, <2>2, <2>3 DEF IInv, TypeOK
  <2>5. \A k \in DOMAIN undone : undone[k] \in Plan /\ undone[k] > i
    BY <1>1, <1>2 DEF IInv, LogReversesPlan
  <2>6. Len(RollbackLog') = before' + Len(undone')
    BY <1>1, <1>2, <2>2, <2>3
  <2>7. \A k \in DOMAIN undone' : RollbackLog'[before' + k] = UndoName(undone'[k])
    <3>1. ASSUME NEW k \in DOMAIN undone
          PROVE  RollbackLog'[before' + k] = UndoName(undone'[k])
      <4>1. before + k \in DOMAIN RollbackLog
        BY <1>2, <2>2, <2>3
      <4>2. RollbackLog[before + k] = UndoName(undone[k])
        BY DEF IInv, LogReversesPlan
      <4>. QED  BY <1>1, <2>2, <2>3, <4>1, <4>2
    <3>2. RollbackLog'[before' + (Len(undone) + 1)]
              = UndoName(undone'[Len(undone) + 1])
      <4>1. before' + (Len(undone) + 1) = Len(RollbackLog) + 1
        BY <1>1, <1>2, <2>3
      <4>. QED  BY <1>1, <2>2, <2>3, <4>1
    <3>. QED  BY <2>3, <3>1, <3>2
  <2>8. \A j, k \in DOMAIN undone' : j < k => undone'[j] > undone'[k]
    BY <1>1, <2>3, <2>5 DEF IInv, LogReversesPlan
  <2>9. \A p \in Plan : (\E k \in DOMAIN undone' : undone'[k] = p)
                            <=> i' < p /\ p <= tried /\ HasUndo(p)
    <3>. SUFFICES ASSUME NEW p \in Plan
                  PROVE  (\E k \in DOMAIN undone' : undone'[k] = p)
                             <=> i' < p /\ p <= tried /\ HasUndo(p)
      OBVIOUS
    <3>1. (\E k \in DOMAIN undone' : undone'[k] = p)
              <=> p = i \/ \E k \in DOMAIN undone : undone[k] = p
      BY <2>3
    <3>2. (\E k \in DOMAIN undone : undone[k] = p)
              <=> i < p /\ p <= tried /\ HasUndo(p)
      BY <1>1 DEF IInv, LogReversesPlan
    <3>. QED  BY <1>1, <1>4, <3>1, <3>2
  <2>10. LogReversesPlan'
    BY <1>1, <2>6, <2>7, <2>8, <2>9
       DEF LogReversesPlan, UndoName, HasUndo, Plan
  <2>. QED  BY <1>1, <1>3, <2>4, <2>10 DEF IInv
<1>5. CASE ~HasUndo(i)
  <2>1. UNCHANGED <<RollbackLog, undone>>
    BY <1>5 DEF RollbackStep
  <2>2. TypeOK'
    BY <1>1, <2>1 DEF IInv, TypeOK
  <2>3. \A p \in Plan : (\E k \in DOMAIN undone' : undone'[k] = p)
                            <=> i' < p /\ p <= tried /\ HasUndo(p)
    <3>. SUFFICES ASSUME NEW p \in Plan
                  PROVE  (\E k \in DOMAIN undone : undone[k] = p)
                             <=> i' < p /\ p <= tried /\ HasUndo(p)
      BY <2>1
    <3>1. (\E k \in DOMAIN undone : undone[k] = p)
              <=> i < p /\ p <= tried /\ HasUndo(p)
      BY <1>1 DEF IInv, LogReversesPlan
    <3>. QED  BY <1>1, <1>5, <3>1
  <2>4. LogReversesPlan'
    BY <1>1, <2>1, <2>3 DEF IInv, LogReversesPlan, UndoName
  <2>. QED  BY <1>1, <1>3, <2>2, <2>4 DEF IInv
<1>. QED  BY <1>4, <1>5

-----------------------------------------------------------------------------
(* The theorems. *)

\* Every step of every call keeps the invariant.
THEOREM Invariance == Spec => []IInv
<1>1. ASSUME IInv, [Next]_vars PROVE IInv'
  <2>1. CASE \E action \in FailActions : SetFailAction(action)
    BY <1>1, <2>1, SetFailActionInvariant
  <2>2. CASE \E rb \in Runbooks : ExecuteWithRollback(rb)
    BY <1>1, <2>2, CallInvariant
  <2>3. CASE ExecuteStep
    BY <1>1, <2>3, ExecuteStepInvariant
  <2>4. CASE ReturnNil \/ ReturnError
    BY <1>1, <2>4, ReturnInvariant
  <2>5. CASE RollbackStep
    BY <1>1, <2>5, RollbackStepInvariant
  <2>6. CASE UNCHANGED vars
    BY <1>1, <2>6 DEF vars, IInv, TypeOK, LogReversesPlan, StopsAtFirstError,
                      Plan, HasUndo, UndoName, ExecuteFails
  <2>. QED  BY <1>1, <2>1, <2>2, <2>3, <2>4, <2>5, <2>6 DEF Next
<1>. QED  BY InitInvariant, <1>1, PTL DEF Spec

\* The indices stay in the plan and the log holds names of entries.
THEOREM TypeCorrect == Spec => []TypeOK
<1>1. IInv => TypeOK
  BY DEF IInv
<1>. QED  BY Invariance, <1>1, PTL

\* A rollback undoes exactly the tried steps that have an undo, once each, the
\* latest first, for every plan and every choice of entries (executor.go:121-142).
THEOREM RollbackReverses == Spec => []LogReversesPlan
<1>1. IInv => LogReversesPlan
  BY DEF IInv
<1>. QED  BY Invariance, <1>1, PTL

\* Nothing is started after the first error, and nil means that the whole plan ran
\* (executor.go:43-52).
THEOREM ErrorStopsPlan == Spec => []StopsAtFirstError
<1>1. IInv => StopsAtFirstError
  BY DEF IInv
<1>. QED  BY Invariance, <1>1, PTL

\* After a call that returned an error, what stays in force of the tried steps, the
\* failed one included, are exactly those that have no undo of their own: a plan
\* of undoable steps leaves nothing behind (executor.go:43-52, 122-142).
THEOREM FailureLeavesUndone ==
    Spec => [](pc = "idle" /\ err = "error" =>
                   /\ InForce = {p \in 1..tried : ~HasUndo(p)}
                   /\ (\A p \in Plan : HasUndo(p)) => InForce = {})
<1>1. ASSUME IInv, pc = "idle", err = "error"
      PROVE  /\ InForce = {p \in 1..tried : ~HasUndo(p)}
             /\ (\A p \in Plan : HasUndo(p)) => InForce = {}
  <2>1. /\ i = 0 /\ tried \in 0..Len(runbook.remediation)
        /\ Len(runbook.remediation) \in Nat
        /\ Plan = 1..Len(runbook.remediation)
    BY <1>1, PlanFacts DEF IInv, TypeOK, Plan
  <2>2. \A p \in Plan : (\E k \in DOMAIN undone : undone[k] = p)
                            <=> p <= tried /\ HasUndo(p)
    BY <1>1, <2>1 DEF IInv, LogReversesPlan
  <2>3. 1..tried \subseteq Plan
    BY <2>1
  <2>4. InForce = {p \in 1..tried : ~HasUndo(p)}
    BY <2>2, <2>3 DEF InForce
  <2>. QED  BY <2>3, <2>4
<1>. QED  BY Invariance, <1>1, PTL

-----------------------------------------------------------------------------
(* Refinement, one lemma per action of the abstract specification. *)

USE DEF C!cvars

\* A call begins with nothing in force; the undo entries belong to steps of the plan.
LEMMA BeginStep ==
    ASSUME IInv, NEW rb \in Runbooks, ExecuteWithRollback(rb)
    PROVE  C!Begin
<1>1. pc = "idle" /\ pc' = "run" /\ runbook' = rb /\ tried' = 0
  BY DEF ExecuteWithRollback
<1>2. Len(rb.remediation) \in Nat /\ DOMAIN rb.remediation = 1..Len(rb.remediation)
  BY PlanFacts
<1>3. InForce' = {}
  BY <1>1 DEF InForce
<1>4. Mode = "idle" /\ Mode' = "forward"
  BY <1>1 DEF Mode
<1>5. {p \in Plan : HasUndo(p)}' \in SUBSET (1..Len(runbook'.remediation))
  BY <1>1, <1>2 DEF Plan
<1>. QED  BY <1>1, <1>2, <1>3, <1>4, <1>5 DEF C!Begin

\* Running a step tries it.
LEMMA TryStep ==
    ASSUME IInv, ExecuteStep
    PROVE  C!Try
<1>1. /\ UNCHANGED <<runbook, undone>>
      /\ pc = "run" /\ tried < Len(runbook.remediation) /\ tried' = tried + 1
      /\ Len(runbook.remediation) \in Nat /\ tried \in Nat
      /\ pc' \in {"run", "rollback"} /\ err = "nil"
  BY PlanFacts DEF ExecuteStep, IInv, TypeOK
<1>2. DOMAIN undone = {}
  <2>1. ASSUME NEW k \in DOMAIN undone PROVE FALSE
    <3>1. undone[k] \in Plan
      BY DEF IInv, TypeOK
    <3>. QED  BY <1>1, <3>1 DEF IInv, LogReversesPlan
  <2>. QED  BY <2>1
<1>3. InForce = 1..tried /\ InForce' = 1..(tried + 1)
  BY <1>1, <1>2 DEF InForce
<1>4. Mode = "forward" /\ Mode' \in {"forward", "backward"}
  BY <1>1 DEF Mode
<1>5. UNCHANGED <<Len(runbook.remediation), {p \in Plan : HasUndo(p)}>>
  BY <1>1 DEF Plan, HasUndo, UndoName
<1>6. tried \in 0..Len(runbook.remediation)
  BY <1>1
<1>. QED  BY <1>1, <1>3, <1>4, <1>5, <1>6 DEF C!Try

\* Returning nil leaves the whole plan in force.
LEMMA CommitStep ==
    ASSUME IInv, ReturnNil
    PROVE  C!Commit
<1>1. /\ UNCHANGED <<runbook, undone, tried>>
      /\ pc = "run" /\ tried = Len(runbook.remediation) /\ pc' = "idle"
      /\ err = "nil"
  BY DEF ReturnNil, IInv
<1>2. DOMAIN undone = {}
  <2>1. ASSUME NEW k \in DOMAIN undone PROVE FALSE
    <3>1. undone[k] \in Plan
      BY DEF IInv, TypeOK
    <3>. QED  BY <1>1, <3>1 DEF IInv, LogReversesPlan
  <2>. QED  BY <2>1
<1>3. InForce = 1..tried /\ UNCHANGED InForce
  BY <1>1, <1>2 DEF InForce
<1>4. Mode = "forward" /\ Mode' = "idle"
  BY <1>1 DEF Mode
<1>5. UNCHANGED <<Len(runbook.remediation), {p \in Plan : HasUndo(p)}>>
  BY <1>1 DEF Plan, HasUndo, UndoName
<1>. QED  BY <1>1, <1>3, <1>4, <1>5 DEF C!Commit

\* A step rolled back is the latest one still in force that has an undo; a step
\* passed over changes nothing an observer sees.
LEMMA UndoStep ==
    ASSUME IInv, RollbackStep
    PROVE  C!Undo \/ UNCHANGED C!cvars
<1>1. /\ UNCHANGED <<runbook, tried, pc>>
      /\ pc = "rollback" /\ err = "error" /\ i \in 1..tried
      /\ tried \in 1..Len(runbook.remediation)
      /\ Len(runbook.remediation) \in Nat
      /\ Plan = 1..Len(runbook.remediation) /\ undone \in Seq(Plan)
  BY PlanFacts DEF RollbackStep, IInv, TypeOK, Plan
<1>2. Mode = "backward" /\ UNCHANGED Mode
  BY <1>1 DEF Mode
<1>3. UNCHANGED <<Len(runbook.remediation), {p \in Plan : HasUndo(p)}>>
  BY <1>1 DEF Plan, HasUndo, UndoName
<1>4. CASE ~HasUndo(i)
  <2>1. UNCHANGED InForce
    BY <1>1, <1>4 DEF RollbackStep, InForce
  <2>. QED  BY <1>2, <1>3, <2>1
<1>5. CASE HasUndo(i)
  <2>1. \A p \in Plan : (\E k \in DOMAIN undone : undone[k] = p)
                            <=> i < p /\ p <= tried /\ HasUndo(p)
    BY <1>1 DEF IInv, LogReversesPlan
  <2>2. i \in Plan /\ i \in InForce
    BY <1>1, <2>1 DEF InForce
  <2>3. ASSUME NEW q \in InForce, HasUndo(q) PROVE q <= i
    BY <1>1, <2>1, <2>3 DEF InForce
  <2>4. InForce' = InForce \ {i}
    <3>1. undone' = Append(undone, i)
      BY <1>5 DEF RollbackStep
    <3>. HIDE DEF Plan
    <3>2. /\ DOMAIN undone' = DOMAIN undone \cup {Len(undone) + 1}
          /\ \A k \in DOMAIN undone : undone'[k] = undone[k]
          /\ undone'[Len(undone) + 1] = i
      BY <1>1, <2>2, <3>1, AppendFacts
    <3>. QED  BY <1>1, <3>2 DEF InForce
  <2>5. i \in InForce \cap {p \in Plan : HasUndo(p)}
    BY <1>5, <2>2
  <2>. QED  BY <1>2, <1>3, <2>3, <2>4, <2>5 DEF C!Undo
<1>. QED  BY <1>4, <1>5

\* The error is returned when nothing that has an undo is in force.
LEMMA AbortStep ==
    ASSUME IInv, ReturnError
    PROVE  C!Abort
<1>1. /\ UNCHANGED <<runbook, undone, tried>>
      /\ pc = "rollback" /\ i = 0 /\ pc' = "idle" /\ err = "error"
      /\ tried \in 0..Len(runbook.remediation)
      /\ Len(runbook.remediation) \in Nat
      /\ Plan = 1..Len(runbook.remediation)
  BY PlanFacts DEF ReturnError, IInv, TypeOK, Plan
<1>2. InForce \cap {p \in Plan : HasUndo(p)} = {}
  BY <1>1 DEF IInv, LogReversesPlan, InForce
<1>3. Mode = "backward" /\ Mode' = "idle"
  BY <1>1 DEF Mode
<1>4. UNCHANGED <<InForce, Len(runbook.remediation), {p \in Plan : HasUndo(p)}>>
  BY <1>1 DEF Plan, HasUndo, UndoName, InForce
<1>. QED  BY <1>2, <1>3, <1>4 DEF C!Abort

\* ExecuteWithRollback is all of the plan or an orderly retreat: after an error the
\* steps in force are undone one by one, the latest first, until none is left that
\* has an undo (executor.go:35-53, 122-142).
THEOREM Refinement == Spec => ImplementsCompensation
<1>1. Init => C!CInit
  <2>. SUFFICES ASSUME Init PROVE C!CInit
    OBVIOUS
  <2>1. runbook = NoRunbook /\ pc = "idle" /\ tried = 0
    BY DEF Init
  <2>2. runbook.remediation = <<>>
    BY <2>1, EmptyPlan
  <2>3. Plan = {} /\ Len(runbook.remediation) = 0 /\ InForce = {}
    BY <2>1, <2>2 DEF Plan, InForce
  <2>. QED  BY <2>1, <2>3 DEF C!CInit, Mode
<1>2. ASSUME IInv, [Next]_vars PROVE [C!CNext]_(C!cvars)
  <2>1. CASE \E action \in FailActions : SetFailAction(action)
    BY <2>1 DEF SetFailAction, Mode, Plan, HasUndo, UndoName, InForce
  <2>2. CASE \E rb \in Runbooks : ExecuteWithRollback(rb)
    BY <1>2, <2>2, BeginStep DEF C!CNext
  <2>3. CASE ExecuteStep
    BY <1>2, <2>3, TryStep DEF C!CNext
  <2>4. CASE ReturnNil
    BY <1>2, <2>4, CommitStep DEF C!CNext
  <2>5. CASE RollbackStep
    BY <1>2, <2>5, UndoStep DEF C!CNext
  <2>6. CASE ReturnError
    BY <1>2, <2>6, AbortStep DEF C!CNext
  <2>7. CASE UNCHANGED vars
    BY <2>7 DEF vars, Mode, Plan, HasUndo, UndoName, InForce
  <2>. QED  BY <1>2, <2>1, <2>2, <2>3, <2>4, <2>5, <2>6, <2>7 DEF Next
<1>. QED  BY Invariance, <1>1, <1>2, PTL DEF Spec, ImplementsCompensation, C!CSpec
=============================================================================
