--------------------------- MODULE Approval_proofs --------------------------
(***************************************************************************)
(* Proofs about the approval workflow, for any number of incidents, calls   *)
(* and timers.                                                             *)
(***************************************************************************)
EXTENDS Approval, TLAPS

\* A decision is added at the end; the ones before it keep their places.
LEMMA AppendFacts ==
    ASSUME NEW S, NEW s \in Seq(S), NEW e \in S
    PROVE  /\ Append(s, e) \in Seq(S)
           /\ Len(Append(s, e)) = Len(s) + 1
           /\ DOMAIN Append(s, e) = DOMAIN s \cup {Len(s) + 1}
           /\ \A n \in DOMAIN s : n <= Len(s) /\ n # Len(s) + 1
                                  /\ Append(s, e)[n] = s[n]
           /\ Append(s, e)[Len(s) + 1] = e
           /\ Len(s) \in Nat
  OBVIOUS

\* The initial state satisfies the invariant.
LEMMA InitInvariant == Init => IInv
<1>. SUFFICES ASSUME Init PROVE IInv
  OBVIOUS
<1>. USE DEF Init
<1>1. TypeOK
  BY DEF TypeOK, Phase, Decision
<1>2. DOMAIN writes = {} /\ DOMAIN audit = {} /\ Len(writes) = 0
  OBVIOUS
<1>3. \A t \in Timers : TimerOK(t)
  BY <1>2 DEF TimerOK
<1>4. \A r \in Requests : request[r].pc \in {"get", "cancel"}
  BY DEF Start
<1>5. \A r \in Requests : RequestOK(r)
  BY <1>2, <1>4 DEF RequestOK
<1>6. AuditOK /\ \A r \in Requests : VerdictOK(r)
  BY <1>2, <1>4 DEF AuditOK, VerdictOK
<1>7. RegistryIsLive
  BY DEF RegistryIsLive
<1>8. DecidedPhases /\ CheckedWritersRespectDecisions
  BY <1>2 DEF DecidedPhases, CheckedWritersRespectDecisions
<1>. QED  BY <1>1, <1>2, <1>3, <1>5, <1>6, <1>7, <1>8 DEF IInv

-----------------------------------------------------------------------------
(* Decisions. *)

\* Decisions name known parties and incidents.
LEMMA DecisionFacts ==
    ASSUME IInv, NEW n \in DOMAIN writes
    PROVE  /\ writes[n] \in Decision
           /\ writes[n].writer \in Requests \cup Timers
           /\ writes[n].id \in Ids
<1>1. writes \in Seq(Decision)
  BY DEF IInv, TypeOK
<1>2. writes[n] \in Decision
  BY <1>1
<1>. QED  BY <1>2 DEF Decision

-----------------------------------------------------------------------------
(* What a step leaves alone. *)

\* A step that touches no timer and no decision disturbs no timer.
LEMMA TimersFrame ==
    ASSUME IInv, UNCHANGED <<timer, writes, readAt>>
    PROVE  (\A t \in Timers : TimerOK(t))'
  BY DEF IInv, TimerOK, Fresh

\* A step that touches no request, decision or record disturbs none of them.
LEMMA RequestsFrame ==
    ASSUME IInv, UNCHANGED <<request, audit, writes, readAt>>
    PROVE  /\ (\A x \in Requests \cup Timers : readAt[x] <= Len(writes))'
           /\ (\A r \in Requests : RequestOK(r))'
           /\ CheckedWritersRespectDecisions'
           /\ AuditOK'
           /\ (\A r \in Requests : VerdictOK(r))'
<1>1. (\A r \in Requests : RequestOK(r))'
  BY DEF IInv, RequestOK, Fresh, Checked, Verdict
<1>2. CheckedWritersRespectDecisions'
  BY DEF IInv, CheckedWritersRespectDecisions, Checked
<1>3. AuditOK'
  BY DEF IInv, AuditOK
<1>4. (\A x \in Requests \cup Timers : readAt[x] <= Len(writes))'
  BY DEF IInv
<1>5. (\A r \in Requests : VerdictOK(r))'
  BY DEF IInv, VerdictOK, Verdict
<1>. QED  BY <1>1, <1>2, <1>3, <1>4, <1>5

\* A step that touches neither registry nor timers leaves them in agreement.
LEMMA RegistryFrame ==
    ASSUME IInv, UNCHANGED <<cancelFuncs, timer>>
    PROVE  RegistryIsLive'
  BY DEF IInv, RegistryIsLive

-----------------------------------------------------------------------------
(* One lemma per kind of step. *)

\* The store's other clients.
LEMMA CreateOrHold ==
    ASSUME IInv, NEW id \in Ids, Create(id) \/ Hold(id)
    PROVE  IInv'
<1>1. UNCHANGED <<cancelFuncs, timer, request, audit, writes, readAt>>
  BY DEF Create, Hold
<1>2. PICK p \in {"Pending", "RequiresApproval"} :
          phase' = [phase EXCEPT ![id] = p]
  BY DEF Create, Hold
<1>3. TypeOK'
  BY <1>1, <1>2 DEF IInv, TypeOK, Phase
<1>4. DecidedPhases'
  <2>1. phase[id] \notin {"Executing", "Rejected"}
    BY DEF Create, Hold
  <2>. QED  BY <1>1, <1>2, <2>1 DEF IInv, TypeOK, DecidedPhases, Decision
<1>. QED  BY <1>1, <1>3, <1>4, TimersFrame, RequestsFrame, RegistryFrame DEF IInv

\* A timer is started and takes the place of another one.
LEMMA StartInvariant ==
    ASSUME IInv, NEW t \in Timers, StartApprovalTimeout(t)
    PROVE  IInv'
<1>. DEFINE id == timer[t].id
            old == cancelFuncs[id]
<1>1. /\ UNCHANGED <<phase, request, audit, writes, readAt>>
      /\ cancelFuncs' = [cancelFuncs EXCEPT ![id] = t]
      /\ timer[t].pc = "idle" /\ timer[t].ctx = "armed"
      /\ id \in Ids /\ t # NoTimer /\ old # t
  BY NoTimerAssumption
     DEF StartApprovalTimeout, IInv, TypeOK, Timer, TimerOK, RegistryIsLive
<1>2. \A x \in Timers :
          /\ timer'[x].id = timer[x].id
          /\ timer'[x].pc = IF x = t THEN "wait" ELSE timer[x].pc
          /\ timer'[x].ctx = IF x = old THEN Cancelled(x).ctx ELSE timer[x].ctx
          /\ timer'[x] \in Timer
  <2>. SUFFICES ASSUME NEW x \in Timers
                PROVE  /\ timer'[x].id = timer[x].id
                       /\ timer'[x].pc = IF x = t THEN "wait" ELSE timer[x].pc
                       /\ timer'[x].ctx = IF x = old THEN Cancelled(x).ctx
                                                     ELSE timer[x].ctx
                       /\ timer'[x] \in Timer
    OBVIOUS
  <2>1. timer[x] \in Timer
    BY DEF IInv, TypeOK
  <2>2. CASE x = t
    BY <1>1, <2>1, <2>2 DEF StartApprovalTimeout, Timer
  <2>3. CASE x # t /\ x = old
    BY <1>1, <2>1, <2>3 DEF StartApprovalTimeout, Timer, Cancelled
  <2>4. CASE x # t /\ x # old
    BY <1>1, <2>1, <2>4 DEF StartApprovalTimeout, Timer
  <2>. QED  BY <2>2, <2>3, <2>4
<1>3. TypeOK'
  <2>1. timer' \in [Timers -> Timer]
    BY <1>2 DEF StartApprovalTimeout
  <2>2. cancelFuncs' \in [Ids -> Timers \cup {NoTimer}]
    BY <1>1 DEF IInv, TypeOK
  <2>. QED  BY <1>1, <2>1, <2>2 DEF IInv, TypeOK
<1>4. DecidedPhases'
  BY <1>1 DEF IInv, DecidedPhases
<1>5. (\A x \in Timers : TimerOK(x))'
  <2>. SUFFICES ASSUME NEW x \in Timers PROVE TimerOK(x)'
    OBVIOUS
  <2>1. TimerOK(x) /\ TimerOK(t)
    BY DEF IInv
  <2>2. x = old => timer[x].pc # "idle"
    BY <1>1, NoTimerAssumption DEF IInv, RegistryIsLive
  <2>. QED  BY <1>1, <1>2, <2>1, <2>2 DEF TimerOK, Fresh
<1>6. RegistryIsLive'
  <2>. SUFFICES ASSUME NEW j \in Ids, cancelFuncs'[j] # NoTimer
                PROVE  /\ timer'[cancelFuncs'[j]].id = j
                       /\ timer'[cancelFuncs'[j]].pc # "idle"
                       /\ timer'[cancelFuncs'[j]].ctx # "cancelled"
    BY DEF RegistryIsLive
  <2>1. CASE j = id
    BY <1>1, <1>2, <2>1 DEF IInv, TypeOK
  <2>2. CASE j # id
    <3>1. cancelFuncs'[j] = cancelFuncs[j] /\ cancelFuncs[j] \in Timers
      BY <1>1, <2>2 DEF IInv, TypeOK
    <3>2. /\ timer[cancelFuncs[j]].id = j
          /\ timer[cancelFuncs[j]].pc # "idle"
          /\ timer[cancelFuncs[j]].ctx # "cancelled"
      BY <3>1, NoTimerAssumption DEF IInv, RegistryIsLive
    <3>3. cancelFuncs[j] # old
      BY <1>1, <2>2, <3>1, <3>2, NoTimerAssumption DEF IInv, RegistryIsLive
    <3>. QED  BY <1>2, <3>1, <3>2, <3>3
  <2>. QED  BY <2>1, <2>2
<1>. QED  BY <1>1, <1>3, <1>4, <1>5, <1>6, RequestsFrame DEF IInv

\* A deadline passes.
LEMMA ExpireInvariant ==
    ASSUME IInv, NEW t \in Timers, Expire(t)
    PROVE  IInv'
<1>1. /\ UNCHANGED <<phase, cancelFuncs, request, audit, writes, readAt>>
      /\ timer' = [timer EXCEPT ![t].ctx = "expired"]
      /\ timer[t].pc = "wait"
  BY DEF Expire
<1>2. \A x \in Timers :
          /\ timer'[x].id = timer[x].id
          /\ timer'[x].pc = timer[x].pc
          /\ timer'[x].ctx = IF x = t THEN "expired" ELSE timer[x].ctx
  BY <1>1 DEF IInv, TypeOK, Timer
<1>3. TypeOK'
  BY <1>1 DEF IInv, TypeOK, Timer
<1>4. DecidedPhases'
  BY <1>1 DEF IInv, DecidedPhases
<1>5. (\A x \in Timers : TimerOK(x))'
  BY <1>1, <1>2 DEF IInv, TimerOK, Fresh
<1>6. RegistryIsLive'
  BY <1>1, <1>2 DEF IInv, TypeOK, RegistryIsLive
<1>. QED  BY <1>1, <1>3, <1>4, <1>5, <1>6, RequestsFrame DEF IInv

\* A timer wakes up: its context was cancelled, or it reads the store.
LEMMA WakeInvariant ==
    ASSUME IInv, NEW t \in Timers, WakeCancelled(t) \/ WakeExpired(t)
    PROVE  IInv'
<1>. DEFINE id == timer[t].id
<1>1. /\ UNCHANGED <<phase, cancelFuncs, request, audit, writes>>
      /\ timer[t].pc = "wait"
      /\ id \in Ids
  BY DEF WakeCancelled, WakeExpired, IInv, TypeOK, Timer
<1>2. PICK pc \in {"update", "delete", "done"} :
          /\ timer' = [timer EXCEPT ![t].pc = pc]
          /\ pc = "update" => /\ phase[id] = "RequiresApproval"
                              /\ readAt'[t] = Len(writes)
  <2>1. CASE WakeCancelled(t)
    BY <2>1 DEF WakeCancelled
  <2>2. CASE WakeExpired(t)
    BY <2>2, <1>1 DEF WakeExpired, IInv, TypeOK
  <2>. QED  BY <2>1, <2>2
<1>3. /\ readAt' \in [Requests \cup Timers -> Nat]
      /\ \A x \in (Requests \cup Timers) \ {t} : readAt'[x] = readAt[x]
      /\ readAt'[t] <= Len(writes)
  <2>1. Len(writes) \in Nat
    BY DEF IInv, TypeOK
  <2>2. CASE WakeCancelled(t)
    BY <2>2 DEF WakeCancelled, IInv, TypeOK
  <2>3. CASE WakeExpired(t)
    BY <2>1, <2>3 DEF WakeExpired, IInv, TypeOK
  <2>. QED  BY <2>2, <2>3
<1>4. \A x \in Timers :
          /\ timer'[x].id = timer[x].id
          /\ timer'[x].ctx = timer[x].ctx
          /\ timer'[x].pc = IF x = t THEN pc ELSE timer[x].pc
  BY <1>2 DEF IInv, TypeOK, Timer
<1>5. TypeOK'
  <2>1. timer' \in [Timers -> Timer]
    BY <1>2 DEF IInv, TypeOK, Timer
  <2>. QED  BY <1>1, <1>3, <2>1 DEF IInv, TypeOK
<1>6. (\A x \in Requests \cup Timers : readAt[x] <= Len(writes))'
  BY <1>1, <1>3 DEF IInv
<1>7. DecidedPhases'
  BY <1>1 DEF IInv, DecidedPhases
\* A timer that is still waiting has written nothing, so its new readAt changes
\* nothing about the decisions made so far.
<1>8. \A n \in DOMAIN writes : /\ writes[n].writer # t
                               /\ writes[n].writer \in Requests \cup Timers
  BY <1>1, DecisionFacts DEF IInv, TimerOK
<1>9. CheckedWritersRespectDecisions'
  BY <1>1, <1>3, <1>8 DEF IInv, CheckedWritersRespectDecisions, Checked
<1>10. (\A x \in Timers : TimerOK(x))'
  <2>. SUFFICES ASSUME NEW x \in Timers PROVE TimerOK(x)'
    OBVIOUS
  <2>1. CASE x = t
    <3>1. pc = "update" => \A m \in DOMAIN writes : writes[m].id # id
      BY <1>2 DEF IInv, DecidedPhases
    <3>2. (timer[t].pc = "update" => Fresh(t, timer[t].id))'
      BY <1>1, <1>4, <3>1 DEF Fresh
    <3>. QED  BY <1>1, <1>4, <1>8, <2>1, <3>2 DEF TimerOK
  <2>2. CASE x # t
    BY <1>1, <1>3, <1>4, <2>2 DEF IInv, TimerOK, Fresh
  <2>. QED  BY <2>1, <2>2
<1>11. (\A r \in Requests : RequestOK(r))'
  <2>. SUFFICES ASSUME NEW r \in Requests PROVE RequestOK(r)'
    OBVIOUS
  <2>1. readAt'[r] = readAt[r]
    BY <1>3, WritersAssumption
  <2>. QED  BY <1>1, <2>1 DEF IInv, RequestOK, Fresh, Checked, Verdict
<1>12. AuditOK' /\ (\A r \in Requests : VerdictOK(r))'
  BY <1>1 DEF IInv, AuditOK, VerdictOK, Verdict
<1>13. RegistryIsLive'
  BY <1>1, <1>4 DEF IInv, TypeOK, RegistryIsLive
<1>. QED
  BY <1>5, <1>6, <1>7, <1>9, <1>10, <1>11, <1>12, <1>13 DEF IInv

\* A timer removes its incident's entry.
LEMMA TimerDeleteInvariant ==
    ASSUME IInv, NEW t \in Timers, TimerDelete(t)
    PROVE  IInv'
<1>1. /\ UNCHANGED <<phase, request, audit, writes, readAt>>
      /\ cancelFuncs' = [cancelFuncs EXCEPT ![timer[t].id] = NoTimer]
      /\ timer' = [timer EXCEPT ![t].pc = "done"]
      /\ timer[t].pc = "delete"
  BY DEF TimerDelete
<1>2. \A x \in Timers :
          /\ timer'[x].id = timer[x].id
          /\ timer'[x].ctx = timer[x].ctx
          /\ timer'[x].pc = IF x = t THEN "done" ELSE timer[x].pc
  BY <1>1 DEF IInv, TypeOK, Timer
<1>3. TypeOK'
  BY <1>1 DEF IInv, TypeOK, Timer
<1>4. DecidedPhases'
  BY <1>1 DEF IInv, DecidedPhases
<1>5. (\A x \in Timers : TimerOK(x))'
  BY <1>1, <1>2 DEF IInv, TimerOK, Fresh
<1>6. RegistryIsLive'
  BY <1>1, <1>2 DEF IInv, TypeOK, RegistryIsLive
<1>. QED  BY <1>1, <1>3, <1>4, <1>5, <1>6, RequestsFrame DEF IInv

\* An approve or reject cancels the timer its incident is bound to.
LEMMA CancelInvariant ==
    ASSUME IInv, NEW r \in Requests, CancelTimeout(r)
    PROVE  IInv'
<1>. DEFINE id == request[r].id
            old == cancelFuncs[id]
<1>1. /\ UNCHANGED <<phase, audit, writes, readAt>>
      /\ cancelFuncs' = [cancelFuncs EXCEPT ![id] = NoTimer]
      /\ request' = [request EXCEPT ![r].pc = "get"]
      /\ request[r].pc = "cancel"
      /\ id \in Ids
  BY DEF CancelTimeout, Goto, IInv, TypeOK, Request
<1>2. \A x \in Timers :
          /\ timer'[x].id = timer[x].id
          /\ timer'[x].pc = timer[x].pc
          /\ timer'[x].ctx = IF x = old THEN Cancelled(x).ctx ELSE timer[x].ctx
          /\ timer'[x] \in Timer
  <2>. SUFFICES ASSUME NEW x \in Timers
                PROVE  /\ timer'[x].id = timer[x].id
                       /\ timer'[x].pc = timer[x].pc
                       /\ timer'[x].ctx = IF x = old THEN Cancelled(x).ctx
                                                     ELSE timer[x].ctx
                       /\ timer'[x] \in Timer
    OBVIOUS
  <2>1. timer[x] \in Timer
    BY DEF IInv, TypeOK
  <2>2. CASE x = old
    BY <2>1, <2>2 DEF CancelTimeout, Timer, Cancelled
  <2>3. CASE x # old
    BY <2>1, <2>3 DEF CancelTimeout
  <2>. QED  BY <2>2, <2>3
<1>3. \A q \in Requests :
          /\ request'[q].id = request[q].id
          /\ request'[q].op = request[q].op
          /\ request'[q].pc = IF q = r THEN "get" ELSE request[q].pc
  BY <1>1 DEF IInv, TypeOK, Request
<1>4. TypeOK'
  <2>1. timer' \in [Timers -> Timer]
    BY <1>2 DEF CancelTimeout
  <2>2. request' \in [Requests -> Request]
    BY <1>1 DEF IInv, TypeOK, Request
  <2>. QED  BY <1>1, <2>1, <2>2 DEF IInv, TypeOK
<1>5. DecidedPhases'
  BY <1>1 DEF IInv, DecidedPhases
<1>6. (\A x \in Timers : TimerOK(x))'
  <2>. SUFFICES ASSUME NEW x \in Timers PROVE TimerOK(x)'
    OBVIOUS
  <2>1. TimerOK(x)
    BY DEF IInv
  <2>2. x = old => timer[x].pc # "idle"
    BY <1>1, NoTimerAssumption DEF IInv, RegistryIsLive
  <2>. QED  BY <1>1, <1>2, <2>1, <2>2 DEF TimerOK, Fresh
<1>7. (\A q \in Requests : RequestOK(q))'
  BY <1>1, <1>3 DEF IInv, RequestOK, Fresh, Checked, Verdict
<1>8. CheckedWritersRespectDecisions'
  BY <1>1, <1>3 DEF IInv, CheckedWritersRespectDecisions, Checked
<1>9. AuditOK' /\ (\A q \in Requests : VerdictOK(q))'
  BY <1>1, <1>3 DEF IInv, AuditOK, VerdictOK, Verdict
<1>10. RegistryIsLive'
  <2>. SUFFICES ASSUME NEW j \in Ids, cancelFuncs'[j] # NoTimer
                PROVE  /\ timer'[cancelFuncs'[j]].id = j
                       /\ timer'[cancelFuncs'[j]].pc # "idle"
                       /\ timer'[cancelFuncs'[j]].ctx # "cancelled"
    BY DEF RegistryIsLive
  <2>1. j # id /\ cancelFuncs'[j] = cancelFuncs[j] /\ cancelFuncs[j] \in Timers
    BY <1>1 DEF IInv, TypeOK
  <2>2. /\ timer[cancelFuncs[j]].id = j
        /\ timer[cancelFuncs[j]].pc # "idle"
        /\ timer[cancelFuncs[j]].ctx # "cancelled"
    BY <2>1, NoTimerAssumption DEF IInv, RegistryIsLive
  <2>3. cancelFuncs[j] # old
    BY <1>1, <2>1, <2>2, NoTimerAssumption DEF IInv, RegistryIsLive
  <2>. QED  BY <1>2, <2>1, <2>2, <2>3
<1>. QED
  BY <1>1, <1>4, <1>5, <1>6, <1>7, <1>8, <1>9, <1>10 DEF IInv

\* A request reads the store.
LEMMA GetInvariant ==
    ASSUME IInv, NEW r \in Requests, GetIncident(r)
    PROVE  IInv'
<1>. DEFINE id == request[r].id
<1>1. /\ UNCHANGED <<phase, cancelFuncs, timer, audit, writes>>
      /\ request[r].pc = "get"
      /\ id \in Ids
  BY DEF GetIncident, IInv, TypeOK, Request
<1>2. PICK pc \in {"refused", "update"} :
          /\ request' = [request EXCEPT ![r].pc = pc]
          /\ pc = "update" /\ Checked(r) => phase[id] = "RequiresApproval"
  BY DEF GetIncident, Goto, Checked
<1>3. /\ readAt' = [readAt EXCEPT ![r] = Len(writes)]
      /\ Len(writes) \in Nat
  BY DEF GetIncident, IInv, TypeOK
<1>4. \A q \in Requests :
          /\ request'[q].id = request[q].id
          /\ request'[q].op = request[q].op
          /\ request'[q].pc = IF q = r THEN pc ELSE request[q].pc
  BY <1>2 DEF IInv, TypeOK, Request
<1>5. TypeOK'
  <2>1. request' \in [Requests -> Request]
    BY <1>2 DEF IInv, TypeOK, Request
  <2>. QED  BY <1>1, <1>3, <2>1 DEF IInv, TypeOK
<1>6. (\A x \in Requests \cup Timers : readAt[x] <= Len(writes))'
  BY <1>1, <1>3 DEF IInv, TypeOK
<1>7. DecidedPhases'
  BY <1>1 DEF IInv, DecidedPhases
<1>8. (\A x \in Timers : TimerOK(x))'
  <2>. SUFFICES ASSUME NEW x \in Timers PROVE TimerOK(x)'
    OBVIOUS
  <2>1. readAt'[x] = readAt[x]
    BY <1>3, WritersAssumption DEF IInv, TypeOK
  <2>. QED  BY <1>1, <2>1 DEF IInv, TimerOK, Fresh
\* A request that has not written yet.
<1>9. \A n \in DOMAIN writes : /\ writes[n].writer # r
                               /\ writes[n].writer \in Requests \cup Timers
  BY <1>1, DecisionFacts DEF IInv, RequestOK
<1>10. (\A q \in Requests : RequestOK(q))'
  <2>. SUFFICES ASSUME NEW q \in Requests PROVE RequestOK(q)'
    OBVIOUS
  <2>0. RequestOK(q) /\ Checked(q)' = Checked(q) /\ Verdict(q)' = Verdict(q)
    BY <1>4 DEF IInv, Checked, Verdict
  <2>1. CASE q = r
    <3>1. pc = "update" /\ Checked(r) => \A m \in DOMAIN writes : writes[m].id # id
      BY <1>2 DEF IInv, DecidedPhases
    <3>2. (request[r].pc = "update" /\ Checked(r) => Fresh(r, request[r].id))'
      BY <1>1, <1>4, <2>0, <2>1, <3>1 DEF Fresh
    <3>. QED  BY <1>1, <1>4, <1>9, <2>0, <2>1, <3>2 DEF RequestOK
  <2>2. CASE q # r
    <3>1. readAt'[q] = readAt[q]
      BY <1>3, <2>2 DEF IInv, TypeOK
    <3>. QED  BY <1>1, <1>4, <2>0, <2>2, <3>1 DEF RequestOK, Fresh
  <2>. QED  BY <2>1, <2>2
<1>11. CheckedWritersRespectDecisions'
  <2>1. \A n \in DOMAIN writes : readAt'[writes[n].writer] = readAt[writes[n].writer]
    BY <1>3, <1>9 DEF IInv, TypeOK
  <2>. QED  BY <1>1, <1>4, <2>1 DEF IInv, CheckedWritersRespectDecisions, Checked
<1>12. AuditOK' /\ (\A q \in Requests : VerdictOK(q))'
  BY <1>1, <1>4 DEF IInv, AuditOK, VerdictOK, Verdict
<1>13. RegistryIsLive'
  BY <1>1, RegistryFrame
<1>. QED
  BY <1>5, <1>6, <1>7, <1>8, <1>10, <1>11, <1>12, <1>13 DEF IInv

\* A decision is written: one entry more, the ones before it in their places.
LEMMA WriteFacts ==
    ASSUME IInv, NEW x \in Requests \cup Timers, NEW id \in Ids,
           NEW p \in {"Executing", "Rejected"}, Write(x, id, p)
    PROVE  /\ phase' \in [Ids -> Phase] /\ writes' \in Seq(Decision)
           /\ Len(writes) \in Nat /\ Len(writes') = Len(writes) + 1
           /\ DOMAIN writes' = DOMAIN writes \cup {Len(writes) + 1}
           /\ \A n \in DOMAIN writes : n <= Len(writes) /\ n # Len(writes) + 1
                                       /\ writes'[n] = writes[n]
           /\ writes'[Len(writes) + 1] = [writer |-> x, id |-> id, phase |-> p]
           /\ DecidedPhases'
<1>. DEFINE e == [writer |-> x, id |-> id, phase |-> p]
<1>1. e \in Decision
  BY DEF Decision, Phase
<1>2. writes \in Seq(Decision) /\ writes' = Append(writes, e)
  BY DEF IInv, TypeOK, Write
<1>3. /\ Append(writes, e) \in Seq(Decision)
      /\ Len(Append(writes, e)) = Len(writes) + 1
      /\ DOMAIN Append(writes, e) = DOMAIN writes \cup {Len(writes) + 1}
      /\ \A n \in DOMAIN writes : n <= Len(writes) /\ n # Len(writes) + 1
                                  /\ Append(writes, e)[n] = writes[n]
      /\ Append(writes, e)[Len(writes) + 1] = e
      /\ Len(writes) \in Nat
  BY <1>1, <1>2, AppendFacts
<1>4. phase' = [phase EXCEPT ![id] = p] /\ phase \in [Ids -> Phase]
  BY DEF IInv, TypeOK, Write
<1>5. phase' \in [Ids -> Phase]
  BY <1>4 DEF Phase
<1>6. ASSUME NEW m \in DOMAIN writes'
      PROVE  phase'[writes'[m].id] \in {"Executing", "Rejected"}
  <2>1. CASE m = Len(writes) + 1
    BY <1>2, <1>3, <1>4, <2>1
  <2>2. CASE m \in DOMAIN writes
    <3>1. writes'[m].id = writes[m].id /\ writes[m].id \in Ids
      BY <1>2, <1>3, <2>2, DecisionFacts
    <3>2. phase[writes[m].id] \in {"Executing", "Rejected"}
      BY <2>2 DEF IInv, DecidedPhases
    <3>. QED  BY <1>4, <3>1, <3>2
  <2>. QED  BY <1>2, <1>3, <2>1, <2>2
<1>7. DecidedPhases'
  BY <1>6 DEF DecidedPhases
<1>. QED  BY <1>2, <1>3, <1>5, <1>7

\* A timer writes its rejection.
LEMMA TimerUpdateInvariant ==
    ASSUME IInv, NEW t \in Timers, TimerUpdate(t)
    PROVE  IInv'
<1>. DEFINE id == timer[t].id
            last == Len(writes) + 1
<1>1. /\ UNCHANGED <<cancelFuncs, request, audit, readAt>>
      /\ timer' = [timer EXCEPT ![t].pc = "delete"]
      /\ timer[t].pc = "update"
      /\ id \in Ids
      /\ Write(t, id, "Rejected")
  BY DEF TimerUpdate, IInv, TypeOK, Timer
<1>2. /\ phase' \in [Ids -> Phase] /\ writes' \in Seq(Decision)
      /\ Len(writes) \in Nat /\ Len(writes') = last
      /\ DOMAIN writes' = DOMAIN writes \cup {last}
      /\ \A n \in DOMAIN writes : n <= Len(writes) /\ n # last
                                  /\ writes'[n] = writes[n]
      /\ writes'[last] = [writer |-> t, id |-> id, phase |-> "Rejected"]
      /\ DecidedPhases'
  BY <1>1, WriteFacts
<1>3. \A x \in Timers :
          /\ timer'[x].id = timer[x].id
          /\ timer'[x].ctx = timer[x].ctx
          /\ timer'[x].pc = IF x = t THEN "delete" ELSE timer[x].pc
  BY <1>1 DEF IInv, TypeOK, Timer
<1>4. TypeOK'
  <2>1. timer' \in [Timers -> Timer]
    BY <1>1 DEF IInv, TypeOK, Timer
  <2>. QED  BY <1>1, <1>2, <2>1 DEF IInv, TypeOK
<1>5. (\A x \in Requests \cup Timers : readAt[x] <= Len(writes))'
  BY <1>1, <1>2 DEF IInv, TypeOK
<1>6. Fresh(t, id)
  BY <1>1 DEF IInv, TimerOK
<1>7. ASSUME NEW x \in Timers PROVE TimerOK(x)'
  <2>1. TimerOK(x)
    BY DEF IInv
  <2>2. CASE x = t
    BY <1>1, <1>3, <2>1, <2>2 DEF TimerOK
  <2>3. CASE x # t
    <3>1. (timer[x].pc = "update" => Fresh(x, timer[x].id))'
      <4>1. readAt[x] < last
        BY <1>2 DEF IInv, TypeOK
      <4>. QED  BY <1>1, <1>2, <1>3, <2>1, <2>3, <4>1 DEF TimerOK, Fresh
    <3>2. (\A n \in DOMAIN writes :
              writes[n].writer = x => timer[x].pc \in {"delete", "done"})'
      BY <1>2, <1>3, <2>1, <2>3 DEF TimerOK
    <3>3. (timer[x].pc = "idle" => timer[x].ctx = "armed")'
      BY <1>3, <2>1, <2>3 DEF TimerOK
    <3>. QED  BY <3>1, <3>2, <3>3 DEF TimerOK
  <2>. QED  BY <2>2, <2>3
<1>8. ASSUME NEW r \in Requests PROVE RequestOK(r)'
  <2>1. RequestOK(r) /\ r # t
    BY WritersAssumption DEF IInv
  <2>2. readAt[r] < last
    BY <1>2 DEF IInv, TypeOK
  <2>3. (request[r].pc = "update" /\ Checked(r) => Fresh(r, request[r].id))'
    BY <1>1, <1>2, <2>1, <2>2 DEF RequestOK, Fresh, Checked
  <2>4. (\A n \in DOMAIN writes :
            writes[n].writer = r => request[r].pc \in {"audit", "done"})'
    BY <1>1, <1>2, <2>1 DEF RequestOK
  <2>5. (request[r].pc \in {"audit", "done"} =>
            \E n \in DOMAIN writes : writes[n] = Verdict(r))'
    BY <1>1, <1>2, <2>1 DEF RequestOK, Verdict
  <2>. QED  BY <1>1, <2>1, <2>3, <2>4, <2>5 DEF RequestOK
<1>9. CheckedWritersRespectDecisions'
  BY <1>1, <1>2, <1>6
     DEF IInv, CheckedWritersRespectDecisions, Checked, Fresh
<1>10. AuditOK'
  BY <1>1, <1>2 DEF IInv, AuditOK
<1>12. ASSUME NEW r \in Requests PROVE VerdictOK(r)'
  <2>1. VerdictOK(r) /\ r # t /\ Verdict(r)' = Verdict(r)
    BY <1>1, WritersAssumption DEF IInv, Verdict
  <2>. QED  BY <1>1, <1>2, <2>1 DEF VerdictOK
<1>11. RegistryIsLive'
  BY <1>1, <1>3 DEF IInv, TypeOK, RegistryIsLive
<1>. QED
  BY <1>2, <1>4, <1>5, <1>7, <1>8, <1>9, <1>10, <1>11, <1>12 DEF IInv

\* A request writes its decision.
LEMMA UpdateInvariant ==
    ASSUME IInv, NEW r \in Requests, UpdateIncident(r)
    PROVE  IInv'
<1>. DEFINE id == request[r].id
            last == Len(writes) + 1
<1>1. /\ UNCHANGED <<cancelFuncs, timer, audit, readAt>>
      /\ request[r].pc = "update"
      /\ id \in Ids
      /\ Outcome(request[r].op) \in {"Executing", "Rejected"}
      /\ Write(r, id, Outcome(request[r].op))
  BY DEF UpdateIncident, IInv, TypeOK, Request, Outcome
<1>2. /\ phase' \in [Ids -> Phase] /\ writes' \in Seq(Decision)
      /\ Len(writes) \in Nat /\ Len(writes') = last
      /\ DOMAIN writes' = DOMAIN writes \cup {last}
      /\ \A n \in DOMAIN writes : n <= Len(writes) /\ n # last
                                  /\ writes'[n] = writes[n]
      /\ writes'[last] = Verdict(r)
      /\ DecidedPhases'
  BY <1>1, WriteFacts DEF Verdict
<1>3. PICK pc \in {"done", "audit"} :
          /\ request' = [request EXCEPT ![r].pc = pc]
          /\ pc = "done" => request[r].op \in HTTPOps
          /\ pc = "audit" => request[r].op \in FullOps
  BY DEF UpdateIncident, Goto, IInv, TypeOK, Request
<1>4. \A q \in Requests :
          /\ request'[q].id = request[q].id
          /\ request'[q].op = request[q].op
          /\ request'[q].pc = IF q = r THEN pc ELSE request[q].pc
  BY <1>3 DEF IInv, TypeOK, Request
<1>5. TypeOK'
  <2>1. request' \in [Requests -> Request]
    BY <1>3 DEF IInv, TypeOK, Request
  <2>. QED  BY <1>1, <1>2, <2>1 DEF IInv, TypeOK
<1>6. (\A x \in Requests \cup Timers : readAt[x] <= Len(writes))'
  BY <1>1, <1>2 DEF IInv, TypeOK
<1>7. Checked(r) => Fresh(r, id)
  BY <1>1 DEF IInv, RequestOK
<1>8. \A q \in Requests : Verdict(q)' = Verdict(q) /\ Checked(q)' = Checked(q)
  BY <1>4 DEF Verdict, Checked
<1>9. Verdict(r).writer = r /\ Verdict(r).id = id
  BY DEF Verdict
<1>10. ASSUME NEW x \in Timers PROVE TimerOK(x)'
  <2>1. TimerOK(x) /\ x # r /\ readAt[x] < last
    BY <1>2, WritersAssumption DEF IInv, TypeOK
  <2>2. (timer[x].pc = "update" => Fresh(x, timer[x].id))'
    BY <1>1, <1>2, <2>1 DEF TimerOK, Fresh
  <2>3. (\A n \in DOMAIN writes :
            writes[n].writer = x => timer[x].pc \in {"delete", "done"})'
    BY <1>1, <1>2, <1>9, <2>1 DEF TimerOK
  <2>. QED  BY <1>1, <2>1, <2>2, <2>3 DEF TimerOK
<1>11. ASSUME NEW q \in Requests PROVE RequestOK(q)'
  <2>1. RequestOK(q) /\ readAt[q] < last
    BY <1>2 DEF IInv, TypeOK
  <2>2. CASE q = r
    <3>1. \A k \in DOMAIN audit : audit[k].actor # r
      BY <1>1, <2>1, <2>2 DEF RequestOK
    <3>2. (\E n \in DOMAIN writes : writes[n] = Verdict(r))'
      BY <1>2, <1>8
    <3>. QED  BY <1>1, <1>4, <2>2, <3>1, <3>2 DEF RequestOK
  <2>3. CASE q # r
    <3>1. (request[q].pc = "update" /\ Checked(q) => Fresh(q, request[q].id))'
      BY <1>1, <1>2, <1>4, <1>8, <2>1, <2>3 DEF RequestOK, Fresh
    <3>2. (\A n \in DOMAIN writes :
              writes[n].writer = q => request[q].pc \in {"audit", "done"})'
      BY <1>2, <1>4, <1>9, <2>1, <2>3 DEF RequestOK
    <3>3. (request[q].pc \in {"audit", "done"} =>
              \E n \in DOMAIN writes : writes[n] = Verdict(q))'
      BY <1>2, <1>4, <1>8, <2>1, <2>3 DEF RequestOK
    <3>4. (\A k \in DOMAIN audit : audit[k].actor = q =>
              /\ request[q].pc = "done"
              /\ audit[k].id = request[q].id
              /\ audit[k].phase = Outcome(request[q].op))'
      BY <1>1, <1>4, <2>1, <2>3 DEF RequestOK
    <3>. QED  BY <3>1, <3>2, <3>3, <3>4 DEF RequestOK
  <2>. QED  BY <2>2, <2>3
<1>12. CheckedWritersRespectDecisions'
  <2>. SUFFICES ASSUME NEW m \in DOMAIN writes', NEW n \in DOMAIN writes', m < n,
                       writes'[m].id = writes'[n].id,
                       writes'[n].writer \in Requests =>
                           request'[writes'[n].writer].op \in HTTPOps
                PROVE  m > readAt[writes'[n].writer]
    BY <1>1 DEF CheckedWritersRespectDecisions, Checked
  <2>1. m \in DOMAIN writes /\ writes'[m] = writes[m]
    <3>1. DOMAIN writes \subseteq Nat /\ \A k \in DOMAIN writes : k < last
      BY <1>2 DEF IInv, TypeOK
    <3>. QED  BY <1>2, <3>1
  <2>2. CASE n = last
    <3>1. Fresh(r, id) /\ writes[m].id = id
      BY <1>2, <1>4, <1>7, <1>9, <2>1, <2>2 DEF Checked
    <3>. QED  BY <1>2, <1>9, <2>1, <2>2, <3>1 DEF Fresh
  <2>3. CASE n \in DOMAIN writes
    <3>1. writes'[n] = writes[n] /\ Checked(writes[n].writer)
      BY <1>2, <1>4, <2>3 DEF Checked
    <3>. QED
      BY <2>1, <2>3, <3>1 DEF IInv, CheckedWritersRespectDecisions
  <2>. QED  BY <1>2, <2>2, <2>3
<1>13. AuditOK'
  <2>1. ASSUME NEW k \in DOMAIN audit
        PROVE  \E n \in DOMAIN writes' : audit[k] = RecordOf(writes'[n])
    BY <1>2 DEF IInv, AuditOK
  <2>2. ASSUME NEW q \in Requests,
               request'[q].op \in FullOps, request'[q].pc = "done"
        PROVE  \E k \in DOMAIN audit : audit[k].actor = q
    <3>1. q # r
      BY <1>3, <1>4, <2>2 DEF HTTPOps, FullOps
    <3>. QED  BY <1>4, <2>2, <3>1 DEF IInv, AuditOK
  <2>3. \A j, k \in DOMAIN audit : audit[j].actor = audit[k].actor => j = k
    BY DEF IInv, AuditOK
  <2>. QED  BY <1>1, <2>1, <2>2, <2>3 DEF AuditOK
<1>15. ASSUME NEW q \in Requests PROVE VerdictOK(q)'
  <2>1. VerdictOK(q) /\ RequestOK(q) /\ Verdict(q)' = Verdict(q)
    BY <1>8 DEF IInv
  <2>2. request'[q].pc = "audit" => request'[q].op \in FullOps
    <3>1. q = r /\ pc = "audit" => request[r].op \in FullOps
      BY <1>3
    <3>. QED  BY <1>4, <2>1, <3>1 DEF VerdictOK
  <2>3. ASSUME NEW n \in DOMAIN writes', writes'[n].writer = q
        PROVE  writes'[n] = Verdict(q)
    BY <1>2, <1>9, <2>1, <2>3 DEF VerdictOK
  <2>. QED  BY <1>1, <1>4, <2>1, <2>2, <2>3 DEF VerdictOK
<1>14. RegistryIsLive'
  BY <1>1, RegistryFrame
<1>. QED
  BY <1>2, <1>5, <1>6, <1>10, <1>11, <1>12, <1>13, <1>14, <1>15 DEF IInv

\* A request records the decision it wrote.
LEMMA AuditInvariant ==
    ASSUME IInv, NEW r \in Requests, AppendAudit(r)
    PROVE  IInv'
<1>. DEFINE Record == [actor : Requests, id : Ids, phase : Phase]
            e == [actor |-> r, id |-> request[r].id,
                  phase |-> Outcome(request[r].op)]
            last == Len(audit) + 1
<1>1. /\ UNCHANGED <<phase, cancelFuncs, timer, writes, readAt>>
      /\ audit' = Append(audit, e)
      /\ request' = [request EXCEPT ![r].pc = "done"]
      /\ request[r].pc = "audit"
  BY DEF AppendAudit, Goto
<1>2. /\ audit' \in Seq(Record)
      /\ DOMAIN audit' = DOMAIN audit \cup {last}
      /\ \A k \in DOMAIN audit : k # last /\ audit'[k] = audit[k]
      /\ audit'[last] = e
  <2>1. e \in Record /\ audit \in Seq(Record)
    BY DEF IInv, TypeOK, Request, Outcome, Phase
  <2>. HIDE DEF Record, e
  <2>2. /\ Append(audit, e) \in Seq(Record)
        /\ DOMAIN Append(audit, e) = DOMAIN audit \cup {Len(audit) + 1}
        /\ \A k \in DOMAIN audit : k <= Len(audit) /\ k # Len(audit) + 1
                                   /\ Append(audit, e)[k] = audit[k]
        /\ Append(audit, e)[Len(audit) + 1] = e
    BY <2>1, AppendFacts
  <2>. QED  BY <1>1, <2>2
<1>3. \A q \in Requests :
          /\ request'[q].id = request[q].id
          /\ request'[q].op = request[q].op
          /\ request'[q].pc = IF q = r THEN "done" ELSE request[q].pc
  BY <1>1 DEF IInv, TypeOK, Request
<1>4. TypeOK'
  <2>1. request' \in [Requests -> Request]
    BY <1>1 DEF IInv, TypeOK, Request
  <2>. QED  BY <1>1, <1>2, <2>1 DEF IInv, TypeOK
<1>5. DecidedPhases'
  BY <1>1 DEF IInv, DecidedPhases
<1>6. (\A x \in Requests \cup Timers : readAt[x] <= Len(writes))'
  BY <1>1 DEF IInv
\* What it wrote, and that it recorded nothing yet.
<1>7. /\ \E n \in DOMAIN writes : writes[n] = Verdict(r)
      /\ \A k \in DOMAIN audit : audit[k].actor # r
  BY <1>1 DEF IInv, RequestOK
<1>8. ASSUME NEW q \in Requests PROVE RequestOK(q)'
  <2>1. RequestOK(q)
    BY DEF IInv
  <2>2. Verdict(q)' = Verdict(q) /\ Checked(q)' = Checked(q)
    BY <1>3 DEF Verdict, Checked
  <2>3. (request[q].pc = "update" /\ Checked(q) => Fresh(q, request[q].id))'
    BY <1>1, <1>3, <2>1, <2>2 DEF RequestOK, Fresh
  <2>4. (\A n \in DOMAIN writes :
            writes[n].writer = q => request[q].pc \in {"audit", "done"})'
    BY <1>1, <1>3, <2>1 DEF RequestOK
  <2>5. (request[q].pc \in {"audit", "done"} =>
            \E n \in DOMAIN writes : writes[n] = Verdict(q))'
    BY <1>1, <1>3, <1>7, <2>1, <2>2 DEF RequestOK
  <2>6. (\A k \in DOMAIN audit : audit[k].actor = q =>
            /\ request[q].pc = "done"
            /\ audit[k].id = request[q].id
            /\ audit[k].phase = Outcome(request[q].op))'
    BY <1>2, <1>3, <2>1 DEF RequestOK
  <2>. QED  BY <2>3, <2>4, <2>5, <2>6 DEF RequestOK
<1>9. CheckedWritersRespectDecisions'
  BY <1>1, <1>3 DEF IInv, CheckedWritersRespectDecisions, Checked
<1>10. AuditOK'
  <2>0. e = RecordOf(Verdict(r))
    BY DEF RecordOf, Verdict
  <2>1. ASSUME NEW k \in DOMAIN audit'
        PROVE  \E n \in DOMAIN writes : audit'[k] = RecordOf(writes[n])
    BY <1>2, <1>7, <2>0 DEF IInv, AuditOK
  <2>2. \A j, k \in DOMAIN audit' : audit'[j].actor = audit'[k].actor => j = k
    BY <1>2, <1>7 DEF IInv, AuditOK
  <2>3. ASSUME NEW q \in Requests,
               request'[q].op \in FullOps, request'[q].pc = "done"
        PROVE  \E k \in DOMAIN audit' : audit'[k].actor = q
    BY <1>2, <1>3, <2>3 DEF IInv, AuditOK
  <2>. QED  BY <1>1, <2>1, <2>2, <2>3 DEF AuditOK
<1>13. ASSUME NEW q \in Requests PROVE VerdictOK(q)'
  <2>1. VerdictOK(q) /\ VerdictOK(r) /\ Verdict(q)' = Verdict(q)
    BY <1>3 DEF IInv, Verdict
  <2>2. e.actor = r
    OBVIOUS
  <2>. HIDE DEF e, last
  <2>3. \A k \in DOMAIN audit' : audit'[k].actor = q => request'[q].op \in FullOps
    BY <1>1, <1>2, <1>3, <2>1, <2>2 DEF VerdictOK
  <2>. QED  BY <1>1, <1>3, <2>1, <2>3 DEF VerdictOK
<1>11. (\A t \in Timers : TimerOK(t))'
  BY <1>1, TimersFrame
<1>12. RegistryIsLive'
  BY <1>1, RegistryFrame
<1>. QED
  BY <1>4, <1>5, <1>6, <1>8, <1>9, <1>10, <1>11, <1>12, <1>13 DEF IInv

-----------------------------------------------------------------------------
(* The theorems. *)

\* Every step keeps the invariant: a pending write of a goroutine that checks the
\* phase was decided on the newest decision it could see, whatever interleaving of
\* calls and timers led there (approval.go, full_handler.go).
THEOREM Invariance == Spec => []IInv
<1>1. ASSUME IInv, [Next]_vars PROVE IInv'
  <2>1. CASE \E id \in Ids : Create(id) \/ Hold(id)
    BY <1>1, <2>1, CreateOrHold
  <2>2. ASSUME NEW t \in Timers,
               StartApprovalTimeout(t) \/ Expire(t) \/ TimerStep(t)
        PROVE  IInv'
    BY <1>1, <2>2, StartInvariant, ExpireInvariant, WakeInvariant,
       TimerUpdateInvariant, TimerDeleteInvariant DEF TimerStep
  <2>3. ASSUME NEW r \in Requests, RequestStep(r)
        PROVE  IInv'
    BY <1>1, <2>3, CancelInvariant, GetInvariant, UpdateInvariant,
       AuditInvariant DEF RequestStep
  <2>4. CASE UNCHANGED vars
    BY <1>1, <2>4, TimersFrame, RequestsFrame, RegistryFrame
       DEF vars, IInv, TypeOK, DecidedPhases
  <2>. QED  BY <1>1, <2>1, <2>2, <2>3, <2>4 DEF Next
<1>. QED  BY InitInvariant, <1>1, PTL DEF Spec

\* The store, the registry and the goroutines keep their shape; decisions and
\* audit records name known parties.
THEOREM TypeCorrect == Spec => []TypeOK
<1>1. IInv => TypeOK
  BY DEF IInv
<1>. QED  BY Invariance, <1>1, PTL

\* A decision that a timer or an HTTP request overwrites was always written inside
\* its own window between read and write (approval.go:39-51, 68-80, 120-129).
THEOREM DecisionsRespected == Spec => []CheckedWritersRespectDecisions
<1>1. IInv => CheckedWritersRespectDecisions
  BY DEF IInv
<1>. QED  BY Invariance, <1>1, PTL

\* The audit trail holds the decisions of the FullHandler calls that returned, each
\* once, and nothing else: no decision of a timer or of an HTTP request is in it
\* (full_handler.go:32-70, approval.go:50, 79, 126).
THEOREM AuditTrailExact == Spec => []OnlyFullHandlerRecords
<1>1. ASSUME IInv PROVE OnlyFullHandlerRecords
  <2>1. \A k \in DOMAIN audit : audit[k].actor \in Requests
    <3>. DEFINE Record == [actor : Requests, id : Ids, phase : Phase]
    <3>1. audit \in Seq(Record)
      BY <1>1 DEF IInv, TypeOK
    <3>2. \A x \in Record : x.actor \in Requests
      OBVIOUS
    <3>. HIDE DEF Record
    <3>. QED  BY <3>1, <3>2
  <2>2. ASSUME NEW n \in DOMAIN writes, NEW k \in DOMAIN audit,
               audit[k] = RecordOf(writes[n])
        PROVE  /\ writes[n].writer \in Requests
               /\ request[writes[n].writer].op \in FullOps
               /\ request[writes[n].writer].pc = "done"
    <3>1. audit[k].actor = writes[n].writer
      BY <2>2 DEF RecordOf
    <3>2. PICK r \in Requests : audit[k].actor = r
      BY <2>1
    <3>3. RequestOK(r) /\ VerdictOK(r)
      BY <1>1 DEF IInv
    <3>4. request[r].pc = "done"
      BY <3>2, <3>3 DEF RequestOK
    <3>5. request[r].op \in FullOps
      BY <3>2, <3>3 DEF VerdictOK
    <3>. QED  BY <3>1, <3>2, <3>4, <3>5
  <2>3. ASSUME NEW n \in DOMAIN writes, NEW r \in Requests, r = writes[n].writer,
               request[r].op \in FullOps, request[r].pc = "done"
        PROVE  \E k \in DOMAIN audit : audit[k] = RecordOf(writes[n])
    <3>1. PICK k \in DOMAIN audit : audit[k].actor = r
      BY <1>1, <2>3 DEF IInv, AuditOK
    <3>2. PICK m \in DOMAIN writes : audit[k] = RecordOf(writes[m])
      BY <1>1 DEF IInv, AuditOK
    <3>3. writes[m].writer = r
      BY <3>1, <3>2 DEF RecordOf
    <3>4. writes[m] = Verdict(r) /\ writes[n] = Verdict(r)
      BY <1>1, <2>3, <3>3 DEF IInv, VerdictOK
    <3>. QED  BY <3>2, <3>4
  <2>. QED  BY <1>1, <2>2, <2>3 DEF OnlyFullHandlerRecords, IInv, AuditOK
<1>. QED  BY Invariance, <1>1, PTL

\* The registry binds an incident to a timer of its own that was started and not
\* cancelled (approval.go:103-109, 142-145).
THEOREM RegistryStaysLive == Spec => []RegistryIsLive
<1>1. IInv => RegistryIsLive
  BY DEF IInv
<1>. QED  BY Invariance, <1>1, PTL

-----------------------------------------------------------------------------
(* What the order of reads and writes says about the store.                  *)

\* Every decision was written after its writer read the store, and the store shows
\* the last decision on an incident.
ReadBeforeWrite == \A n \in DOMAIN writes : readAt[writes[n].writer] < n

LastDecisionShows ==
    \A n \in DOMAIN writes :
        (\A k \in DOMAIN writes : k > n => writes[k].id # writes[n].id)
            => phase[writes[n].id] = writes[n].phase

History == ReadBeforeWrite /\ LastDecisionShows

\* An incident is created or held before anything is decided about it.
LEMMA CreateOrHoldHistory ==
    ASSUME IInv, History, NEW id \in Ids, Create(id) \/ Hold(id)
    PROVE  History'
<1>1. /\ UNCHANGED <<writes, readAt>>
      /\ phase[id] \notin {"Executing", "Rejected"}
      /\ \A j \in Ids \ {id} : phase'[j] = phase[j]
  BY DEF Create, Hold, IInv, TypeOK
<1>2. \A n \in DOMAIN writes : writes[n].id \in Ids \ {id}
  BY <1>1, DecisionFacts DEF IInv, DecidedPhases
<1>. QED  BY <1>1, <1>2 DEF History, ReadBeforeWrite, LastDecisionShows

\* Only a goroutine that has not written yet reads the store.
LEMMA ReadHistory ==
    ASSUME IInv, History, NEW x \in Requests \cup Timers,
           \A n \in DOMAIN writes : writes[n].writer # x,
           readAt' = [readAt EXCEPT ![x] = Len(writes)],
           UNCHANGED <<writes, phase>>
    PROVE  History'
<1>1. \A n \in DOMAIN writes : readAt'[writes[n].writer] = readAt[writes[n].writer]
  BY DecisionFacts DEF IInv, TypeOK
<1>. QED  BY <1>1 DEF History, ReadBeforeWrite, LastDecisionShows

LEMMA WriteHistory ==
    ASSUME IInv, History, NEW x \in Requests \cup Timers, NEW id \in Ids,
           NEW p \in {"Executing", "Rejected"}, Write(x, id, p), UNCHANGED readAt
    PROVE  History'
<1>. DEFINE last == Len(writes) + 1
<1>1. /\ last \in Nat /\ DOMAIN writes' = DOMAIN writes \cup {last}
      /\ \A n \in DOMAIN writes : n < last /\ n # last /\ writes'[n] = writes[n]
      /\ writes'[last] = [writer |-> x, id |-> id, phase |-> p]
  <2>1. \A n \in DOMAIN writes : n \in Nat
    BY DEF IInv, TypeOK
  <2>2. /\ Len(writes) \in Nat
        /\ DOMAIN writes' = DOMAIN writes \cup {Len(writes) + 1}
        /\ \A n \in DOMAIN writes : n <= Len(writes) /\ n # Len(writes) + 1
                                    /\ writes'[n] = writes[n]
        /\ writes'[Len(writes) + 1] = [writer |-> x, id |-> id, phase |-> p]
    BY WriteFacts
  <2>3. \A n \in DOMAIN writes : n < last
    BY <2>1, <2>2
  <2>4. last \in Nat
    BY <2>2
  <2>. HIDE DEF last
  <2>5. /\ DOMAIN writes' = DOMAIN writes \cup {last}
        /\ writes'[last] = [writer |-> x, id |-> id, phase |-> p]
        /\ \A n \in DOMAIN writes : n # last /\ writes'[n] = writes[n]
    BY <2>2 DEF last
  <2>. QED  BY <2>3, <2>4, <2>5
<1>2. phase' = [phase EXCEPT ![id] = p] /\ phase \in [Ids -> Phase]
  BY DEF Write, IInv, TypeOK
<1>3. readAt[x] \in Nat /\ readAt[x] < last
  BY <1>1 DEF IInv, TypeOK
<1>. HIDE DEF last
<1>4. ReadBeforeWrite'
  <2>1. ASSUME NEW n \in DOMAIN writes' PROVE readAt'[writes'[n].writer] < n
    <3>1. CASE n = last
      BY <1>1, <1>3, <3>1
    <3>2. CASE n \in DOMAIN writes
      BY <1>1, <3>2 DEF History, ReadBeforeWrite
    <3>. QED  BY <1>1, <3>1, <3>2
  <2>. QED  BY <2>1 DEF ReadBeforeWrite
<1>5. LastDecisionShows'
  <2>1. ASSUME NEW n \in DOMAIN writes',
               \A k \in DOMAIN writes' : k > n => writes'[k].id # writes'[n].id
        PROVE  phase'[writes'[n].id] = writes'[n].phase
    <3>1. CASE n = last
      BY <1>1, <1>2, <3>1
    <3>2. CASE n \in DOMAIN writes
      <4>1. last > n /\ writes'[n] = writes[n] /\ last \in DOMAIN writes'
        BY <1>1, <3>2 DEF IInv, TypeOK
      <4>2. writes[n].id # id
        BY <1>1, <2>1, <4>1
      <4>3. \A k \in DOMAIN writes : k > n => writes[k].id # writes[n].id
        BY <1>1, <2>1, <4>1
      <4>4. phase[writes[n].id] = writes[n].phase
        BY <3>2, <4>3 DEF History, LastDecisionShows
      <4>5. writes[n].id \in Ids
        BY <3>2, DecisionFacts
      <4>. QED  BY <1>2, <4>1, <4>2, <4>4, <4>5
    <3>. QED  BY <1>1, <3>1, <3>2
  <2>. QED  BY <2>1 DEF LastDecisionShows
<1>. QED  BY <1>4, <1>5 DEF History

LEMMA HistoryStep ==
    ASSUME IInv, History, [Next]_vars
    PROVE  History'
<1>1. ASSUME UNCHANGED <<writes, readAt, phase>> PROVE History'
  BY <1>1 DEF History, ReadBeforeWrite, LastDecisionShows
<1>2. ASSUME NEW t \in Timers, WakeExpired(t) PROVE History'
  <2>1. \A n \in DOMAIN writes : writes[n].writer # t
    BY <1>2 DEF WakeExpired, IInv, TimerOK
  <2>. QED  BY <1>2, <2>1, ReadHistory DEF WakeExpired
<1>3. ASSUME NEW r \in Requests, GetIncident(r) PROVE History'
  <2>1. \A n \in DOMAIN writes : writes[n].writer # r
    BY <1>3 DEF GetIncident, IInv, RequestOK
  <2>. QED  BY <1>3, <2>1, ReadHistory DEF GetIncident
<1>4. ASSUME NEW t \in Timers, TimerUpdate(t) PROVE History'
  <2>1. timer[t].id \in Ids
    BY DEF IInv, TypeOK, Timer
  <2>. QED  BY <1>4, <2>1, WriteHistory DEF TimerUpdate
<1>5. ASSUME NEW r \in Requests, UpdateIncident(r) PROVE History'
  <2>1. request[r].id \in Ids /\ Outcome(request[r].op) \in {"Executing", "Rejected"}
    BY DEF IInv, TypeOK, Request, Outcome
  <2>. QED  BY <1>5, <2>1, WriteHistory DEF UpdateIncident
<1>6. ASSUME NEW t \in Timers,
             \/ StartApprovalTimeout(t) \/ Expire(t)
             \/ WakeCancelled(t) \/ TimerDelete(t)
      PROVE  History'
  BY <1>1, <1>6 DEF StartApprovalTimeout, Expire, WakeCancelled, TimerDelete
<1>7. ASSUME NEW r \in Requests, CancelTimeout(r) \/ AppendAudit(r) PROVE History'
  BY <1>1, <1>7 DEF CancelTimeout, AppendAudit
<1>8. CASE UNCHANGED vars
  BY <1>1, <1>8 DEF vars
<1>. QED  BY <1>2, <1>3, <1>4, <1>5, <1>6, <1>7, <1>8, CreateOrHoldHistory
          DEF Next, TimerStep, RequestStep

LEMMA HistoryInvariance == Spec => []History
<1>1. Init => History
  BY DEF Init, History, ReadBeforeWrite, LastDecisionShows
<1>. QED  BY <1>1, HistoryStep, Invariance, PTL DEF Spec

\* The phase a reader finds is that of the last decision written about the
\* incident: no creation, no hold and no other incident's decision covers it up.
THEOREM StoreShowsLastDecision == Spec => []LastDecisionShows
<1>1. History => LastDecisionShows
  BY DEF History
<1>. QED  BY <1>1, HistoryInvariance, PTL

\* The two HTTP handlers and the timers never decide about an incident whose
\* decision they could have seen; so as long as every call goes through the HTTP
\* handlers, what was found rejected is never set to Executing
\* (approval.go:39-51, 68-80, 120-129; requirements.md:105).
THEOREM CheckedCallsKeepRejections ==
    Spec => []( /\ \A m, n \in DOMAIN writes :
                       /\ writes[m].id = writes[n].id
                       /\ m <= readAt[writes[n].writer]
                       => ~Checked(writes[n].writer)
                /\ (\A r \in Requests : request[r].op \in HTTPOps)
                       => RejectedNeverExecutes )
<1>1. ASSUME IInv, History
      PROVE  /\ \A m, n \in DOMAIN writes :
                    /\ writes[m].id = writes[n].id
                    /\ m <= readAt[writes[n].writer]
                    => ~Checked(writes[n].writer)
             /\ (\A r \in Requests : request[r].op \in HTTPOps)
                    => RejectedNeverExecutes
  <2>1. ASSUME NEW m \in DOMAIN writes, NEW n \in DOMAIN writes,
               writes[m].id = writes[n].id, m <= readAt[writes[n].writer]
        PROVE  ~Checked(writes[n].writer)
    <3>1. readAt[writes[n].writer] < n
      BY <1>1 DEF History, ReadBeforeWrite
    <3>2. readAt[writes[n].writer] \in Nat /\ m \in Nat /\ n \in Nat
      BY <1>1, DecisionFacts DEF IInv, TypeOK
    <3>3. m < n /\ ~(m > readAt[writes[n].writer])
      BY <2>1, <3>1, <3>2
    <3>. QED  BY <1>1, <2>1, <3>3 DEF IInv, CheckedWritersRespectDecisions
  <2>2. ASSUME \A r \in Requests : request[r].op \in HTTPOps
        PROVE  RejectedNeverExecutes
    <3>1. \A x : Checked(x)
      BY <2>2 DEF Checked
    <3>. QED  BY <2>1, <3>1 DEF RejectedNeverExecutes
  <2>. QED  BY <2>1, <2>2
<1>. QED  BY <1>1, Invariance, HistoryInvariance, PTL
=============================================================================
