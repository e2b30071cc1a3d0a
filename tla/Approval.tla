------------------------------ MODULE Approval ------------------------------
(***************************************************************************)
(* The backend's approval workflow (services/backend/internal/handler):     *)
(* HTTP and programmatic approve/reject requests, expiry timers, the        *)
(* registry of their cancel functions, the incident store and the audit     *)
(* trail.  Every request and every timer is a goroutine; a step ends at     *)
(* each access to shared state (the store's lock, h.mu, the audit store),   *)
(* so a phase that was read may be stale when the decision is written.      *)
(***************************************************************************)
EXTENDS Naturals, Sequences

CONSTANTS Ids,        \* incident ids a client may name
          Requests,   \* approve and reject calls, each made once
          Timers,     \* timeouts started over the life of the process
          NoTimer     \* no entry in the registry

ASSUME NoTimerAssumption == NoTimer \notin Timers

ASSUME WritersAssumption == Requests \cap Timers = {}

VARIABLES
    phase,        \* the store: the phase of each incident, "absent" if unknown
    cancelFuncs,  \* ApprovalHandler.cancelFuncs: the timer an id is bound to
    timer,        \* timer goroutines and their contexts
    request,      \* request goroutines
    audit,        \* MemoryAuditStore.records
    writes,       \* history: the decisions written to the store, in order
    readAt        \* history: Len(writes) when a goroutine read the store

vars == <<phase, cancelFuncs, timer, request, audit, writes, readAt>>

Phase == {"absent", "Pending", "RequiresApproval", "Executing", "Rejected"}

\* The two HTTP handlers check the phase; ApprovalHandler's methods, reached
\* through FullHandler, do not.
HTTPOps == {"ApproveIncident", "RejectIncident"}
FullOps == {"Approve", "Reject"}

\* Only ApprovalHandler's methods cancel the timer first.
Start(op) == IF op \in HTTPOps THEN "get" ELSE "cancel"

Outcome(op) ==
    IF op \in {"ApproveIncident", "Approve"} THEN "Executing" ELSE "Rejected"

Request == [pc : {"cancel", "get", "update", "audit", "done", "refused"},
            op : HTTPOps \cup FullOps, id : Ids]

\* ctx is the state of the timer's context; it never changes once it is done.
Timer == [pc : {"idle", "wait", "update", "delete", "done"},
          id : Ids, ctx : {"armed", "expired", "cancelled"}]

Init == /\ phase = [i \in Ids |-> "absent"]
        /\ cancelFuncs = [i \in Ids |-> NoTimer]
        /\ timer \in [Timers -> {x \in Timer : x.pc = "idle" /\ x.ctx = "armed"}]
        /\ request \in [Requests -> {x \in Request : x.pc = Start(x.op)}]
        /\ audit = <<>>
        /\ writes = <<>>
        /\ readAt = [x \in Requests \cup Timers |-> 0]

-----------------------------------------------------------------------------
(* The store's other clients. *)

\* POST /api/incidents.
Create(id) ==
    /\ phase[id] = "absent"
    /\ phase' = [phase EXCEPT ![id] = "Pending"]
    /\ UNCHANGED <<cancelFuncs, timer, request, audit, writes, readAt>>

\* Whoever asks for the approval: a client of the store outside this package.
Hold(id) ==
    /\ phase[id] = "Pending"
    /\ phase' = [phase EXCEPT ![id] = "RequiresApproval"]
    /\ UNCHANGED <<cancelFuncs, timer, request, audit, writes, readAt>>

-----------------------------------------------------------------------------
(* Timers. *)

\* Cancelling a context that already expired has no effect.
Cancelled(t) == [timer[t] EXCEPT !.ctx = IF @ = "armed" THEN "cancelled" ELSE @]

\* Mutant: the new timer is bound, only when the registry has no entry for the id: the
\* entry of a cancelled timer is kept.
MutStartApprovalTimeout(t) ==
    LET id == timer[t].id
    IN  /\ timer[t].pc = "idle"
        /\ timer' = [x \in Timers |->
               IF x = t THEN [timer[x] EXCEPT !.pc = "wait"]
               ELSE IF x = cancelFuncs[id] THEN Cancelled(x)
               ELSE timer[x]]
        /\ cancelFuncs' = [cancelFuncs EXCEPT ![id] =
               IF @ = NoTimer THEN t ELSE @]
        /\ UNCHANGED <<phase, request, audit, writes, readAt>>

\* One critical section of h.mu: cancel the timer the id is bound to, arm a new
\* one, bind it.
StartApprovalTimeout(t) ==
    LET id == timer[t].id
    IN  /\ timer[t].pc = "idle"
        /\ timer' = [x \in Timers |->
               IF x = t THEN [timer[x] EXCEPT !.pc = "wait"]
               ELSE IF x = cancelFuncs[id] THEN Cancelled(x)
               ELSE timer[x]]
        /\ cancelFuncs' = [cancelFuncs EXCEPT ![id] = t]
        /\ UNCHANGED <<phase, request, audit, writes, readAt>>

\* The deadline of an armed timer passes.
Expire(t) ==
    /\ timer[t].pc = "wait"
    /\ timer[t].ctx = "armed"
    /\ timer' = [timer EXCEPT ![t].ctx = "expired"]
    /\ UNCHANGED <<phase, cancelFuncs, request, audit, writes, readAt>>

\* <-ctx.Done(), and the context was cancelled.
WakeCancelled(t) ==
    /\ timer[t].pc = "wait"
    /\ timer[t].ctx = "cancelled"
    /\ timer' = [timer EXCEPT ![t].pc = "done"]
    /\ UNCHANGED <<phase, cancelFuncs, request, audit, writes, readAt>>

\* Mutant: the timer rejects whatever it finds.
MutWakeExpired(t) ==
    /\ timer[t].pc = "wait"
    /\ timer[t].ctx = "expired"
    /\ timer' = [timer EXCEPT ![t].pc =
                    IF phase[timer[t].id] = "absent" THEN "done" ELSE "update"]
    /\ readAt' = [readAt EXCEPT ![t] = Len(writes)]
    /\ UNCHANGED <<phase, cancelFuncs, request, audit, writes>>

\* Mutant: the incident is expired only while it is still Pending.
MutStillWaiting(t) ==
    /\ timer[t].pc = "wait"
    /\ timer[t].ctx = "expired"
    /\ timer' = [timer EXCEPT ![t].pc =
                    CASE phase[timer[t].id] = "absent"  -> "done"
                      [] phase[timer[t].id] = "Pending" -> "update"
                      [] OTHER                          -> "delete"]
    /\ readAt' = [readAt EXCEPT ![t] = Len(writes)]
    /\ UNCHANGED <<phase, cancelFuncs, request, audit, writes>>

\* <-ctx.Done(), the deadline passed, and the store is read.  An unknown incident
\* ends the goroutine without the delete.
WakeExpired(t) ==
    /\ timer[t].pc = "wait"
    /\ timer[t].ctx = "expired"
    /\ timer' = [timer EXCEPT ![t].pc =
                    CASE phase[timer[t].id] = "absent"           -> "done"
                      [] phase[timer[t].id] = "RequiresApproval" -> "update"
                      [] OTHER                                   -> "delete"]
    /\ readAt' = [readAt EXCEPT ![t] = Len(writes)]
    /\ UNCHANGED <<phase, cancelFuncs, request, audit, writes>>

\* A decision is written over whatever the store holds by now.
Write(writer, id, p) ==
    /\ phase' = [phase EXCEPT ![id] = p]
    /\ writes' = Append(writes, [writer |-> writer, id |-> id, phase |-> p])

\* Mutant: the phase requirements.md calls for, which the store does not know.
MutTimerUpdate(t) ==
    /\ timer[t].pc = "update"
    /\ Write(t, timer[t].id, "expired")
    /\ timer' = [timer EXCEPT ![t].pc = "delete"]
    /\ UNCHANGED <<cancelFuncs, request, audit, readAt>>

TimerUpdate(t) ==
    /\ timer[t].pc = "update"
    /\ Write(t, timer[t].id, "Rejected")
    /\ timer' = [timer EXCEPT ![t].pc = "delete"]
    /\ UNCHANGED <<cancelFuncs, request, audit, readAt>>

\* Whatever timer the id is bound to by now.
TimerDelete(t) ==
    /\ timer[t].pc = "delete"
    /\ cancelFuncs' = [cancelFuncs EXCEPT ![timer[t].id] = NoTimer]
    /\ timer' = [timer EXCEPT ![t].pc = "done"]
    /\ UNCHANGED <<phase, request, audit, writes, readAt>>

-----------------------------------------------------------------------------
(* Requests. *)

Goto(r, pc) == request' = [request EXCEPT ![r].pc = pc]

\* One critical section of h.mu.
CancelTimeout(r) ==
    LET id == request[r].id
    IN  /\ request[r].pc = "cancel"
        /\ timer' = [x \in Timers |->
               IF x = cancelFuncs[id] THEN Cancelled(x) ELSE timer[x]]
        /\ cancelFuncs' = [cancelFuncs EXCEPT ![id] = NoTimer]
        /\ Goto(r, "get")
        /\ UNCHANGED <<phase, audit, writes, readAt>>

\* Mutant: FullHandler goes on to the audit record when its approval failed.
MutGetIncident(r) ==
    LET p == phase[request[r].id]
    IN  /\ request[r].pc = "get"
        /\ Goto(r, CASE p = "absent" /\ request[r].op \in HTTPOps -> "refused"
                     [] p = "absent" /\ request[r].op \in FullOps -> "audit"
                     [] p \notin {"absent", "RequiresApproval"}
                          /\ request[r].op \in HTTPOps -> "refused"
                     [] OTHER -> "update")
        /\ readAt' = [readAt EXCEPT ![r] = Len(writes)]
        /\ UNCHANGED <<phase, cancelFuncs, timer, audit, writes>>

\* 404 or an error for an unknown incident, 409 for an HTTP request that finds
\* the incident in another phase.
GetIncident(r) ==
    LET p == phase[request[r].id]
    IN  /\ request[r].pc = "get"
        /\ Goto(r, IF \/ p = "absent"
                      \/ request[r].op \in HTTPOps /\ p # "RequiresApproval"
                   THEN "refused" ELSE "update")
        /\ readAt' = [readAt EXCEPT ![r] = Len(writes)]
        /\ UNCHANGED <<phase, cancelFuncs, timer, audit, writes>>

\* Incidents are never deleted, so UpdateIncident finds the incident it read.
UpdateIncident(r) ==
    /\ request[r].pc = "update"
    /\ Write(r, request[r].id, Outcome(request[r].op))
    /\ Goto(r, IF request[r].op \in HTTPOps THEN "done" ELSE "audit")
    /\ UNCHANGED <<cancelFuncs, timer, audit, readAt>>

\* The notification that follows reads and changes nothing modelled; its error is
\* ignored, like Append's.
AppendAudit(r) ==
    /\ request[r].pc = "audit"
    /\ audit' = Append(audit, [actor |-> r, id |-> request[r].id,
                               phase |-> Outcome(request[r].op)])
    /\ Goto(r, "done")
    /\ UNCHANGED <<phase, cancelFuncs, timer, writes, readAt>>

-----------------------------------------------------------------------------
TimerStep(t) == \/ WakeCancelled(t) \/ WakeExpired(t)
                \/ TimerUpdate(t) \/ TimerDelete(t)

RequestStep(r) == \/ CancelTimeout(r) \/ GetIncident(r) \/ UpdateIncident(r)
                  \/ AppendAudit(r)

Next == \/ \E id \in Ids : Create(id) \/ Hold(id)
        \/ \E t \in Timers : StartApprovalTimeout(t) \/ Expire(t) \/ TimerStep(t)
        \/ \E r \in Requests : RequestStep(r)

Spec == Init /\ [][Next]_vars

\* Deadlines pass and the Go scheduler runs every goroutine that can run (h.mu is
\* never held across a blocking call).  Nothing makes a client call: a request
\* need not take its first step.
Fairness == /\ \A t \in Timers : WF_vars(Expire(t)) /\ WF_vars(TimerStep(t))
            /\ \A r \in Requests :
                   WF_vars(/\ request[r].pc # Start(request[r].op)
                           /\ RequestStep(r))

FairSpec == Spec /\ Fairness

-----------------------------------------------------------------------------
Decision == [writer : Requests \cup Timers, id : Ids, phase : Phase]

\* The audit record that stands for decision d.
RecordOf(d) == [actor |-> d.writer, id |-> d.id, phase |-> d.phase]

\* The shape of the state; decisions and audit records name known parties.
TypeOK ==
    /\ phase \in [Ids -> Phase]
    /\ cancelFuncs \in [Ids -> Timers \cup {NoTimer}]
    /\ timer \in [Timers -> Timer]
    /\ request \in [Requests -> Request]
    /\ audit \in Seq([actor : Requests, id : Ids, phase : Phase])
    /\ writes \in Seq(Decision)
    /\ readAt \in [Requests \cup Timers -> Nat]

\* A writer that checks the phase: an expiry timer or an HTTP request.
Checked(x) == x \in Requests => request[x].op \in HTTPOps

\* The phase check of a timer or an HTTP request narrows the damage to one
\* window: it overwrites another decision only if that one was written between
\* its own read and its own write (approval.go:39-51, 68-80, 120-129).
CheckedWritersRespectDecisions ==
    \A m, n \in DOMAIN writes :
        /\ m < n
        /\ writes[m].id = writes[n].id
        /\ Checked(writes[n].writer)
        => m > readAt[writes[n].writer]

\* Which decisions have a record: those of the FullHandler calls that returned, and
\* no others.  A decision made over HTTP (approval.go:50, 79) or by a timer
\* (approval.go:126) never gets one, and one of FullHandler has none between its
\* write and its Append (full_handler.go:32-70): less than requirements.md:137 and
\* 141 ask for.  No record stands for what was not decided, and none is repeated.
OnlyFullHandlerRecords ==
    /\ \A n \in DOMAIN writes :
           (\E k \in DOMAIN audit : audit[k] = RecordOf(writes[n]))
               <=> /\ writes[n].writer \in Requests
                   /\ request[writes[n].writer].op \in FullOps
                   /\ request[writes[n].writer].pc = "done"
    /\ \A k \in DOMAIN audit : \E n \in DOMAIN writes : audit[k] = RecordOf(writes[n])
    /\ \A j, k \in DOMAIN audit : audit[j].actor = audit[k].actor => j = k

\* The registry never points at a timer that was already cancelled, so the next
\* StartApprovalTimeout or CancelTimeout acts on a timer that can still fire or
\* did (approval.go:103-109, 142-145).
RegistryIsLive ==
    \A id \in Ids : cancelFuncs[id] # NoTimer =>
        /\ timer[cancelFuncs[id]].id = id
        /\ timer[cancelFuncs[id]].pc # "idle"
        /\ timer[cancelFuncs[id]].ctx # "cancelled"

\* An incident that waits for approval under a running timer does not wait for
\* ever, whoever replaces or cancels the timer meanwhile: the timer rejects it
\* or a client decided (approval.go:98-135).
ExpiryDecides ==
    \A id \in Ids :
        (/\ phase[id] = "RequiresApproval"
         /\ \E t \in Timers : /\ timer[t].pc = "wait"
                             /\ timer[t].ctx = "armed"
                             /\ timer[t].id = id)
            ~> phase[id] # "RequiresApproval"

\* "should not be rejected after approval" (approval_timeout_test.go:50): once
\* ApprovalHandler.Approve, which cancels the timer, wrote its approval, no expiry
\* timer turns the incident to Rejected.
ApprovedStands ==
    \A m, n \in DOMAIN writes :
        /\ m < n
        /\ writes[m].id = writes[n].id
        /\ \E r \in Requests : writes[m].writer = r /\ request[r].op = "Approve"
        => writes[n].writer \notin Timers

\* "SHALL transition the action status to `rejected` and SHALL NOT allow
\* execution of that action" (requirements.md:105): no approve that found the
\* incident already rejected, by a client or by the timer, sets it to Executing.
RejectedNeverExecutes ==
    \A m, n \in DOMAIN writes :
        /\ writes[m].id = writes[n].id
        /\ m <= readAt[writes[n].writer]
        /\ writes[m].phase = "Rejected"
        /\ \A k \in (m + 1)..(n - 1) : writes[k].id # writes[m].id
        => writes[n].phase # "Executing"

-----------------------------------------------------------------------------
(* The inductive invariant of the proofs. *)

\* What request r writes, and what a timer writes.
Verdict(r) == [writer |-> r, id |-> request[r].id,
               phase |-> Outcome(request[r].op)]

\* Goroutine x, about incident id, decided on what the store held when it read it:
\* no decision on that incident had been written before its read.
Fresh(x, id) == \A m \in DOMAIN writes : writes[m].id = id => m > readAt[x]

\* A decided incident stays in a decided phase.
DecidedPhases ==
    \A m \in DOMAIN writes : phase[writes[m].id] \in {"Executing", "Rejected"}

TimerOK(t) ==
    /\ timer[t].pc = "idle" => timer[t].ctx = "armed"
    /\ timer[t].pc = "update" => Fresh(t, timer[t].id)
    /\ \A n \in DOMAIN writes :
           writes[n].writer = t => timer[t].pc \in {"delete", "done"}

RequestOK(r) ==
    LET pc == request[r].pc
    IN  /\ pc = "update" /\ Checked(r) => Fresh(r, request[r].id)
        /\ \A n \in DOMAIN writes :
               writes[n].writer = r => pc \in {"audit", "done"}
        /\ pc \in {"audit", "done"} =>
               \E n \in DOMAIN writes : writes[n] = Verdict(r)
        /\ \A k \in DOMAIN audit : audit[k].actor = r =>
               pc = "done" /\ audit[k].id = request[r].id
                           /\ audit[k].phase = Outcome(request[r].op)

\* A record stands for a decision and is its actor's only one, and FullHandler
\* calls that returned have theirs.
AuditOK ==
    /\ \A k \in DOMAIN audit : \E n \in DOMAIN writes : audit[k] = RecordOf(writes[n])
    /\ \A j, k \in DOMAIN audit : audit[j].actor = audit[k].actor => j = k
    /\ \A r \in Requests :
           request[r].op \in FullOps /\ request[r].pc = "done" =>
               \E k \in DOMAIN audit : audit[k].actor = r

\* What request r wrote is its verdict, and only FullHandler calls record.
VerdictOK(r) ==
    /\ request[r].pc = "audit" => request[r].op \in FullOps
    /\ \A n \in DOMAIN writes : writes[n].writer = r => writes[n] = Verdict(r)
    /\ \A k \in DOMAIN audit : audit[k].actor = r => request[r].op \in FullOps

IInv == /\ TypeOK
        /\ \A x \in Requests \cup Timers : readAt[x] <= Len(writes)
        /\ DecidedPhases
        /\ \A t \in Timers : TimerOK(t)
        /\ \A r \in Requests : RequestOK(r)
        /\ \A r \in Requests : VerdictOK(r)
        /\ CheckedWritersRespectDecisions
        /\ AuditOK
        /\ RegistryIsLive
=============================================================================
