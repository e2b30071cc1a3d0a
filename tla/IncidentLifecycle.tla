-------------------------- MODULE IncidentLifecycle -------------------------
(***************************************************************************)
(* What RunGuard promises about one incident, whoever moves it: its phase  *)
(* (shared/types/incident.go) follows one table of transitions, Resolved,  *)
(* Failed and Rejected are final, and remediation steps reach the cluster  *)
(* only while the incident is Executing.  Incidents live in memory, so a   *)
(* restart of the service that holds them forgets them all.                *)
(***************************************************************************)
EXTENDS Naturals

CONSTANT Ids         \* the ids an incident may get

VARIABLES phase,   \* phase[id], for the incidents known since the last restart
          work     \* work[id], how many remediation steps ran for incident id

vars == <<phase, work>>

Phase == {"Pending", "Analyzing", "RequiresApproval", "Executing",
          "Resolved", "Failed", "Rejected"}

Final == {"Resolved", "Failed", "Rejected"}

Transition == {<<"Pending", "Analyzing">>,
               <<"Pending", "RequiresApproval">>,
               <<"Pending", "Executing">>,
               <<"Pending", "Failed">>,
               <<"Analyzing", "Executing">>,
               <<"RequiresApproval", "Executing">>,
               <<"RequiresApproval", "Rejected">>,
               <<"Executing", "Resolved">>,
               <<"Executing", "Failed">>}

Init == phase = [i \in {} |-> "Pending"] /\ work = [i \in {} |-> 0]

\* A new incident is accepted under an id that none of the known ones has.
Open(id) == /\ id \notin DOMAIN phase
            /\ phase' = [i \in DOMAIN phase \cup {id} |->
                            IF i = id THEN "Pending" ELSE phase[i]]
            /\ work' = [i \in DOMAIN work \cup {id} |->
                            IF i = id THEN 0 ELSE work[i]]

Move(id) == /\ \E p \in Phase : /\ <<phase[id], p>> \in Transition
                                /\ phase' = [phase EXCEPT ![id] = p]
            /\ UNCHANGED work

\* One remediation step reaches the cluster.
Work(id) == /\ phase[id] = "Executing"
            /\ work' = [work EXCEPT ![id] = @ + 1]
            /\ UNCHANGED phase

Restart == phase' = [i \in {} |-> "Pending"] /\ work' = [i \in {} |-> 0]

Next == \/ \E id \in Ids : Open(id)
        \/ \E id \in DOMAIN phase : Move(id) \/ Work(id)
        \/ Restart

Spec == Init /\ [][Next]_vars
=============================================================================
