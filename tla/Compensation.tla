---------------------------- MODULE Compensation ----------------------------
(***************************************************************************)
(* What a caller of Executor.ExecuteWithRollback may rely on, whatever the  *)
(* loops inside look like: a plan either takes effect as a whole, or, from  *)
(* the first failure on, the steps that have an undo are undone one by one, *)
(* the latest first, and nothing else is started.                           *)
(***************************************************************************)
EXTENDS Naturals

VARIABLES
    mode,       \* "idle", "forward" or "backward"
    size,       \* number of steps of the plan
    undoable,   \* the steps of the plan that have an undo
    inForce     \* the steps that were tried and not undone

cvars == <<mode, size, undoable, inForce>>

CInit == mode = "idle" /\ size = 0 /\ undoable = {} /\ inForce = {}

Begin == /\ mode = "idle"
         /\ mode' = "forward"
         /\ size' \in Nat
         /\ undoable' \in SUBSET (1..size')
         /\ inForce' = {}

\* The next step is tried; if it fails, there is no way but back.
Try == /\ mode = "forward"
       /\ \E k \in 0..size : /\ inForce = 1..k
                             /\ k < size
                             /\ inForce' = 1..(k + 1)
       /\ mode' \in {"forward", "backward"}
       /\ UNCHANGED <<size, undoable>>

Commit == /\ mode = "forward"
          /\ inForce = 1..size
          /\ mode' = "idle"
          /\ UNCHANGED <<size, undoable, inForce>>

Undo == /\ mode = "backward"
        /\ \E p \in inForce \cap undoable :
               /\ \A q \in inForce \cap undoable : q <= p
               /\ inForce' = inForce \ {p}
        /\ UNCHANGED <<mode, size, undoable>>

Abort == /\ mode = "backward"
         /\ inForce \cap undoable = {}
         /\ mode' = "idle"
         /\ UNCHANGED <<size, undoable, inForce>>

CNext == Begin \/ Try \/ Commit \/ Undo \/ Abort

CSpec == CInit /\ [][CNext]_cvars
=============================================================================
