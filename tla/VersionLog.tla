------------------------------ MODULE VersionLog ------------------------------
(***************************************************************************)
(* "VersionedStore is an append-only store for runbook versions"           *)
(* (versioning.go:16), as a caller of Store sees it: a call that returns a *)
(* version took effect at one moment, when a complete document, read as a  *)
(* whole, went to the end of its name's log under the next number.  What   *)
(* overlaps with it, and what is refused, leaves no trace.                  *)
(***************************************************************************)
EXTENDS Naturals, Sequences

CONSTANTS
    Names,
    Complete(_),  \* the documents that may be published
    Says(_, _)    \* whether a document says what a runbook holds

VARIABLES
    log,      \* per name, the versions published under it
    returned  \* the versions returned to callers

lvars == <<log, returned>>

LInit == log = [n \in Names |-> <<>>] /\ returned = {}

Publish(n) ==
    LET v   == Len(log[n]) + 1
        new == log'[n][v]
    IN  /\ Len(log'[n]) = v
        /\ log' = [log EXCEPT ![n] = Append(@, new)]
        /\ new.version = v
        /\ Complete(new.raw)
        /\ Says(new.raw, new.runbook)
        /\ returned' = returned \cup {[name |-> n, version |-> v, raw |-> new.raw]}

LNext == \E n \in Names : Publish(n)

LSpec == LInit /\ [][LNext]_lvars
=============================================================================
