------------------------------- MODULE Compiler --------------------------------
(***************************************************************************)
(* The versioned runbook store (compiler/versioning.go) over the parser,   *)
(* and the policies generated from what it holds.  Store locks, parses     *)
(* line by line, reads the versions of its name and appends one; the three *)
(* readers wait for the lock and change nothing.                           *)
(***************************************************************************)
EXTENDS RunbookParser, PolicyEngine

CONSTANTS
    Names,       \* runbook names
    Callers,     \* goroutines that call Store
    NoCaller,    \* nobody holds the lock
    Documents,   \* the documents they store under each name
    Namespaces,  \* where the runbooks' plans are classified
    MaxVersions  \* bound on the versions of each name

ASSUME CompilerAssumption ==
    /\ NoCaller \notin Callers
    /\ Documents \in [Names -> SUBSET (Seq(Lines) \ {<<>>})]
    /\ MaxVersions \in [Names -> Nat]

VARIABLES
    entries,  \* VersionedStore.entries
    lock,     \* VersionedStore.mu: the writer that holds it
    call,     \* one call of Store per caller
    acked     \* history: the versions Store returned, with their documents

vars == <<entries, lock, call, acked>>

Document == UNION {Documents[n] : n \in Names}

Entry == [version : Nat, raw : Document, runbook : ParsedRunbook]

Ack == [name : Names, version : Nat, raw : Document]

Idle == [pc |-> "idle"]

Active == [pc : {"parsing", "appending"}, name : Names, raw : Document,
           next : Nat \ {0},        \* the next line to read
           parser : Parser,
           versions : Seq(Entry)]   \* s.entries[name] as it was read

Call == {Idle} \cup Active

TypeOK ==
    /\ entries \in [Names -> Seq(Entry)]
    /\ lock \in Callers \cup {NoCaller}
    /\ call \in [Callers -> Call]
    /\ acked \subseteq Ack

Init ==
    /\ entries = [n \in Names |-> <<>>]
    /\ lock = NoCaller
    /\ call = [c \in Callers |-> Idle]
    /\ acked = {}

-----------------------------------------------------------------------------
(* The readers, under the read lock.                                        *)

ListVersions(name) == [i \in DOMAIN entries[name] |-> entries[name][i].version]

NotFound == [version |-> 0]

Get(name, version) ==
    LET found == {i \in DOMAIN entries[name] : entries[name][i].version = version}
    IN  IF found = {} THEN NotFound
        ELSE entries[name][CHOOSE i \in found : \A j \in found : i <= j]

GetLatest(name) ==
    IF entries[name] = <<>> THEN NotFound ELSE entries[name][Len(entries[name])]

-----------------------------------------------------------------------------
(* Store.                                                                   *)

\* The lock is taken before the document is looked at.  A document that does not
\* start with a title is refused on the spot, which changes nothing.
Store(c, name, doc) ==
    /\ Len(entries[name]) < MaxVersions[name]
    /\ lock = NoCaller
    /\ call[c].pc = "idle"
    /\ doc[1].kind = "title"
    /\ lock' = c
    /\ call' = [call EXCEPT ![c] = [pc |-> "parsing", name |-> name, raw |-> doc,
                                    next |-> 2, parser |-> NewParser,
                                    versions |-> <<>>]]
    /\ UNCHANGED <<entries, acked>>

ParseLine(c) ==
    /\ call[c].pc = "parsing"
    /\ call[c].next <= Len(call[c].raw)
    /\ call' = [call EXCEPT ![c].next = @ + 1,
                            ![c].parser = ReadLine(@, call[c].raw[call[c].next])]
    /\ UNCHANGED <<entries, lock, acked>>

Parsed(c) == call[c].pc = "parsing" /\ call[c].next > Len(call[c].raw)

\* Mutant: the error return forgets the lock.
MutMissingRollback(c) ==
    /\ Parsed(c)
    /\ call[c].parser.rb.rollback = <<>>
    /\ call' = [call EXCEPT ![c] = Idle]
    /\ UNCHANGED <<entries, lock, acked>>

\* "missing rollback section": nothing is stored and no number is used up.
MissingRollback(c) ==
    /\ Parsed(c)
    /\ call[c].parser.rb.rollback = <<>>
    /\ lock' = NoCaller
    /\ call' = [call EXCEPT ![c] = Idle]
    /\ UNCHANGED <<entries, acked>>

\* Mutant: a new version replaces the earlier ones.
MutReadVersions(c) ==
    /\ Parsed(c)
    /\ call[c].parser.rb.rollback # <<>>
    /\ call' = [call EXCEPT ![c].pc = "appending", ![c].versions = <<>>]
    /\ UNCHANGED <<entries, lock, acked>>

\* Mutant: a document without a rollback is stored as well.
MutUnchecked(c) ==
    /\ Parsed(c)
    /\ call' = [call EXCEPT ![c].pc = "appending",
                            ![c].versions = entries[call[c].name]]
    /\ UNCHANGED <<entries, lock, acked>>

ReadVersions(c) ==
    /\ Parsed(c)
    /\ call[c].parser.rb.rollback # <<>>
    /\ call' = [call EXCEPT ![c].pc = "appending",
                            ![c].versions = entries[call[c].name]]
    /\ UNCHANGED <<entries, lock, acked>>

\* Mutant: the number of the version before.
MutNewVersion(versions) == Len(versions) - 1

NewVersion(versions) == Len(versions) + 1

AppendVersion(c) ==
    LET k == call[c]
        newVersion == NewVersion(k.versions)
    IN  /\ k.pc = "appending"
        /\ entries' = [entries EXCEPT ![k.name] =
              Append(k.versions, [version |-> newVersion, raw |-> k.raw,
                                  runbook |-> k.parser.rb])]
        /\ acked' = acked \cup {[name |-> k.name, version |-> newVersion, raw |-> k.raw]}
        /\ lock' = NoCaller
        /\ call' = [call EXCEPT ![c] = Idle]

Step(c) == ParseLine(c) \/ MissingRollback(c) \/ ReadVersions(c) \/ AppendVersion(c)

Next == \E c \in Callers :
           \/ \E name \in Names : \E doc \in Documents[name] : Store(c, name, doc)
           \/ Step(c)

\* A Store that began goes on; nothing forces a caller to call it.
Spec == Init /\ [][Next]_vars /\ \A c \in Callers : WF_vars(Step(c))

-----------------------------------------------------------------------------
(* Properties.                                                              *)

\* Whatever the order of sections, headings, bullets and fences, the parser has
\* at every line read exactly what the headings above each line make of it: a
\* fenced line is only ever part of a command, a step's lines may be scattered
\* over the document, and no heading reaches into the next section.
ParsesByHeadings ==
    \A c \in Callers :
        call[c] # Idle => Says(call[c].raw, call[c].next - 1, call[c].parser.rb)

\* A version that Store returned is the one Get finds for that number ever after,
\* the numbers of a name have no gap, and nothing is stored that was not
\* returned, whatever calls overlap and fail.
AckedVersionsStay ==
    /\ \A a \in acked : /\ Get(a.name, a.version).version = a.version
                        /\ Get(a.name, a.version).raw = a.raw
    /\ \A n \in Names :
          /\ ListVersions(n) = [i \in DOMAIN entries[n] |-> i]
          /\ GetLatest(n).version = Len(entries[n])
          /\ \A i \in DOMAIN entries[n] :
                [name |-> n, version |-> i, raw |-> entries[n][i].raw] \in acked

\* The engine under the policy generated from a stored runbook, on that
\* runbook's own plan: no step marked medium or high runs unasked, next to a
\* high step nothing is deleted, and a step is blocked for a reason the runbook
\* states, never for the rollback the parser has already insisted on.
Held(rb, env) ==
    LET policy  == GeneratePolicy(rb)
        \* The parsed entries as types.Runbook has them; no code converts them.
        runbook == [rollback |-> Elements(rb.rollback)]
        verdict == ValidatePlan(rb.remediation, policy, runbook, env)
    IN  \A i \in DOMAIN rb.remediation :
          LET step == rb.remediation[i] IN
          /\ step.risk \in {"medium", "high"} => verdict[i] # Approved
          /\ step.action = "delete" /\ HasRisk(rb, "high") => verdict[i] = Blocked
          /\ verdict[i] = Blocked =>
                \/ step.action \in Elements(rb.forbidden)
                \/ step.action = "delete" /\ HasRisk(rb, "high")
                \/ rb.namespaces # <<>> /\ env \notin Elements(rb.namespaces)

CompiledPlanIsHeld ==
    \A n \in Names : \A i \in DOMAIN entries[n] :
        \A env \in Namespaces : Held(entries[n][i].runbook, env)

\* A document may be stored if it begins with a title and has, outside its code
\* blocks, a bullet under a heading of a rollback section.
Complete(doc) ==
    /\ doc[1].kind = "title"
    /\ \E j \in Bullets(doc, Len(doc), "rollback") : StepOf(doc, j) > 0

SaysAll(doc, rb) == Says(doc, Len(doc), rb)

Log == INSTANCE VersionLog WITH
         Says <- SaysAll, log <- entries, returned <- acked

\* Store implements the append-only log: although it parses line by line and reads
\* the versions before it appends, whatever overlaps and fails, each version is
\* added at one moment to all that were there, complete and read as a whole
\* (versioning.go:29-50).
ImplementsVersionLog == Log!LSpec

\* No document, accepted or refused, leaves the store locked.
LockIsReleased == lock # NoCaller ~> lock = NoCaller
=============================================================================
