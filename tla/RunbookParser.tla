----------------------------- MODULE RunbookParser -----------------------------
(***************************************************************************)
(* The runbook compiler's pure part (services/operator/internal/compiler): *)
(* ParseMarkdown as a machine that is fed one line at a time, and          *)
(* GeneratePolicy.  A line is what the parser can tell of it:              *)
(*                                                                         *)
(*   kind  "fence" (```), "section" (## ), "subsection" (### ),            *)
(*         "bullet" (- ), "title" (# ), "text" or "blank"                  *)
(*   text  what follows the mark                                           *)
(*   key   of a bullet "- key: val": the key, "" if there is no colon;     *)
(*         the keys of a step and "true" stand for any capitalisation,     *)
(*         "Namespaces" and "Resources" for that very spelling             *)
(*   val   of a bullet: what follows the colon                             *)
(***************************************************************************)
EXTENDS Integers, Sequences, FiniteSets

CONSTANTS
    Lines,      \* the lines that documents are made of
    Texts,      \* headings, names and values in them
    SplitComma  \* the comma-separated parts of a text

Blank == ""  \* Go's zero value of a text

Kinds == {"fence", "section", "subsection", "bullet", "title", "text", "blank"}

ASSUME LinesAssumption ==
    /\ Blank \in Texts
    /\ Lines \subseteq [kind : Kinds, text : Texts, key : Texts, val : Texts]
    /\ \A l \in Lines : l.kind = "subsection" => l.text # Blank
    /\ SplitComma \in [Texts -> Seq(Texts)]

ParsedStep == [name : Texts, action : Texts, risk : Texts, autoApprove : BOOLEAN]

DiagnosisEntry == [name : Texts, command : Seq(Lines)]

ParsedRunbook == [namespaces : Seq(Texts), resources : Seq(Texts),
                  severity : Seq(Texts), allowed : Seq(Texts),
                  forbidden : Seq(Texts), diagnosis : Seq(DiagnosisEntry),
                  remediation : Seq(ParsedStep), rollback : Seq(ParsedStep)]

EmptyRunbook == [namespaces |-> <<>>, resources |-> <<>>, severity |-> <<>>,
                 allowed |-> <<>>, forbidden |-> <<>>, diagnosis |-> <<>>,
                 remediation |-> <<>>, rollback |-> <<>>]

\* The parser's locals.
Parser == [section : Texts, subsection : Texts, inCodeBlock : BOOLEAN,
           code : Seq(Lines), rb : ParsedRunbook]

NewParser == [section |-> Blank, subsection |-> Blank, inCodeBlock |-> FALSE,
              code |-> <<>>, rb |-> EmptyRunbook]

-----------------------------------------------------------------------------
\* The first step with that name, 0 if there is none.
findStepIndex(steps, name) ==
    LET found == {i \in DOMAIN steps : steps[i].name = name}
    IN  IF found = {} THEN 0
        ELSE CHOOSE i \in found : \A j \in found : i <= j

parseAndMergeStep(step, l) ==
    [step EXCEPT
        !.action      = IF l.key = "action" THEN l.val ELSE @,
        !.risk        = IF l.key = "risk" THEN l.val ELSE @,
        !.autoApprove = IF l.key = "autoapprove" THEN l.val = "true" ELSE @]

NewStep(name) == [name |-> name, action |-> Blank, risk |-> Blank, autoApprove |-> FALSE]

\* A bullet under a step's heading: into the step of that name, wherever its
\* heading stood before, else into a new one.
MergeLine(steps, name, l) ==
    LET idx == findStepIndex(steps, name)
    IN  IF idx > 0 THEN [steps EXCEPT ![idx] = parseAndMergeStep(@, l)]
        ELSE Append(steps, parseAndMergeStep(NewStep(name), l))

parseScopeLine(l, rb) ==
    [rb EXCEPT
        !.namespaces = IF l.key = "Namespaces" THEN @ \o SplitComma[l.val] ELSE @,
        !.resources  = IF l.key = "Resources" THEN @ \o SplitComma[l.val] ELSE @]

\* A line that is neither a fence nor a heading, read in a section.  In a severity
\* the mark of the line stays part of its text, which Texts need not show.
Content(p, l) ==
    LET bullet == l.kind = "bullet"
        step   == bullet /\ p.subsection # Blank
    IN  IF p.section = "scope" /\ bullet THEN parseScopeLine(l, p.rb)
        ELSE IF p.section = "severity" /\ l.kind # "blank"
             THEN [p.rb EXCEPT !.severity = @ \o SplitComma[l.text]]
        ELSE IF p.section = "allowed tools" /\ bullet
             THEN [p.rb EXCEPT !.allowed = Append(@, l.text)]
        ELSE IF p.section = "forbidden tools" /\ bullet
             THEN [p.rb EXCEPT !.forbidden = Append(@, l.text)]
        ELSE IF p.section = "remediation" /\ step
             THEN [p.rb EXCEPT !.remediation = MergeLine(@, p.subsection, l)]
        ELSE IF p.section = "rollback" /\ step
             THEN [p.rb EXCEPT !.rollback = MergeLine(@, p.subsection, l)]
        ELSE p.rb

\* A fence opens a code block, or closes it and makes it a diagnosis command if
\* it stands under a heading of the diagnosis section.
Fence(p) ==
    [p EXCEPT
        !.inCodeBlock = ~@,
        !.code = <<>>,
        !.rb.diagnosis =
            IF p.inCodeBlock /\ p.section = "diagnosis" /\ p.subsection # Blank
            THEN Append(@, [name |-> p.subsection, command |-> p.code])
            ELSE @]

\* Mutant: a section keeps the subsection of the one before it.
MutReadLine(p, l) ==
    IF l.kind = "fence" THEN Fence(p)
    ELSE IF p.inCodeBlock THEN [p EXCEPT !.code = Append(@, l)]
    ELSE IF l.kind = "section" THEN [p EXCEPT !.section = l.text]
    ELSE IF l.kind = "subsection" THEN [p EXCEPT !.subsection = l.text]
    ELSE [p EXCEPT !.rb = Content(p, l)]

\* One turn of ParseMarkdown's loop.
ReadLine(p, l) ==
    IF l.kind = "fence" THEN Fence(p)
    ELSE IF p.inCodeBlock THEN [p EXCEPT !.code = Append(@, l)]
    ELSE IF l.kind = "section" THEN [p EXCEPT !.section = l.text, !.subsection = Blank]
    ELSE IF l.kind = "subsection" THEN [p EXCEPT !.subsection = l.text]
    ELSE [p EXCEPT !.rb = Content(p, l)]

-----------------------------------------------------------------------------
(* GeneratePolicy, in the shape of PolicyEngine's policies.                 *)

HasRisk(rb, risk) == \E i \in DOMAIN rb.remediation : rb.remediation[i].risk = risk

Elements(s) == {s[i] : i \in DOMAIN s}

\* Mutant: the first medium step ends the search for the highest risk.
MutMaxRisk(rb) ==
    IF HasRisk(rb, "medium") THEN "medium"
    ELSE IF HasRisk(rb, "high") THEN "high" ELSE "low"

MaxRisk(rb) ==
    IF HasRisk(rb, "high") THEN "high"
    ELSE IF HasRisk(rb, "medium") THEN "medium" ELSE "low"

GeneratePolicy(rb) ==
    LET maxRisk == MaxRisk(rb)
    IN  [scope              |-> Elements(rb.namespaces),
         forbidden          |-> Elements(rb.forbidden),
         maxPods            |-> CASE maxRisk = "high"   -> 3
                                  [] maxRisk = "medium" -> 5
                                  [] maxRisk = "low"    -> 10,
         maxNamespaces      |-> IF maxRisk = "low" THEN 2 ELSE 1,
         forbidDelete       |-> maxRisk = "high",
         requireApprovalFor |-> IF HasRisk(rb, "high") \/ HasRisk(rb, "medium")
                                THEN {"medium", "high"} ELSE {"high"}]

-----------------------------------------------------------------------------
(* Reference definition: what a document says, from the headings above each *)
(* line instead of a parser's state.  n lines of doc are read, the first    *)
(* of them the title.                                                       *)

\* An even number of fences above line j: no code block is open there.
Even(doc, j) == Cardinality({k \in 2..(j - 1) : doc[k].kind = "fence"}) % 2 = 0

Outside(doc, j) == doc[j].kind # "fence" /\ Even(doc, j)

\* The last heading (or opening fence) above line j and below line low, 0 if none.
Heading(doc, kind, low, j) ==
    LET above == {k \in (low + 1)..(j - 1) :
                    k > 1 /\ doc[k].kind = kind /\ Even(doc, k)}
    IN  IF above = {} THEN 0 ELSE CHOOSE k \in above : \A m \in above : m <= k

SectionOf(doc, j) == Heading(doc, "section", 0, j)
StepOf(doc, j)    == Heading(doc, "subsection", SectionOf(doc, j), j)

\* The bullets of a section, and those that stand under a heading in it.
Bullets(doc, n, section) ==
    {j \in 2..n : /\ doc[j].kind = "bullet" /\ Outside(doc, j)
                  /\ SectionOf(doc, j) > 0
                  /\ doc[SectionOf(doc, j)].text = section}

\* The steps are the headings with a bullet, in the order of their first one,
\* each name once; a field has the last value given under that name.
SaysSteps(doc, n, section, steps) ==
    LET under(name) == {j \in Bullets(doc, n, section) :
                          StepOf(doc, j) > 0 /\ doc[StepOf(doc, j)].text = name}
        named(i) == under(steps[i].name)
        first(i) == CHOOSE j \in named(i) : \A k \in named(i) : j <= k
        given(i, key) == {j \in named(i) : doc[j].key = key}
        last(i, key) == IF given(i, key) = {} THEN Blank
                        ELSE doc[CHOOSE j \in given(i, key) :
                                    \A k \in given(i, key) : k <= j].val
    IN  /\ \A j \in Bullets(doc, n, section) :
              StepOf(doc, j) > 0 => \E i \in DOMAIN steps : j \in named(i)
        /\ \A i \in DOMAIN steps :
              /\ named(i) # {}
              /\ i > 1 => first(i - 1) < first(i)
              /\ steps[i].action = last(i, "action")
              /\ steps[i].risk = last(i, "risk")
              /\ steps[i].autoApprove = (last(i, "autoapprove") = "true")

\* The fences that close a code block under a heading of the diagnosis section.
Commands(doc, n) ==
    {j \in 2..n : /\ doc[j].kind = "fence" /\ ~Even(doc, j)
                  /\ SectionOf(doc, j) > 0 /\ StepOf(doc, j) > 0
                  /\ doc[SectionOf(doc, j)].text = "diagnosis"}

\* What a runbook says agrees with the first n lines of its document.
Says(doc, n, rb) ==
    /\ SaysSteps(doc, n, "remediation", rb.remediation)
    /\ SaysSteps(doc, n, "rollback", rb.rollback)
    /\ Elements(rb.forbidden) = {doc[j].text : j \in Bullets(doc, n, "forbidden tools")}
    /\ Elements(rb.namespaces) =
          UNION {Elements(SplitComma[doc[j].val]) :
                   j \in {k \in Bullets(doc, n, "scope") : doc[k].key = "Namespaces"}}
    /\ Len(rb.diagnosis) = Cardinality(Commands(doc, n))
    /\ Elements(rb.diagnosis) =
          {[name    |-> doc[StepOf(doc, j)].text,
            command |-> SubSeq(doc, Heading(doc, "fence", 0, j) + 1, j - 1)] :
             j \in Commands(doc, n)}
=============================================================================
