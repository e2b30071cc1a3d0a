------------------------------ MODULE MCCompiler -------------------------------
\* Compiler for TLC: a complete runbook whose remediation, whose rollback or
\* whose beginning is replaced by every short sequence of lines.
EXTENDS Compiler, TLC

Line(kind, text)  == [kind |-> kind, text |-> text, key |-> "", val |-> ""]
Bullet(key, val)  == [kind |-> "bullet", text |-> "pair", key |-> key, val |-> val]
Section(text)     == Line("section", text)
Sub(text)         == Line("subsection", text)

MCTexts == {"", "A", "B", "pair", "runbook", "scope", "severity", "allowed tools",
            "forbidden tools", "diagnosis", "remediation", "rollback", "notes",
            "Namespaces", "Resources", "staging", "action", "risk", "autoapprove",
            "restart", "delete", "low", "medium", "high", "High", "true"}

MCSplitComma == [t \in MCTexts |-> IF t = "pair" THEN <<"A", "B">> ELSE <<t>>]

Title      == Line("title", "runbook")
FenceLine  == Line("fence", "")
Remediation == Section("remediation")
Rollback    == Section("rollback")

Undo == <<Rollback, Sub("A"), Bullet("action", "restart")>>

\* Every sequence of up to n lines.
UpTo(n, lines) == UNION {[1..k -> lines] : k \in 0..n}

StepLines == {Sub("A"), Bullet("risk", "high"), Bullet("action", "delete"),
              Bullet("", ""), FenceLine, Remediation}
Plans == {<<Title, Remediation, Sub("A"), Bullet("risk", "medium"), Sub("B")>> \o s
            \o <<Sub("A"), Bullet("autoapprove", "true")>> \o Undo :
            s \in UpTo(3, StepLines)}
Undos == {<<Title, Remediation, Sub("A"), Bullet("risk", "High"), Rollback>> \o s :
            s \in UpTo(3, {Sub("A"), Bullet("action", "restart"), FenceLine})}
Heads == {<<Title, h, Sub("A")>> \o s \o <<Remediation>> \o Tail(Undo) \o Undo :
            h \in {Section(t) : t \in {"scope", "severity", "allowed tools",
                                       "forbidden tools", "diagnosis", "notes"}},
            s \in UpTo(2, {Bullet("Namespaces", "staging"), Line("bullet", "restart"),
                           FenceLine})}

Few == {<<Title>> \o Undo, <<Title, Rollback, Sub("B"), Bullet("risk", "low")>>, <<Title>>,
        <<Line("text", "notes")>> \o Undo}

CONSTANTS n1, n2  \* one version of any document, two versions of a few
MCNames       == {n1, n2}
MCDocuments   == n1 :> (Plans \cup Undos \cup Heads) @@ n2 :> Few
MCMaxVersions == n1 :> 1 @@ n2 :> 2
MCLines == UNION {{d[i] : i \in DOMAIN d} : d \in MCDocuments[n1] \cup MCDocuments[n2]}
=============================================================================
