---------------------------- MODULE Compiler_proofs ----------------------------
(***************************************************************************)
(* Proofs about the parser, the policy generated from what it reads, and   *)
(* the versioned store: that each line is read as the headings above it    *)
(* say, that a version once returned stays, and what the policy makes of   *)
(* the plan it was generated from.                                         *)
(***************************************************************************)
EXTENDS Compiler, PolicyEngine_proofs, FiniteSetTheorems, SequenceTheorems

-----------------------------------------------------------------------------
(* The parser keeps its shape, and no two steps of a section share a name,  *)
(* so that the first step of a name is the only one.                        *)

UniqueNames(steps) ==
    \A i, j \in DOMAIN steps : steps[i].name = steps[j].name => i = j

WellFormed(rb) ==
    /\ rb \in ParsedRunbook
    /\ UniqueNames(rb.remediation)
    /\ UniqueNames(rb.rollback)

ParserOK(p) == p \in Parser /\ WellFormed(p.rb)

\* What Append does, in terms the provers can use.
LEMMA AppendFacts ==
    ASSUME NEW S, NEW s \in Seq(S), NEW e \in S
    PROVE  /\ Append(s, e) \in Seq(S)
           /\ Len(Append(s, e)) = Len(s) + 1
           /\ DOMAIN Append(s, e) = 1..(Len(s) + 1)
           /\ Append(s, e)[Len(s) + 1] = e
           /\ \A i \in DOMAIN s : Append(s, e)[i] = s[i]
           /\ \A i \in DOMAIN Append(s, e) : i # Len(s) + 1 => i \in DOMAIN s
OBVIOUS

LEMMA EmptyFacts ==
    ASSUME NEW S
    PROVE  <<>> \in Seq(S)
OBVIOUS

LEMMA ConcatFacts ==
    ASSUME NEW S, NEW s \in Seq(S), NEW t \in Seq(S)
    PROVE  s \o t \in Seq(S)
OBVIOUS

\* A section whose names are unique has no other step of a name it finds.
LEMMA FindStepIndexFacts ==
    ASSUME NEW steps \in Seq(ParsedStep), UniqueNames(steps), NEW name
    PROVE  LET idx == findStepIndex(steps, name)
           IN  \/ idx = 0 /\ \A i \in DOMAIN steps : steps[i].name # name
               \/ idx \in 1..Len(steps) /\ steps[idx].name = name
<1> DEFINE found == {i \in DOMAIN steps : steps[i].name = name}
<1>1. CASE found = {}
  BY <1>1 DEF findStepIndex
<1>2. CASE found # {}
  <2>1. PICK i \in DOMAIN steps : steps[i].name = name
    BY <1>2
  <2>2. found = {i} /\ i \in 1..Len(steps)
    BY <2>1 DEF UniqueNames
  <2>3. findStepIndex(steps, name) = i
    BY <2>2 DEF findStepIndex
  <2> QED BY <2>1, <2>2, <2>3
<1> QED BY <1>1, <1>2

\* Merging a line changes neither the shape nor the name of a step.
LEMMA ParseAndMergeStepFacts ==
    ASSUME NEW step \in ParsedStep, NEW l \in Lines
    PROVE  /\ parseAndMergeStep(step, l) \in ParsedStep
           /\ parseAndMergeStep(step, l).name = step.name
BY LinesAssumption DEF ParsedStep, parseAndMergeStep

\* A bullet under a step's heading keeps the section's names unique.
LEMMA MergeLineFacts ==
    ASSUME NEW steps \in Seq(ParsedStep), UniqueNames(steps),
           NEW name \in Texts, NEW l \in Lines
    PROVE  /\ MergeLine(steps, name, l) \in Seq(ParsedStep)
           /\ UniqueNames(MergeLine(steps, name, l))
           /\ MergeLine(steps, name, l) # <<>>
<1> DEFINE idx == findStepIndex(steps, name)
           out == MergeLine(steps, name, l)
<1>1. CASE idx \in 1..Len(steps) /\ steps[idx].name = name
  <2>1. PICK i \in 1..Len(steps) : i = idx
    BY <1>1
  <2>2. out = [steps EXCEPT ![i] = parseAndMergeStep(steps[i], l)]
    BY <1>1, <2>1 DEF MergeLine
  <2>3. PICK s \in ParsedStep : s = parseAndMergeStep(steps[i], l) /\ s.name = steps[i].name
    BY <2>1, ParseAndMergeStepFacts
  <2>4. out = [steps EXCEPT ![i] = s]
    BY <2>2, <2>3
  <2>5. out \in Seq(ParsedStep) /\ Len(out) = Len(steps) /\ Len(steps) > 0
    BY <2>1, <2>4
  <2>6. \A j \in DOMAIN out : j \in DOMAIN steps /\ out[j].name = steps[j].name
    BY <2>3, <2>4
  <2>7. UniqueNames(out)
    BY <2>6 DEF UniqueNames
  <2> QED BY <2>5, <2>7
<1>2. CASE idx = 0 /\ \A i \in DOMAIN steps : steps[i].name # name
  <2>1. NewStep(name) \in ParsedStep /\ NewStep(name).name = name
    BY LinesAssumption DEF NewStep, ParsedStep
  <2>2. PICK s \in ParsedStep : s = parseAndMergeStep(NewStep(name), l) /\ s.name = name
    BY <2>1, ParseAndMergeStepFacts
  <2>3. out = Append(steps, s)
    BY <1>2, <2>2 DEF MergeLine
  <2>4. out \in Seq(ParsedStep) /\ Len(out) = Len(steps) + 1
    BY <2>3, AppendFacts
  <2>5. UniqueNames(out)
    BY <1>2, <2>2, <2>3, AppendFacts DEF UniqueNames
  <2> QED BY <2>4, <2>5
<1> QED BY <1>1, <1>2, FindStepIndexFacts

\* A line of a section keeps the runbook well formed.
LEMMA ContentFacts ==
    ASSUME NEW p, ParserOK(p), NEW l \in Lines
    PROVE  WellFormed(Content(p, l))
<1> DEFINE rb == p.rb
           out == Content(p, l)
<1> USE LinesAssumption DEF ParserOK, WellFormed
<1>0. /\ rb.namespaces \in Seq(Texts) /\ rb.resources \in Seq(Texts)
      /\ rb.severity \in Seq(Texts) /\ rb.allowed \in Seq(Texts)
      /\ rb.forbidden \in Seq(Texts)
  BY DEF ParsedRunbook
<1>1. /\ rb \in ParsedRunbook /\ p.subsection \in Texts
      /\ l.text \in Texts /\ l.val \in Texts
      /\ SplitComma[l.text] \in Seq(Texts) /\ SplitComma[l.val] \in Seq(Texts)
  BY DEF Parser
<1>2. PICK m : m = MergeLine(rb.remediation, p.subsection, l)
  OBVIOUS
<1>3. PICK b : b = MergeLine(rb.rollback, p.subsection, l)
  OBVIOUS
<1>4. m \in Seq(ParsedStep) /\ UniqueNames(m)
  BY <1>1, <1>2, MergeLineFacts DEF ParsedRunbook
<1>5. b \in Seq(ParsedStep) /\ UniqueNames(b)
  BY <1>1, <1>3, MergeLineFacts DEF ParsedRunbook
<1>6. \/ out = rb
      \/ out = parseScopeLine(l, rb)
      \/ out = [rb EXCEPT !.severity = @ \o SplitComma[l.text]]
      \/ out = [rb EXCEPT !.allowed = Append(@, l.text)]
      \/ out = [rb EXCEPT !.forbidden = Append(@, l.text)]
      \/ out = [rb EXCEPT !.remediation = m]
      \/ out = [rb EXCEPT !.rollback = b]
  BY <1>2, <1>3 DEF Content
<1>7. ASSUME out = parseScopeLine(l, rb) PROVE WellFormed(out)
  <2>1. rb.namespaces \o SplitComma[l.val] \in Seq(Texts)
    BY <1>0, <1>1, ConcatFacts
  <2>2. rb.resources \o SplitComma[l.val] \in Seq(Texts)
    BY <1>0, <1>1, ConcatFacts
  <2>3. PICK ns \in Seq(Texts), rs \in Seq(Texts) :
           out = [rb EXCEPT !.namespaces = ns, !.resources = rs]
    BY <1>1, <1>7, <2>1, <2>2 DEF parseScopeLine, ParsedRunbook
  <2> QED BY <1>1, <2>3 DEF ParsedRunbook
<1>8. ASSUME out = [rb EXCEPT !.severity = @ \o SplitComma[l.text]] PROVE WellFormed(out)
  <2>1. PICK ts \in Seq(Texts) : ts = rb.severity \o SplitComma[l.text]
    BY <1>0, <1>1, ConcatFacts
  <2> QED BY <1>1, <1>8, <2>1 DEF ParsedRunbook
<1>9. ASSUME out = [rb EXCEPT !.allowed = Append(@, l.text)] PROVE WellFormed(out)
  <2>1. PICK ts \in Seq(Texts) : ts = Append(rb.allowed, l.text)
    BY <1>0, <1>1, AppendFacts
  <2> QED BY <1>1, <1>9, <2>1 DEF ParsedRunbook
<1>10. ASSUME out = [rb EXCEPT !.forbidden = Append(@, l.text)] PROVE WellFormed(out)
  <2>1. PICK ts \in Seq(Texts) : ts = Append(rb.forbidden, l.text)
    BY <1>0, <1>1, AppendFacts
  <2> QED BY <1>1, <1>10, <2>1 DEF ParsedRunbook
<1>11. ASSUME out = [rb EXCEPT !.remediation = m] PROVE WellFormed(out)
  BY <1>1, <1>4, <1>11 DEF ParsedRunbook
<1>12. ASSUME out = [rb EXCEPT !.rollback = b] PROVE WellFormed(out)
  BY <1>1, <1>5, <1>12 DEF ParsedRunbook
<1> QED BY <1>6, <1>7, <1>8, <1>9, <1>10, <1>11, <1>12

\* A record of the shape of the parser's is a parser.
LEMMA ParserRecord ==
    ASSUME NEW p \in Parser, NEW ls \in Seq(Lines), NEW rb, WellFormed(rb)
    PROVE  ParserOK([p EXCEPT !.inCodeBlock = ~p.inCodeBlock, !.code = ls, !.rb = rb])
<1> DEFINE r == [p EXCEPT !.inCodeBlock = ~p.inCodeBlock, !.code = ls, !.rb = rb]
<1>1. rb \in ParsedRunbook
  BY DEF WellFormed
<1>2. (~p.inCodeBlock) \in BOOLEAN
  OBVIOUS
<1>3. r \in Parser
  BY <1>1, <1>2 DEF Parser
<1>4. r.rb = rb
  BY DEF Parser
<1> QED BY <1>3, <1>4 DEF ParserOK

\* One turn of ParseMarkdown's loop keeps the parser well formed.
LEMMA ReadLineFacts ==
    ASSUME NEW p, ParserOK(p), NEW l \in Lines
    PROVE  ParserOK(ReadLine(p, l))
<1> USE LinesAssumption
<1>1. p \in Parser /\ WellFormed(p.rb) /\ l.text \in Texts
  BY DEF ParserOK
<1>2. CASE l.kind = "fence"
  <2>1. PICK rb \in ParsedRunbook : rb = p.rb /\ WellFormed(rb)
    BY <1>1 DEF WellFormed
  <2>4. PICK ls \in Seq(Lines) : ls = <<>>
    BY EmptyFacts
  <2>2. CASE p.inCodeBlock /\ p.section = "diagnosis" /\ p.subsection # Blank
    <3>1. PICK e \in DiagnosisEntry : e = [name |-> p.subsection, command |-> p.code]
      BY <1>1 DEF Parser, DiagnosisEntry
    <3>2. PICK d \in Seq(DiagnosisEntry) : d = Append(rb.diagnosis, e)
      BY <2>1, AppendFacts DEF ParsedRunbook
    <3>3. PICK new : new = [rb EXCEPT !.diagnosis = d]
      OBVIOUS
    <3>4. WellFormed(new)
      BY <2>1, <3>3 DEF WellFormed, ParsedRunbook
    <3>5. ReadLine(p, l) = [p EXCEPT !.inCodeBlock = ~p.inCodeBlock, !.code = <<>>, !.rb = new]
      BY <1>1, <1>2, <2>1, <2>2, <3>1, <3>2, <3>3 DEF ReadLine, Fence, Parser
    <3>6. ParserOK([p EXCEPT !.inCodeBlock = ~p.inCodeBlock, !.code = ls, !.rb = new])
      BY <1>1, <3>4, ParserRecord
    <3> QED BY <3>5, <3>6, <2>4
  <2>3. CASE ~(p.inCodeBlock /\ p.section = "diagnosis" /\ p.subsection # Blank)
    <3>1. [rb EXCEPT !.diagnosis = rb.diagnosis] = rb
      BY <2>1 DEF ParsedRunbook
    <3>2. ReadLine(p, l) = [p EXCEPT !.inCodeBlock = ~p.inCodeBlock, !.code = <<>>, !.rb = rb]
      BY <1>1, <1>2, <2>1, <2>3, <3>1 DEF ReadLine, Fence, Parser
    <3>3. ParserOK([p EXCEPT !.inCodeBlock = ~p.inCodeBlock, !.code = ls, !.rb = rb])
      BY <1>1, <2>1, ParserRecord
    <3> QED BY <3>2, <3>3, <2>4
  <2> QED BY <2>2, <2>3
<1>3. CASE l.kind # "fence" /\ p.inCodeBlock
  <2>1. PICK ls \in Seq(Lines) : ls = Append(p.code, l)
    BY <1>1, AppendFacts DEF Parser
  <2>2. ReadLine(p, l) = [p EXCEPT !.code = ls]
    BY <1>3, <2>1 DEF ReadLine
  <2> QED BY <1>1, <2>2 DEF ParserOK, Parser
<1>4. CASE l.kind = "section" /\ ~p.inCodeBlock
  BY <1>1, <1>4 DEF ReadLine, ParserOK, Parser
<1>5. CASE l.kind = "subsection" /\ ~p.inCodeBlock
  BY <1>1, <1>5 DEF ReadLine, ParserOK, Parser
<1>6. CASE l.kind \notin {"fence", "section", "subsection"} /\ ~p.inCodeBlock
  <2>1. PICK rb : rb = Content(p, l) /\ WellFormed(rb)
    BY ContentFacts
  <2>2. ReadLine(p, l) = [p EXCEPT !.rb = rb]
    BY <1>6, <2>1 DEF ReadLine
  <2> QED BY <1>1, <2>1, <2>2 DEF ParserOK, Parser, WellFormed
<1> QED BY <1>2, <1>3, <1>4, <1>5, <1>6

\* A new parser is well formed.
LEMMA NewParserFacts == ParserOK(NewParser)
<1>1. PICK rb : rb = EmptyRunbook
  OBVIOUS
<1>2. rb \in ParsedRunbook /\ rb.remediation = <<>> /\ rb.rollback = <<>>
  BY <1>1 DEF EmptyRunbook, ParsedRunbook
<1>3. WellFormed(rb)
  BY <1>2 DEF WellFormed, UniqueNames
<1>4. NewParser = [section |-> Blank, subsection |-> Blank, inCodeBlock |-> FALSE,
                   code |-> <<>>, rb |-> rb]
  BY <1>1 DEF NewParser
<1>5. NewParser \in Parser /\ NewParser.rb = rb
  <2>1. <<>> \in Seq(Lines) /\ FALSE \in BOOLEAN /\ Blank \in Texts
    BY EmptyFacts, LinesAssumption
  <2> QED BY <1>2, <1>4, <2>1 DEF Parser
<1> QED BY <1>3, <1>5 DEF ParserOK

-----------------------------------------------------------------------------
(* The parser agrees with the reference definition: what the headings above *)
(* a line say is settled by the lines before it, so each turn of the loop    *)
(* carries the agreement from n lines to n + 1.                             *)

HeadText(doc, k, text) ==
    /\ k = 0 => text = Blank
    /\ k > 0 => text = doc[k].text

\* A line that is not a fence leaves a code block open or closed; a fence changes it.
LEMMA EvenStep ==
    ASSUME NEW doc, NEW j \in Nat, j >= 2
    PROVE  Even(doc, j + 1) <=> IF doc[j].kind = "fence" THEN ~Even(doc, j) ELSE Even(doc, j)
<1> DEFINE F == {k \in 2..(j - 1) : doc[k].kind = "fence"}
           G == {k \in 2..((j + 1) - 1) : doc[k].kind = "fence"}
<1>1. IsFiniteSet(F) /\ Cardinality(F) \in Nat
  <2>1. IsFiniteSet(2..(j - 1))
    BY FS_Interval
  <2> QED BY <2>1, FS_Subset, FS_CardinalityType
<1>2. PICK q \in Nat : q = Cardinality(F)
  BY <1>1
<1>3. Even(doc, j) <=> q % 2 = 0
  BY <1>2 DEF Even
<1>4. CASE doc[j].kind = "fence"
  <2>1. G = F \cup {j} /\ j \notin F
    BY <1>4
  <2>2. Cardinality(G) = q + 1
    BY <1>1, <1>2, <2>1, FS_AddElement
  <2>3. Even(doc, j + 1) <=> (q + 1) % 2 = 0
    BY <2>2 DEF Even
  <2> QED BY <1>3, <1>4, <2>3
<1>5. CASE doc[j].kind # "fence"
  <2>1. G = F
    BY <1>5
  <2> QED BY <1>5, <2>1 DEF Even
<1> QED BY <1>4, <1>5

\* The last heading above a line is the line before it, or what it was there.
LEMMA HeadingStep ==
    ASSUME NEW doc, NEW kind, NEW low \in Nat, NEW j \in Nat, j >= 2, low < j
    PROVE  /\ doc[j].kind = kind /\ Even(doc, j) => Heading(doc, kind, low, j + 1) = j
           /\ ~(doc[j].kind = kind /\ Even(doc, j)) =>
                 Heading(doc, kind, low, j + 1) = Heading(doc, kind, low, j)
<1> DEFINE A == {k \in (low + 1)..(j - 1) : k > 1 /\ doc[k].kind = kind /\ Even(doc, k)}
           B == {k \in (low + 1)..((j + 1) - 1) : k > 1 /\ doc[k].kind = kind /\ Even(doc, k)}
<1>1. CASE doc[j].kind = kind /\ Even(doc, j)
  <2>1. j \in B /\ \A m \in B : m <= j
    BY <1>1
  <2>2. \A x \in B : (\A m \in B : m <= x) => x = j
    BY <2>1
  <2>3. Heading(doc, kind, low, j + 1) = j
    BY <2>1, <2>2 DEF Heading
  <2> QED BY <1>1, <2>3
<1>2. CASE ~(doc[j].kind = kind /\ Even(doc, j))
  <2>1. A = B
    BY <1>2
  <2>2. Heading(doc, kind, low, j) =
           IF A = {} THEN 0 ELSE CHOOSE k \in A : \A m \in A : m <= k
    BY DEF Heading
  <2>3. Heading(doc, kind, low, j + 1) =
           IF B = {} THEN 0 ELSE CHOOSE k \in B : \A m \in B : m <= k
    BY DEF Heading
  <2> HIDE DEF A, B
  <2> QED BY <1>2, <2>1, <2>2, <2>3
<1> QED BY <1>1, <1>2

\* Nothing stands above a line and below the heading right before it.
LEMMA HeadingNone ==
    ASSUME NEW doc, NEW kind, NEW j \in Nat
    PROVE  Heading(doc, kind, j, j + 1) = 0
BY DEF Heading

\* Where the parser stands after n lines, in the words of the reference definition.
Position(doc, n, p) ==
    /\ p.inCodeBlock <=> ~Even(doc, n + 1)
    /\ SectionOf(doc, n + 1) \in 0..n
    /\ StepOf(doc, n + 1) \in 0..n
    /\ HeadText(doc, SectionOf(doc, n + 1), p.section)
    /\ HeadText(doc, StepOf(doc, n + 1), p.subsection)
    /\ StepOf(doc, n + 1) > 0 => p.subsection # Blank
    /\ p.inCodeBlock => /\ Heading(doc, "fence", 0, n + 1) \in 1..n
                        /\ p.code = SubSeq(doc, Heading(doc, "fence", 0, n + 1) + 1, n)

\* What a line does to the parser, but for the runbook it builds.
LEMMA ReadLineControl ==
    ASSUME NEW p \in Parser, NEW l
    PROVE  LET q == ReadLine(p, l)
           IN  /\ q.inCodeBlock <=> IF l.kind = "fence" THEN ~p.inCodeBlock ELSE p.inCodeBlock
               /\ \/ /\ l.kind = "section" /\ ~p.inCodeBlock
                     /\ q.section = l.text /\ q.subsection = Blank
                  \/ /\ l.kind = "subsection" /\ ~p.inCodeBlock
                     /\ q.section = p.section /\ q.subsection = l.text
                  \/ /\ p.inCodeBlock \/ l.kind \notin {"section", "subsection"}
                     /\ q.section = p.section /\ q.subsection = p.subsection
               /\ l.kind = "fence" => q.code = <<>>
               /\ l.kind # "fence" /\ p.inCodeBlock => q.code = Append(p.code, l)
<1>1. CASE l.kind = "fence"
  BY <1>1 DEF ReadLine, Fence, Parser
<1>2. CASE l.kind # "fence" /\ p.inCodeBlock
  BY <1>2 DEF ReadLine, Parser
<1>3. CASE l.kind = "section" /\ ~p.inCodeBlock
  BY <1>3 DEF ReadLine, Parser
<1>4. CASE l.kind = "subsection" /\ ~p.inCodeBlock
  BY <1>4 DEF ReadLine, Parser
<1>5. CASE l.kind \notin {"fence", "section", "subsection"} /\ ~p.inCodeBlock
  BY <1>5 DEF ReadLine, Parser
<1> QED BY <1>1, <1>2, <1>3, <1>4, <1>5

\* The lines from h + 1 to m are those up to m - 1 and line m.
LEMMA SubSeqAppend ==
    ASSUME NEW doc \in Seq(Lines), NEW m \in Nat, m \in DOMAIN doc,
           NEW h \in Nat, h >= 1, h < m
    PROVE  Append(SubSeq(doc, h + 1, m - 1), doc[m]) = SubSeq(doc, h + 1, m)
<1>1. /\ h + 1 \in 1..Len(doc) /\ m \in (h + 1)..Len(doc) /\ doc[m] \in Lines
      /\ h + 1 \in Int /\ m - 1 \in Int
  <2>1. DOMAIN doc = 1..Len(doc) /\ Len(doc) \in Nat
    OBVIOUS
  <2> QED BY <2>1
<1>2. SubSeq(doc, h + 1, m) = SubSeq(doc, h + 1, m - 1) \o <<doc[m]>>
  BY <1>1, SubSeqRecursiveSecond
<1>3. SubSeq(doc, h + 1, m - 1) \in Seq(Lines)
  <2>1. \A i \in (h + 1)..(m - 1) : doc[i] \in Lines
    OBVIOUS
  <2> QED BY <1>1, <2>1, SubSeqProperties
<1> QED BY <1>1, <1>2, <1>3, AppendIsConcat

\* Each line moves the parser as it moves the headings above the next line.
LEMMA PositionStep ==
    ASSUME NEW doc \in Seq(Lines), NEW n \in Nat, n >= 1, n + 1 \in DOMAIN doc,
           NEW p \in Parser, Position(doc, n, p)
    PROVE  Position(doc, n + 1, ReadLine(p, doc[n + 1]))
<1>1. PICK m \in Nat : m = n + 1 /\ m \in DOMAIN doc /\ m >= 2
  OBVIOUS
<1>2. PICK l \in Lines : l = doc[m]
  BY <1>1
<1>3. PICK q : q = ReadLine(p, l)
  OBVIOUS
<1>4. /\ p.inCodeBlock <=> ~Even(doc, m)
      /\ SectionOf(doc, m) \in 0..n
      /\ StepOf(doc, m) \in 0..n
      /\ HeadText(doc, SectionOf(doc, m), p.section)
      /\ HeadText(doc, StepOf(doc, m), p.subsection)
      /\ StepOf(doc, m) > 0 => p.subsection # Blank
      /\ p.inCodeBlock => /\ Heading(doc, "fence", 0, m) \in 1..n
                          /\ p.code = SubSeq(doc, Heading(doc, "fence", 0, m) + 1, n)
  BY <1>1 DEF Position
<1>5. /\ q.inCodeBlock <=> IF l.kind = "fence" THEN ~p.inCodeBlock ELSE p.inCodeBlock
      /\ \/ /\ l.kind = "section" /\ ~p.inCodeBlock
            /\ q.section = l.text /\ q.subsection = Blank
         \/ /\ l.kind = "subsection" /\ ~p.inCodeBlock
            /\ q.section = p.section /\ q.subsection = l.text
         \/ /\ p.inCodeBlock \/ l.kind \notin {"section", "subsection"}
            /\ q.section = p.section /\ q.subsection = p.subsection
      /\ l.kind = "fence" => q.code = <<>>
      /\ l.kind # "fence" /\ p.inCodeBlock => q.code = Append(p.code, l)
  BY <1>3, ReadLineControl
<1>6. Even(doc, m + 1) <=> IF l.kind = "fence" THEN ~Even(doc, m) ELSE Even(doc, m)
  BY <1>1, <1>2, EvenStep
<1>7. /\ l.kind = "section" /\ Even(doc, m) => SectionOf(doc, m + 1) = m
      /\ ~(l.kind = "section" /\ Even(doc, m)) => SectionOf(doc, m + 1) = SectionOf(doc, m)
  <2>1. 0 \in Nat /\ 0 < m /\ m >= 2
    BY <1>1
  <2>2. /\ l.kind = "section" /\ Even(doc, m) => Heading(doc, "section", 0, m + 1) = m
        /\ ~(l.kind = "section" /\ Even(doc, m)) =>
              Heading(doc, "section", 0, m + 1) = Heading(doc, "section", 0, m)
    BY <2>1, <1>2, HeadingStep
  <2> QED BY <2>2 DEF SectionOf
<1>8. /\ l.kind = "section" /\ Even(doc, m) => StepOf(doc, m + 1) = 0
      /\ l.kind = "subsection" /\ Even(doc, m) => StepOf(doc, m + 1) = m
      /\ ~(l.kind \in {"section", "subsection"} /\ Even(doc, m)) =>
            StepOf(doc, m + 1) = StepOf(doc, m)
  <2>1. CASE l.kind = "section" /\ Even(doc, m)
    BY <1>1, <1>7, <2>1, HeadingNone DEF StepOf
  <2>2. CASE ~(l.kind = "section" /\ Even(doc, m))
    <3>1. PICK s \in Nat : s = SectionOf(doc, m) /\ s < m
      BY <1>1, <1>4
    <3>2. SectionOf(doc, m + 1) = s
      BY <1>7, <2>2, <3>1
    <3> QED BY <1>1, <1>2, <2>2, <3>1, <3>2, HeadingStep DEF StepOf
  <2> QED BY <2>1, <2>2
<1>9. /\ l.kind = "fence" /\ Even(doc, m) => Heading(doc, "fence", 0, m + 1) = m
      /\ ~(l.kind = "fence" /\ Even(doc, m)) =>
            Heading(doc, "fence", 0, m + 1) = Heading(doc, "fence", 0, m)
  <2>1. 0 \in Nat /\ 0 < m /\ m >= 2
    BY <1>1
  <2> QED BY <2>1, <1>2, HeadingStep
<1>10. q.inCodeBlock <=> ~Even(doc, m + 1)
  BY <1>4, <1>5, <1>6
<1>11. SectionOf(doc, m + 1) \in 0..m /\ StepOf(doc, m + 1) \in 0..m
  BY <1>1, <1>4, <1>7, <1>8
<1>12. HeadText(doc, m, l.text)
  BY <1>1, <1>2 DEF HeadText
<1>13. HeadText(doc, SectionOf(doc, m + 1), q.section)
  BY <1>4, <1>5, <1>7, <1>12
<1>14. HeadText(doc, StepOf(doc, m + 1), q.subsection)
  BY <1>4, <1>5, <1>8, <1>12 DEF HeadText
<1>15. StepOf(doc, m + 1) > 0 => q.subsection # Blank
  <2>1. l.kind = "subsection" => l.text # Blank
    BY LinesAssumption
  <2>2. CASE l.kind = "section" /\ Even(doc, m)
    BY <1>8, <2>2
  <2>3. CASE l.kind = "subsection" /\ Even(doc, m)
    BY <1>4, <1>5, <2>1, <2>3
  <2>4. CASE ~(l.kind \in {"section", "subsection"} /\ Even(doc, m))
    BY <1>4, <1>5, <1>8, <2>4
  <2> QED BY <2>2, <2>3, <2>4
<1>16. ASSUME q.inCodeBlock
       PROVE  /\ Heading(doc, "fence", 0, m + 1) \in 1..m
              /\ q.code = SubSeq(doc, Heading(doc, "fence", 0, m + 1) + 1, m)
  <2>1. CASE l.kind = "fence"
    <3>1. Heading(doc, "fence", 0, m + 1) = m
      BY <1>4, <1>5, <1>9, <1>16, <2>1
    <3>2. SubSeq(doc, m + 1, m) = <<>>
      BY <1>1, SubSeqEmpty
    <3>3. q.code = SubSeq(doc, m + 1, m)
      BY <1>5, <2>1, <3>2
    <3>4. m \in 1..m
      BY <1>1
    <3> QED BY <3>1, <3>3, <3>4
  <2>2. CASE l.kind # "fence"
    <3>1. PICK h \in Nat : /\ h = Heading(doc, "fence", 0, m) /\ h >= 1 /\ h <= n
                           /\ p.code = SubSeq(doc, h + 1, n)
      <4>1. p.inCodeBlock
        BY <1>5, <1>16, <2>2
      <4>2. /\ Heading(doc, "fence", 0, m) \in 1..n
            /\ p.code = SubSeq(doc, Heading(doc, "fence", 0, m) + 1, n)
        BY <1>4, <4>1
      <4>3. PICK h \in 1..n : h = Heading(doc, "fence", 0, m)
        BY <4>2
      <4>4. h \in Nat /\ h >= 1 /\ h <= n
        OBVIOUS
      <4> QED BY <4>2, <4>3, <4>4
    <3>2. Heading(doc, "fence", 0, m + 1) = h
      BY <1>9, <2>2, <3>1
    <3>3. q.code = Append(SubSeq(doc, h + 1, n), l)
      BY <1>5, <1>16, <2>2, <3>1
    <3>4. h < m /\ n = m - 1
      BY <1>1, <3>1
    <3>5. Append(SubSeq(doc, h + 1, m - 1), doc[m]) = SubSeq(doc, h + 1, m)
      BY <1>1, <3>1, <3>4, SubSeqAppend
    <3>6. q.code = SubSeq(doc, h + 1, m)
      BY <1>2, <3>3, <3>4, <3>5
    <3>7. h \in 1..m
      BY <1>1, <3>1
    <3> QED BY <3>2, <3>6, <3>7
  <2> QED BY <2>1, <2>2
<1> QED BY <1>1, <1>2, <1>3, <1>10, <1>11, <1>13, <1>14, <1>15, <1>16 DEF Position

\* The names of the sections the parser knows are not empty.
LEMMA SectionNames ==
    \A s \in {"scope", "severity", "allowed tools", "forbidden tools", "diagnosis",
              "remediation", "rollback"} : s # Blank
BY Zenon DEF Blank

\* A line joins the bullets of the section the parser is in, and of no other.
LEMMA BulletsStep ==
    ASSUME NEW doc, NEW n \in Nat, n >= 1, NEW p, Position(doc, n, p),
           NEW m \in Nat, m = n + 1, NEW section, section # Blank
    PROVE  /\ doc[m].kind = "bullet" /\ ~p.inCodeBlock /\ p.section = section =>
                 Bullets(doc, m, section) = Bullets(doc, n, section) \cup {m}
           /\ ~(doc[m].kind = "bullet" /\ ~p.inCodeBlock /\ p.section = section) =>
                 Bullets(doc, m, section) = Bullets(doc, n, section)
           /\ Bullets(doc, n, section) \subseteq 2..n
<1> DEFINE Joins(j) == /\ doc[j].kind = "bullet" /\ Outside(doc, j)
                       /\ SectionOf(doc, j) > 0
                       /\ doc[SectionOf(doc, j)].text = section
<1>1. Bullets(doc, n, section) = {j \in 2..n : Joins(j)}
  BY DEF Bullets
<1>2. Bullets(doc, m, section) = {j \in 2..m : Joins(j)}
  BY DEF Bullets
<1>3. Joins(m) <=> doc[m].kind = "bullet" /\ ~p.inCodeBlock /\ p.section = section
  <2>1. p.inCodeBlock <=> ~Even(doc, m)
    BY DEF Position
  <2>2. SectionOf(doc, m) \in Nat
    BY DEF Position
  <2>3. SectionOf(doc, m) > 0 => p.section = doc[SectionOf(doc, m)].text
    BY DEF Position, HeadText
  <2>4. SectionOf(doc, m) = 0 => p.section = Blank
    BY DEF Position, HeadText
  <2>5. Outside(doc, m) <=> doc[m].kind # "fence" /\ ~p.inCodeBlock
    BY <2>1 DEF Outside
  <2> QED BY <2>2, <2>3, <2>4, <2>5
<1> HIDE DEF Joins
<1>4. 2..m = 2..n \cup {m}
  OBVIOUS
<1>5. Joins(m) => {j \in 2..m : Joins(j)} = {j \in 2..n : Joins(j)} \cup {m}
  BY <1>4
<1>6. ~Joins(m) => {j \in 2..m : Joins(j)} = {j \in 2..n : Joins(j)}
  BY <1>4
<1>7. {j \in 2..n : Joins(j)} \subseteq 2..n
  OBVIOUS
<1> QED BY <1>1, <1>2, <1>3, <1>5, <1>6, <1>7

\* A line joins the commands when it closes a code block under a diagnosis heading.
LEMMA CommandsStep ==
    ASSUME NEW doc, NEW n \in Nat, n >= 1, NEW p, Position(doc, n, p),
           NEW m \in Nat, m = n + 1
    PROVE  LET joins == /\ doc[m].kind = "fence" /\ p.inCodeBlock
                        /\ p.section = "diagnosis" /\ p.subsection # Blank
           IN  /\ joins => Commands(doc, m) = Commands(doc, n) \cup {m}
               /\ ~joins => Commands(doc, m) = Commands(doc, n)
               /\ Commands(doc, n) \subseteq 2..n
<1> DEFINE Joins(j) == /\ doc[j].kind = "fence" /\ ~Even(doc, j)
                       /\ SectionOf(doc, j) > 0 /\ StepOf(doc, j) > 0
                       /\ doc[SectionOf(doc, j)].text = "diagnosis"
<1>1. Commands(doc, n) = {j \in 2..n : Joins(j)}
  BY DEF Commands
<1>2. Commands(doc, m) = {j \in 2..m : Joins(j)}
  BY DEF Commands
<1>3. Joins(m) <=> /\ doc[m].kind = "fence" /\ p.inCodeBlock
                   /\ p.section = "diagnosis" /\ p.subsection # Blank
  <2>1. p.inCodeBlock <=> ~Even(doc, m)
    BY DEF Position
  <2>2. SectionOf(doc, m) \in Nat /\ StepOf(doc, m) \in Nat
    BY DEF Position
  <2>3. SectionOf(doc, m) > 0 => p.section = doc[SectionOf(doc, m)].text
    BY DEF Position, HeadText
  <2>4. SectionOf(doc, m) = 0 => p.section = Blank
    BY DEF Position, HeadText
  <2>5. StepOf(doc, m) > 0 <=> p.subsection # Blank
    BY <2>2 DEF Position, HeadText
  <2>6. p.section = "diagnosis" =>
           SectionOf(doc, m) > 0 /\ doc[SectionOf(doc, m)].text = "diagnosis"
    <3>1. "diagnosis" # Blank
      BY SectionNames
    <3> QED BY <2>2, <2>3, <2>4, <3>1
  <2> QED BY <2>1, <2>3, <2>5, <2>6
<1> HIDE DEF Joins
<1>4. 2..m = 2..n \cup {m}
  OBVIOUS
<1>5. Joins(m) => {j \in 2..m : Joins(j)} = {j \in 2..n : Joins(j)} \cup {m}
  BY <1>4
<1>6. ~Joins(m) => {j \in 2..m : Joins(j)} = {j \in 2..n : Joins(j)}
  BY <1>4
<1>7. {j \in 2..n : Joins(j)} \subseteq 2..n
  OBVIOUS
<1> QED BY <1>1, <1>2, <1>3, <1>5, <1>6, <1>7

\* The bullets of B under a name, the first of some bullets, those that give a
\* field, the last value given, and what they make of a step.
Under(doc, B, name) ==
    {j \in B : StepOf(doc, j) > 0 /\ doc[StepOf(doc, j)].text = name}

First(A) == CHOOSE j \in A : \A k \in A : j <= k

Last(A) == CHOOSE j \in A : \A k \in A : k <= j

Given(doc, A, key) == {j \in A : doc[j].key = key}

Value(doc, A, key) ==
    IF Given(doc, A, key) = {} THEN Blank
    ELSE doc[Last(Given(doc, A, key))].val

\* All lines of A stand above line m.
Before(A, m) == \A k \in A : k \in Nat /\ k < m

Fields(doc, A, step) ==
    /\ step.action = Value(doc, A, "action")
    /\ step.risk = Value(doc, A, "risk")
    /\ step.autoApprove = (Value(doc, A, "autoapprove") = "true")

\* SaysSteps of the bullets B.
SaysFrom(doc, B, steps) ==
    /\ \A j \in B : StepOf(doc, j) > 0 =>
          \E i \in DOMAIN steps : j \in Under(doc, B, steps[i].name)
    /\ \A i \in DOMAIN steps :
          /\ Under(doc, B, steps[i].name) # {}
          /\ i > 1 => First(Under(doc, B, steps[i - 1].name))
                         < First(Under(doc, B, steps[i].name))
          /\ Fields(doc, Under(doc, B, steps[i].name), steps[i])

LEMMA SaysStepsIsSaysFrom ==
    ASSUME NEW doc, NEW n, NEW section, NEW steps
    PROVE  SaysSteps(doc, n, section, steps)
              <=> SaysFrom(doc, Bullets(doc, n, section), steps)
BY DEF SaysSteps, SaysFrom, Under, First, Last, Fields, Value, Given

\* A later bullet gives its own field a new value and leaves the others.
LEMMA ValueStep ==
    ASSUME NEW doc, NEW m \in Nat, NEW A, Before(A, m), NEW key
    PROVE  /\ doc[m].key = key => Value(doc, A \cup {m}, key) = doc[m].val
           /\ doc[m].key # key => Value(doc, A \cup {m}, key) = Value(doc, A, key)
<1> DEFINE G == Given(doc, A \cup {m}, key)
<1>1. CASE doc[m].key = key
  <2>1. m \in G /\ \A k \in G : k <= m
    BY <1>1 DEF Given, Before
  <2>2. \A x \in G : (\A k \in G : k <= x) => x = m
    <3>1. \A x \in G : x <= m /\ x \in Nat
      BY <1>1 DEF Given, Before
    <3>2. ASSUME NEW x \in G, \A k \in G : k <= x PROVE x = m
      <4>1. m <= x /\ x <= m /\ x \in Nat
        BY <2>1, <3>1, <3>2
      <4> QED BY <4>1
    <3> QED BY <3>2
  <2>3. Last(G) = m
    BY <2>1, <2>2 DEF Last
  <2>4. Value(doc, A \cup {m}, key) = doc[Last(G)].val
    BY <2>1 DEF Value
  <2> QED BY <1>1, <2>3, <2>4
<1>2. CASE doc[m].key # key
  <2>1. Given(doc, A \cup {m}, key) = Given(doc, A, key)
    BY <1>2 DEF Given
  <2>2. Value(doc, A \cup {m}, key) = Value(doc, A, key)
    BY <2>1 DEF Value
  <2> QED BY <1>2, <2>2
<1> QED BY <1>1, <1>2

\* Whatever follows, the first stays the first.
LEMMA FirstStep ==
    ASSUME NEW m \in Nat, NEW A, Before(A, m), A # {}
    PROVE  First(A) \in A /\ First(A \cup {m}) = First(A)
<1>1. \A x \in A : x \in Nat /\ x < m
  BY DEF Before
<1>2. PICK f \in A : \A k \in A : f <= k
  <2>1. A \subseteq Nat
    BY <1>1
  <2> QED BY <2>1, LeastExists
<1>3. f \in Nat /\ f < m
  BY <1>1
<1>4. First(A) = f
  <2>1. \A x \in A : (\A k \in A : x <= k) => x = f
    BY <1>1, <1>2, <1>3
  <2> QED BY <1>2, <2>1 DEF First
<1>5. First(A \cup {m}) = f
  <2>1. f \in A \cup {m} /\ \A k \in A \cup {m} : f <= k
    BY <1>2, <1>3
  <2>2. \A x \in A \cup {m} : (\A k \in A \cup {m} : x <= k) => x = f
    <3>1. \A x \in A \cup {m} : x \in Nat
      BY <1>1
    <3>2. f \in A \cup {m}
      OBVIOUS
    <3>3. ASSUME NEW x \in A \cup {m}, \A k \in A \cup {m} : x <= k PROVE x = f
      <4>1. x <= f /\ f <= x /\ x \in Nat
        BY <2>1, <3>1, <3>2, <3>3
      <4> QED BY <1>3, <4>1
    <3> QED BY <3>3
  <2> QED BY <2>1, <2>2 DEF First
<1> QED BY <1>4, <1>5

LEMMA FirstAlone ==
    ASSUME NEW m \in Nat PROVE First({m}) = m
BY DEF First

\* A bullet does to a step what its line does to the step's values.
LEMMA FieldsStep ==
    ASSUME NEW doc, NEW m \in Nat, NEW A, Before(A, m),
           NEW step \in ParsedStep, Fields(doc, A, step)
    PROVE  Fields(doc, A \cup {m}, parseAndMergeStep(step, doc[m]))
<1>1. PICK l : l = doc[m]
  OBVIOUS
<1>2. PICK out : out = parseAndMergeStep(step, l)
  OBVIOUS
<1>3. /\ l.key = "action" => out.action = l.val
      /\ l.key # "action" => out.action = step.action
  BY <1>2 DEF parseAndMergeStep, ParsedStep
<1>4. /\ l.key = "risk" => out.risk = l.val
      /\ l.key # "risk" => out.risk = step.risk
  BY <1>2 DEF parseAndMergeStep, ParsedStep
<1>5. /\ l.key = "autoapprove" => out.autoApprove = (l.val = "true")
      /\ l.key # "autoapprove" => out.autoApprove = step.autoApprove
  BY <1>2 DEF parseAndMergeStep, ParsedStep
<1>6. ASSUME NEW key
      PROVE  /\ l.key = key => Value(doc, A \cup {m}, key) = l.val
             /\ l.key # key => Value(doc, A \cup {m}, key) = Value(doc, A, key)
  <2>1. /\ doc[m].key = key => Value(doc, A \cup {m}, key) = doc[m].val
        /\ doc[m].key # key => Value(doc, A \cup {m}, key) = Value(doc, A, key)
    BY ValueStep
  <2> QED BY <1>1, <2>1
<1>7. /\ step.action = Value(doc, A, "action")
      /\ step.risk = Value(doc, A, "risk")
      /\ step.autoApprove = (Value(doc, A, "autoapprove") = "true")
  BY DEF Fields
<1>8. out.action = Value(doc, A \cup {m}, "action")
  BY <1>3, <1>6, <1>7
<1>9. out.risk = Value(doc, A \cup {m}, "risk")
  BY <1>4, <1>6, <1>7
<1>10. out.autoApprove = (Value(doc, A \cup {m}, "autoapprove") = "true")
  <2>1. CASE l.key = "autoapprove"
    BY <1>5, <1>6, <2>1
  <2>2. CASE l.key # "autoapprove"
    BY <1>5, <1>6, <1>7, <2>2
  <2> QED BY <2>1, <2>2
<1> QED BY <1>1, <1>2, <1>8, <1>9, <1>10 DEF Fields

LEMMA FieldsNew ==
    ASSUME NEW doc, NEW name
    PROVE  Fields(doc, {}, NewStep(name))
<1>1. \A key : Value(doc, {}, key) = Blank
  BY DEF Value, Given
<1>2. Blank # "true"
  BY Zenon DEF Blank
<1>3. (Value(doc, {}, "autoapprove") = "true") = FALSE
  BY <1>1, <1>2
<1> QED BY <1>1, <1>3 DEF Fields, NewStep

\* A bullet joins those under its name, and no others.
LEMMA UnderJoins ==
    ASSUME NEW doc, NEW m, NEW B, NEW name,
           StepOf(doc, m) > 0, doc[StepOf(doc, m)].text = name
    PROVE  Under(doc, B \cup {m}, name) = Under(doc, B, name) \cup {m}
BY DEF Under

LEMMA UnderStays ==
    ASSUME NEW doc, NEW m, NEW B, NEW name,
           ~(StepOf(doc, m) > 0 /\ doc[StepOf(doc, m)].text = name)
    PROVE  Under(doc, B \cup {m}, name) = Under(doc, B, name)
BY DEF Under

\* A bullet without a heading says nothing of a step.
LEMMA SaysSkip ==
    ASSUME NEW doc, NEW m \in Nat, NEW B, ~(StepOf(doc, m) > 0),
           NEW steps, SaysFrom(doc, B, steps)
    PROVE  SaysFrom(doc, B \cup {m}, steps)
<1>1. ASSUME NEW name PROVE Under(doc, B \cup {m}, name) = Under(doc, B, name)
  BY UnderStays
<1>2. \A j \in B \cup {m} : StepOf(doc, j) > 0 => j \in B
  OBVIOUS
<1> QED BY <1>1, <1>2 DEF SaysFrom

\* A bullet under a heading is merged into the step of that name.
LEMMA SaysMerge ==
    ASSUME NEW doc, NEW m \in Nat, NEW B, Before(B, m), doc[m] \in Lines,
           NEW name \in Texts, StepOf(doc, m) > 0, doc[StepOf(doc, m)].text = name,
           NEW steps \in Seq(ParsedStep), UniqueNames(steps), SaysFrom(doc, B, steps)
    PROVE  SaysFrom(doc, B \cup {m}, MergeLine(steps, name, doc[m]))
<1> DEFINE idx == findStepIndex(steps, name)
           out == MergeLine(steps, name, doc[m])
           U(x) == Under(doc, B, x)
           V(x) == Under(doc, B \cup {m}, x)
<1>1. V(name) = U(name) \cup {m} /\ m \notin U(name)
  BY UnderJoins DEF Under, Before
<1>2. ASSUME NEW x, x # name PROVE V(x) = U(x)
  <2>1. ~(StepOf(doc, m) > 0 /\ doc[StepOf(doc, m)].text = x)
    BY <1>2
  <2>2. Under(doc, B \cup {m}, x) = Under(doc, B, x)
    BY <2>1, UnderStays
  <2> QED BY <2>2
<1>3. \A x : Before(U(x), m) /\ U(x) \subseteq V(x)
  <2>1. \A x : Before(U(x), m)
    BY DEF Under, Before
  <2> QED BY <2>1, <1>1, <1>2
<1>4. \A j \in B : StepOf(doc, j) > 0 => \E i \in DOMAIN steps : j \in U(steps[i].name)
  BY DEF SaysFrom
<1>5. ASSUME NEW i \in DOMAIN steps
      PROVE  /\ U(steps[i].name) # {}
             /\ i > 1 => First(U(steps[i - 1].name)) < First(U(steps[i].name))
             /\ Fields(doc, U(steps[i].name), steps[i])
  BY DEF SaysFrom
<1> HIDE DEF U, V
<1>6. ASSUME NEW i \in DOMAIN steps
      PROVE  First(V(steps[i].name)) = First(U(steps[i].name)) /\ V(steps[i].name) # {}
  <2>1. CASE steps[i].name = name
    <3>1. U(name) # {} /\ Before(U(name), m)
      BY <1>3, <1>5, <2>1
    <3>2. First(U(name) \cup {m}) = First(U(name))
      BY <3>1, FirstStep
    <3> QED BY <1>1, <2>1, <3>2
  <2>2. CASE steps[i].name # name
    BY <1>2, <1>5, <2>2
  <2> QED BY <2>1, <2>2
<1>7. DOMAIN steps = 1..Len(steps) /\ Len(steps) \in Nat
  OBVIOUS
<1>8. CASE idx \in 1..Len(steps) /\ steps[idx].name = name
  <2>1. PICK a \in Nat : a = idx /\ a >= 1 /\ a <= Len(steps) /\ a \in DOMAIN steps
                         /\ steps[a].name = name
    BY <1>7, <1>8
  <2>2. PICK s : s = parseAndMergeStep(steps[a], doc[m])
    OBVIOUS
  <2>3. out = [steps EXCEPT ![a] = s]
    BY <2>1, <2>2 DEF MergeLine
  <2>4. s.name = name
    BY <2>1, <2>2, ParseAndMergeStepFacts
  <2>5. /\ DOMAIN out = DOMAIN steps /\ out[a] = s
        /\ \A i \in DOMAIN steps : i # a => out[i] = steps[i]
    BY <2>1, <2>3
  <2> HIDE DEF out
  <2>6. \A i \in DOMAIN out : i \in DOMAIN steps /\ out[i].name = steps[i].name
    BY <2>1, <2>4, <2>5
  <2>7. ASSUME NEW i \in DOMAIN out PROVE Fields(doc, V(out[i].name), out[i])
    <3>1. CASE i = a
      <4>1. steps[a] \in ParsedStep /\ Fields(doc, U(name), steps[a])
        <5>1. Fields(doc, U(steps[a].name), steps[a]) /\ steps[a].name = name
          BY <2>1, <1>5
        <5> QED BY <2>1, <5>1
      <4>2. Before(U(name), m)
        BY <1>3
      <4>3. Fields(doc, U(name) \cup {m}, s)
        BY <2>2, <4>1, <4>2, FieldsStep
      <4> QED BY <1>1, <2>4, <2>5, <3>1, <4>3
    <3>2. CASE i # a
      <4>1. i \in DOMAIN steps /\ out[i] = steps[i]
        BY <2>5, <3>2
      <4>2. steps[i].name # name
        BY <2>1, <3>2, <4>1 DEF UniqueNames
      <4> QED BY <1>2, <1>5, <4>1, <4>2
    <3> QED BY <3>1, <3>2
  <2>8. ASSUME NEW i \in DOMAIN out, i > 1
        PROVE  First(V(out[i - 1].name)) < First(V(out[i].name))
    <3>1. i \in DOMAIN steps /\ i - 1 \in DOMAIN steps
      BY <1>7, <2>5, <2>8
    <3>2. out[i - 1].name = steps[i - 1].name /\ out[i].name = steps[i].name
      BY <2>5, <2>6, <3>1
    <3> QED BY <1>5, <1>6, <2>8, <3>1, <3>2
  <2>9. ASSUME NEW j \in B \cup {m}, StepOf(doc, j) > 0
        PROVE  \E i \in DOMAIN out : j \in V(out[i].name)
    <3>1. CASE j = m
      BY <1>1, <2>1, <2>4, <2>5, <3>1
    <3>2. CASE j \in B
      <4>1. PICK i \in DOMAIN steps : j \in U(steps[i].name)
        BY <1>4, <2>9, <3>2
      <4> QED BY <1>3, <2>5, <2>6, <4>1
    <3> QED BY <3>1, <3>2
  <2>10. \A i \in DOMAIN out : V(out[i].name) # {}
    BY <1>6, <2>6
  <2> QED BY <2>7, <2>8, <2>9, <2>10 DEF SaysFrom, V, out
<1>9. CASE idx = 0 /\ \A i \in DOMAIN steps : steps[i].name # name
  <2>1. PICK s : s = parseAndMergeStep(NewStep(name), doc[m])
    OBVIOUS
  <2>2. NewStep(name) \in ParsedStep /\ NewStep(name).name = name
    BY LinesAssumption DEF NewStep, ParsedStep
  <2>3. s \in ParsedStep /\ s.name = name
    BY <2>1, <2>2, ParseAndMergeStepFacts
  <2>4. out = Append(steps, s)
    BY <1>9, <2>1 DEF MergeLine
  <2>5. PICK z \in Nat : z = Len(steps) + 1 /\ z >= 1 /\ z = Len(out)
    BY <1>7, <2>3, <2>4, AppendFacts
  <2>6. /\ z \in DOMAIN out /\ out[z] = s
        /\ \A i \in DOMAIN steps : i \in DOMAIN out /\ out[i] = steps[i] /\ i < z
        /\ \A i \in DOMAIN out : i # z => i \in DOMAIN steps
        /\ \A i \in DOMAIN out : i \in Nat
        /\ \A i \in DOMAIN out : i > 1 => i - 1 \in DOMAIN steps
    BY <1>7, <2>3, <2>4, <2>5, AppendFacts
  <2> HIDE DEF out
  <2>7. U(name) = {}
    <3>1. ASSUME NEW j \in U(name) PROVE FALSE
      <4>1. j \in B /\ StepOf(doc, j) > 0 /\ doc[StepOf(doc, j)].text = name
        BY DEF U, Under
      <4>2. PICK i \in DOMAIN steps : j \in U(steps[i].name)
        BY <1>4, <4>1
      <4>3. doc[StepOf(doc, j)].text = steps[i].name
        BY <4>2 DEF U, Under
      <4> QED BY <1>9, <4>1, <4>3
    <3> QED BY <3>1
  <2>8. V(name) = {m} /\ First(V(name)) = m
    BY <1>1, <2>7, FirstAlone
  <2>9. ASSUME NEW i \in DOMAIN out
        PROVE  V(out[i].name) # {} /\ Fields(doc, V(out[i].name), out[i])
    <3>1. CASE i = z
      <4>1. Fields(doc, {} \cup {m}, s)
        <5>1. Before({}, m)
          BY DEF Before
        <5> QED BY <5>1, <2>1, <2>2, FieldsNew, FieldsStep
      <4>2. {} \cup {m} = {m}
        OBVIOUS
      <4> QED BY <2>3, <2>6, <2>8, <3>1, <4>1, <4>2
    <3>2. CASE i # z
      <4>1. i \in DOMAIN steps /\ out[i] = steps[i]
        BY <2>6, <3>2
      <4>2. V(steps[i].name) = U(steps[i].name)
        BY <1>2, <1>9, <4>1
      <4> QED BY <1>5, <4>1, <4>2
    <3> QED BY <3>1, <3>2
  <2>10. ASSUME NEW i \in DOMAIN out, i > 1
         PROVE  First(V(out[i - 1].name)) < First(V(out[i].name))
    <3>1. i - 1 \in DOMAIN steps /\ out[i - 1] = steps[i - 1]
      BY <2>6, <2>10
    <3>2. CASE i = z
      <4>1. PICK x : x = steps[i - 1].name
        OBVIOUS
      <4>2. U(x) # {} /\ Before(U(x), m) /\ First(V(x)) = First(U(x))
        BY <1>3, <1>5, <1>6, <3>1, <4>1
      <4>3. First(U(x)) \in U(x)
        BY <4>2, FirstStep
      <4>4. First(U(x)) < m
        BY <4>2, <4>3 DEF Before
      <4> QED BY <2>3, <2>6, <2>8, <3>1, <3>2, <4>1, <4>2, <4>4
    <3>3. CASE i # z
      BY <1>5, <1>6, <2>6, <2>10, <3>1, <3>3
    <3> QED BY <3>2, <3>3
  <2>11. ASSUME NEW j \in B \cup {m}, StepOf(doc, j) > 0
         PROVE  \E i \in DOMAIN out : j \in V(out[i].name)
    <3>1. CASE j = m
      BY <2>3, <2>6, <2>8, <3>1
    <3>2. CASE j \in B
      <4>1. PICK i \in DOMAIN steps : j \in U(steps[i].name)
        BY <1>4, <2>11, <3>2
      <4> QED BY <1>3, <2>6, <4>1
    <3> QED BY <3>1, <3>2
  <2> QED BY <2>9, <2>10, <2>11 DEF SaysFrom, V, out
<1> QED BY <1>8, <1>9, FindStepIndexFacts

\* A line changes the steps of a section only as a bullet under a heading in it.
LEMMA SaysStepsStep ==
    ASSUME NEW doc, NEW n \in Nat, n >= 1, NEW m \in Nat, m = n + 1, doc[m] \in Lines,
           NEW p \in Parser, Position(doc, n, p), NEW section, section # Blank,
           NEW steps \in Seq(ParsedStep), UniqueNames(steps),
           SaysSteps(doc, n, section, steps), NEW new,
           LET merges == /\ doc[m].kind = "bullet" /\ ~p.inCodeBlock
                         /\ p.section = section /\ p.subsection # Blank
           IN  /\ merges => new = MergeLine(steps, p.subsection, doc[m])
               /\ ~merges => new = steps
    PROVE  SaysSteps(doc, m, section, new)
<1>1. PICK B : B = Bullets(doc, n, section)
  OBVIOUS
<1>2. SaysFrom(doc, B, steps)
  BY <1>1, SaysStepsIsSaysFrom
<1>3. B \subseteq 2..n
  BY <1>1, BulletsStep
<1>4. Before(B, m)
  BY <1>3 DEF Before
<1>5. p.subsection \in Texts
  BY DEF Parser
<1>6. /\ ~(StepOf(doc, m) > 0) => p.subsection = Blank
      /\ StepOf(doc, m) > 0 => p.subsection # Blank /\ doc[StepOf(doc, m)].text = p.subsection
  <2>1. StepOf(doc, m) \in Nat
    BY DEF Position
  <2> QED BY <2>1 DEF Position, HeadText
<1>7. CASE doc[m].kind = "bullet" /\ ~p.inCodeBlock /\ p.section = section
  <2>1. Bullets(doc, m, section) = B \cup {m}
    BY <1>1, <1>7, BulletsStep
  <2>2. CASE StepOf(doc, m) > 0
    <3>1. new = MergeLine(steps, p.subsection, doc[m])
      BY <1>6, <1>7, <2>2
    <3>2. SaysFrom(doc, B \cup {m}, new)
      BY <1>2, <1>4, <1>5, <1>6, <2>2, <3>1, SaysMerge
    <3> QED BY <2>1, <3>2, SaysStepsIsSaysFrom
  <2>3. CASE ~(StepOf(doc, m) > 0)
    <3>1. new = steps
      BY <1>6, <2>3
    <3>2. SaysFrom(doc, B \cup {m}, new)
      BY <1>2, <2>3, <3>1, SaysSkip
    <3> QED BY <2>1, <3>2, SaysStepsIsSaysFrom
  <2> QED BY <2>2, <2>3
<1>8. CASE ~(doc[m].kind = "bullet" /\ ~p.inCodeBlock /\ p.section = section)
  <2>1. Bullets(doc, m, section) = B /\ new = steps
    BY <1>1, <1>8, BulletsStep
  <2> QED BY <1>2, <2>1, SaysStepsIsSaysFrom
<1> QED BY <1>7, <1>8

LEMMA ElementsAppend ==
    ASSUME NEW S, NEW s \in Seq(S), NEW e \in S, NEW t, t = Append(s, e)
    PROVE  Elements(t) = Elements(s) \cup {e}
<1>1. t \in Seq(S)
  BY AppendFacts
<1>2. PICK z \in Nat : z = Len(s) + 1
  OBVIOUS
<1>3. /\ z \in DOMAIN t /\ t[z] = e
      /\ \A i \in DOMAIN s : i \in DOMAIN t /\ t[i] = s[i]
      /\ \A i \in DOMAIN t : i # z => i \in DOMAIN s
  BY <1>1, <1>2, AppendFacts
<1> QED BY <1>3 DEF Elements

LEMMA ElementsConcat ==
    ASSUME NEW S, NEW s \in Seq(S), NEW t \in Seq(S), NEW u, u = s \o t
    PROVE  Elements(u) = Elements(s) \cup Elements(t)
<1>1. /\ \A i \in DOMAIN s : i \in DOMAIN u /\ u[i] = s[i]
      /\ \A i \in DOMAIN t : Len(s) + i \in DOMAIN u /\ u[Len(s) + i] = t[i]
      /\ \A i \in DOMAIN u : i \in DOMAIN s \/ (i - Len(s) \in DOMAIN t /\ u[i] = t[i - Len(s)])
  OBVIOUS
<1>2. Elements(u) \subseteq Elements(s) \cup Elements(t)
  BY <1>1 DEF Elements
<1>3. Elements(s) \subseteq Elements(u)
  BY <1>1 DEF Elements
<1>4. Elements(t) \subseteq Elements(u)
  <2>1. ASSUME NEW i \in DOMAIN t PROVE t[i] \in Elements(u)
    <3>1. PICK k \in DOMAIN u : u[k] = t[i]
      BY <1>1
    <3> QED BY <3>1 DEF Elements
  <2> QED BY <2>1 DEF Elements
<1> QED BY <1>2, <1>3, <1>4

\* What a line does to the runbook, part by part.
LEMMA ReadLineRunbook ==
    ASSUME NEW p, ParserOK(p), NEW l \in Lines
    PROVE  LET rb == ReadLine(p, l).rb
               at(section) == l.kind = "bullet" /\ ~p.inCodeBlock /\ p.section = section
               merges(section) == at(section) /\ p.subsection # Blank
               ends == /\ l.kind = "fence" /\ p.inCodeBlock
                       /\ p.section = "diagnosis" /\ p.subsection # Blank
           IN  /\ merges("remediation") =>
                     rb.remediation = MergeLine(p.rb.remediation, p.subsection, l)
               /\ ~merges("remediation") => rb.remediation = p.rb.remediation
               /\ merges("rollback") => rb.rollback = MergeLine(p.rb.rollback, p.subsection, l)
               /\ ~merges("rollback") => rb.rollback = p.rb.rollback
               /\ at("forbidden tools") => rb.forbidden = Append(p.rb.forbidden, l.text)
               /\ ~at("forbidden tools") => rb.forbidden = p.rb.forbidden
               /\ at("scope") /\ l.key = "Namespaces" =>
                     rb.namespaces = p.rb.namespaces \o SplitComma[l.val]
               /\ ~(at("scope") /\ l.key = "Namespaces") => rb.namespaces = p.rb.namespaces
               /\ ends => rb.diagnosis = Append(p.rb.diagnosis,
                                            [name |-> p.subsection, command |-> p.code])
               /\ ~ends => rb.diagnosis = p.rb.diagnosis
<1>1. p \in Parser /\ p.rb \in ParsedRunbook
  BY DEF ParserOK, WellFormed
<1>2. CASE l.kind = "fence"
  BY <1>1, <1>2 DEF ReadLine, Fence, Parser, ParsedRunbook
<1>3. CASE l.kind # "fence" /\ p.inCodeBlock
  BY <1>1, <1>3 DEF ReadLine, Parser
<1>4. CASE l.kind = "section" /\ ~p.inCodeBlock
  BY <1>1, <1>4 DEF ReadLine, Parser
<1>5. CASE l.kind = "subsection" /\ ~p.inCodeBlock
  BY <1>1, <1>5 DEF ReadLine, Parser
<1>6. CASE l.kind \notin {"fence", "section", "subsection"} /\ ~p.inCodeBlock
  <2>1. ReadLine(p, l).rb = Content(p, l)
    BY <1>1, <1>6 DEF ReadLine, Parser
  <2> QED BY <1>1, <1>6, <2>1 DEF Content, parseScopeLine, ParsedRunbook
<1> QED BY <1>2, <1>3, <1>4, <1>5, <1>6

\* The parser after n lines of a document: where it stands, and what it has read.
ReadSoFar(doc, n, p) == Position(doc, n, p) /\ Says(doc, n, p.rb)

\* The part of Says about the forbidden tools.
SaysForbidden(doc, n, rb) ==
    Elements(rb.forbidden) = {doc[j].text : j \in Bullets(doc, n, "forbidden tools")}

LEMMA ForbiddenStep ==
    ASSUME NEW doc, NEW n \in Nat, n >= 1, NEW m \in Nat, m = n + 1, doc[m] \in Lines,
           NEW p, ParserOK(p), Position(doc, n, p), Says(doc, n, p.rb)
    PROVE  SaysForbidden(doc, m, ReadLine(p, doc[m]).rb)
<1>0. PICK f : f = "forbidden tools"
  OBVIOUS
<1> DEFINE at == doc[m].kind = "bullet" /\ ~p.inCodeBlock /\ p.section = f
<1>1. PICK B : B = Bullets(doc, n, f)
  OBVIOUS
<1>2. /\ at => Bullets(doc, m, f) = B \cup {m}
      /\ ~at => Bullets(doc, m, f) = B
  <2>1. f # Blank
    BY <1>0, SectionNames
  <2> QED BY <1>1, <2>1, BulletsStep
<1>3. PICK old \in Seq(Texts) : old = p.rb.forbidden
  BY DEF ParserOK, WellFormed, ParsedRunbook
<1>4. PICK new : new = ReadLine(p, doc[m]).rb.forbidden
  OBVIOUS
<1>5. PICK e \in Texts : e = doc[m].text
  BY LinesAssumption
<1>6. (at => new = Append(old, e)) /\ (~at => new = old)
  BY <1>0, <1>3, <1>4, <1>5, ReadLineRunbook
<1>7. Elements(old) = {doc[j].text : j \in B}
  BY <1>0, <1>1, <1>3 DEF Says
<1> HIDE DEF at
<1>8. Elements(new) = {doc[j].text : j \in Bullets(doc, m, f)}
  <2>1. CASE at
    <3>1. Elements(new) = Elements(old) \cup {e}
      BY <1>6, <2>1, ElementsAppend
    <3>2. {doc[j].text : j \in B \cup {m}} = {doc[j].text : j \in B} \cup {e}
      BY <1>5
    <3> QED BY <1>2, <1>7, <2>1, <3>1, <3>2
  <2>2. CASE ~at
    BY <1>2, <1>6, <1>7, <2>2
  <2> QED BY <2>1, <2>2
<1> QED BY <1>0, <1>4, <1>8 DEF SaysForbidden

LEMMA NamespacesStep ==
    ASSUME NEW doc, NEW n \in Nat, n >= 1, NEW m \in Nat, m = n + 1, doc[m] \in Lines,
           NEW p, ParserOK(p), Position(doc, n, p), Says(doc, n, p.rb)
    PROVE  Elements(ReadLine(p, doc[m]).rb.namespaces) =
              UNION {Elements(SplitComma[doc[j].val]) :
                       j \in {k \in Bullets(doc, m, "scope") : doc[k].key = "Namespaces"}}
<1> DEFINE at == doc[m].kind = "bullet" /\ ~p.inCodeBlock /\ p.section = "scope"
           gives == doc[m].key = "Namespaces"
           Lists(B) == {k \in B : doc[k].key = "Namespaces"}
           Parts(G) == UNION {Elements(SplitComma[doc[j].val]) : j \in G}
<1>1. PICK B : B = Bullets(doc, n, "scope")
  OBVIOUS
<1>2. /\ at => Bullets(doc, m, "scope") = B \cup {m}
      /\ ~at => Bullets(doc, m, "scope") = B
  <2>1. "scope" # Blank
    BY SectionNames
  <2> QED BY <1>1, <2>1, BulletsStep
<1>3. PICK old \in Seq(Texts) : old = p.rb.namespaces
  BY DEF ParserOK, WellFormed, ParsedRunbook
<1>4. PICK new : new = ReadLine(p, doc[m]).rb.namespaces
  OBVIOUS
<1>5. PICK t \in Seq(Texts) : t = SplitComma[doc[m].val]
  BY LinesAssumption
<1>6. (at /\ gives => new = old \o t) /\ (~(at /\ gives) => new = old)
  BY <1>3, <1>4, <1>5, ReadLineRunbook
<1>7. Elements(old) = Parts(Lists(B))
  BY <1>1, <1>3 DEF Says
<1>8. (gives => Lists(B \cup {m}) = Lists(B) \cup {m})
      /\ (~gives => Lists(B \cup {m}) = Lists(B))
  OBVIOUS
<1>9. \A G : Parts(G \cup {m}) = Parts(G) \cup Elements(t)
  BY <1>5
<1> HIDE DEF at, gives, Lists, Parts
<1>10. Elements(new) = Parts(Lists(Bullets(doc, m, "scope")))
  <2>1. CASE at /\ gives
    <3>1. Elements(new) = Elements(old) \cup Elements(t)
      BY <1>6, <2>1, ElementsConcat
    <3> QED BY <1>2, <1>7, <1>8, <1>9, <2>1, <3>1
  <2>2. CASE at /\ ~gives
    BY <1>2, <1>6, <1>7, <1>8, <2>2
  <2>3. CASE ~at
    BY <1>2, <1>6, <1>7, <2>3
  <2> QED BY <2>1, <2>2, <2>3
<1> QED BY <1>4, <1>10 DEF Parts, Lists

\* The command whose closing fence is line j.
Command(doc, j) ==
    [name    |-> doc[StepOf(doc, j)].text,
     command |-> SubSeq(doc, Heading(doc, "fence", 0, j) + 1, j - 1)]

LEMMA DiagnosisStep ==
    ASSUME NEW doc, NEW n \in Nat, n >= 1, NEW m \in Nat, m = n + 1, doc[m] \in Lines,
           NEW p, ParserOK(p), Position(doc, n, p), Says(doc, n, p.rb)
    PROVE  LET new == ReadLine(p, doc[m]).rb.diagnosis
           IN  /\ Len(new) = Cardinality(Commands(doc, m))
               /\ Elements(new) = {Command(doc, j) : j \in Commands(doc, m)}
<1> DEFINE ends == /\ doc[m].kind = "fence" /\ p.inCodeBlock
                   /\ p.section = "diagnosis" /\ p.subsection # Blank
<1>1. PICK C : C = Commands(doc, n)
  OBVIOUS
<1>2. /\ ends => Commands(doc, m) = C \cup {m}
      /\ ~ends => Commands(doc, m) = C
      /\ C \subseteq 2..n
  BY <1>1, CommandsStep
<1>3. IsFiniteSet(C) /\ m \notin C
  <2>1. IsFiniteSet(2..n)
    BY FS_Interval
  <2> QED BY <1>2, <2>1, FS_Subset
<1>4. PICK old \in Seq(DiagnosisEntry) : old = p.rb.diagnosis
  BY DEF ParserOK, WellFormed, ParsedRunbook
<1>5. PICK new : new = ReadLine(p, doc[m]).rb.diagnosis
  OBVIOUS
<1>6. PICK e \in DiagnosisEntry : e = [name |-> p.subsection, command |-> p.code]
  BY DEF ParserOK, Parser, DiagnosisEntry
<1>7. (ends => new = Append(old, e)) /\ (~ends => new = old)
  BY <1>4, <1>5, <1>6, ReadLineRunbook
<1>8. Len(old) = Cardinality(C) /\ Elements(old) = {Command(doc, j) : j \in C}
  BY <1>1, <1>4 DEF Says, Command
<1>9. CASE ends
  <2>1. e = Command(doc, m)
    <3>1. doc[StepOf(doc, m)].text = p.subsection
      <4>1. StepOf(doc, m) \in Nat
        BY DEF Position
      <4> QED BY <1>9, <4>1 DEF Position, HeadText
    <3>2. p.code = SubSeq(doc, Heading(doc, "fence", 0, m) + 1, n)
      BY <1>9 DEF Position
    <3>3. m - 1 = n
      OBVIOUS
    <3> QED BY <1>6, <3>1, <3>2, <3>3 DEF Command
  <2>2. Elements(new) = Elements(old) \cup {e}
    BY <1>7, <1>9, ElementsAppend
  <2>3. Len(new) = Len(old) + 1
    BY <1>7, <1>9, AppendFacts
  <2>4. Cardinality(C \cup {m}) = Cardinality(C) + 1
    BY <1>3, FS_AddElement
  <2>5. {Command(doc, j) : j \in C \cup {m}} = {Command(doc, j) : j \in C} \cup {Command(doc, m)}
    OBVIOUS
  <2>6. Len(new) = Cardinality(Commands(doc, m))
    BY <1>2, <1>8, <1>9, <2>3, <2>4
  <2>7. Elements(new) = {Command(doc, j) : j \in Commands(doc, m)}
    BY <1>2, <1>8, <1>9, <2>1, <2>2, <2>5
  <2> QED BY <1>5, <2>6, <2>7
<1>10. CASE ~ends
  <2>1. new = old /\ Commands(doc, m) = C
    BY <1>2, <1>7, <1>10
  <2> QED BY <1>5, <1>8, <2>1
<1> QED BY <1>9, <1>10

\* A turn of the parser's loop keeps it in agreement with the reference definition.
LEMMA ReadLineAgrees ==
    ASSUME NEW doc \in Seq(Lines), NEW n \in Nat, n >= 1, n + 1 \in DOMAIN doc,
           NEW p, ParserOK(p), ReadSoFar(doc, n, p)
    PROVE  ReadSoFar(doc, n + 1, ReadLine(p, doc[n + 1]))
<1>1. PICK m \in Nat : m = n + 1 /\ m \in DOMAIN doc
  OBVIOUS
<1>2. doc[m] \in Lines
  BY <1>1
<1>3. Position(doc, n, p) /\ Says(doc, n, p.rb) /\ p \in Parser
  BY DEF ReadSoFar, ParserOK
<1>4. Position(doc, m, ReadLine(p, doc[m]))
  BY <1>1, <1>3, PositionStep
<1>5. PICK rb : rb = ReadLine(p, doc[m]).rb
  OBVIOUS
<1>6. ASSUME NEW section \in {"remediation", "rollback"}, NEW steps \in Seq(ParsedStep),
             UniqueNames(steps), SaysSteps(doc, n, section, steps), NEW new,
             LET merges == /\ doc[m].kind = "bullet" /\ ~p.inCodeBlock
                           /\ p.section = section /\ p.subsection # Blank
             IN  /\ merges => new = MergeLine(steps, p.subsection, doc[m])
                 /\ ~merges => new = steps
      PROVE  SaysSteps(doc, m, section, new)
  <2>1. section # Blank
    BY SectionNames
  <2> QED BY <1>1, <1>2, <1>3, <1>6, <2>1, SaysStepsStep
<1>7. /\ p.rb.remediation \in Seq(ParsedStep) /\ UniqueNames(p.rb.remediation)
      /\ p.rb.rollback \in Seq(ParsedStep) /\ UniqueNames(p.rb.rollback)
  BY DEF ParserOK, WellFormed, ParsedRunbook
<1>8. SaysSteps(doc, m, "remediation", rb.remediation)
  <2>1. SaysSteps(doc, n, "remediation", p.rb.remediation)
    BY <1>3 DEF Says
  <2>2. LET merges == /\ doc[m].kind = "bullet" /\ ~p.inCodeBlock
                      /\ p.section = "remediation" /\ p.subsection # Blank
        IN  /\ merges => rb.remediation = MergeLine(p.rb.remediation, p.subsection, doc[m])
            /\ ~merges => rb.remediation = p.rb.remediation
    BY <1>2, <1>5, ReadLineRunbook
  <2> QED BY <1>6, <1>7, <2>1, <2>2
<1>9. SaysSteps(doc, m, "rollback", rb.rollback)
  <2>1. SaysSteps(doc, n, "rollback", p.rb.rollback)
    BY <1>3 DEF Says
  <2>2. LET merges == /\ doc[m].kind = "bullet" /\ ~p.inCodeBlock
                      /\ p.section = "rollback" /\ p.subsection # Blank
        IN  /\ merges => rb.rollback = MergeLine(p.rb.rollback, p.subsection, doc[m])
            /\ ~merges => rb.rollback = p.rb.rollback
    BY <1>2, <1>5, ReadLineRunbook
  <2> QED BY <1>6, <1>7, <2>1, <2>2
<1>10. SaysForbidden(doc, m, rb)
  BY <1>1, <1>2, <1>3, <1>5, ForbiddenStep
<1>11. Elements(rb.namespaces) =
          UNION {Elements(SplitComma[doc[j].val]) :
                   j \in {k \in Bullets(doc, m, "scope") : doc[k].key = "Namespaces"}}
  BY <1>1, <1>2, <1>3, <1>5, NamespacesStep
<1>12. /\ Len(rb.diagnosis) = Cardinality(Commands(doc, m))
       /\ Elements(rb.diagnosis) = {Command(doc, j) : j \in Commands(doc, m)}
  BY <1>1, <1>2, <1>3, <1>5, DiagnosisStep
<1>13. Says(doc, m, rb)
  BY <1>8, <1>9, <1>10, <1>11, <1>12 DEF Says, SaysForbidden, Command
<1> QED BY <1>1, <1>4, <1>5, <1>13 DEF ReadSoFar

\* After the title the new parser has read nothing, and the document says nothing.
LEMMA NothingRead ==
    ASSUME NEW doc
    PROVE  ReadSoFar(doc, 1, NewParser)
<1>1. \A j : j \notin 2..1
  OBVIOUS
<1>2. Even(doc, 2)
  <2>1. {k \in 2..(2 - 1) : doc[k].kind = "fence"} = {}
    OBVIOUS
  <2>2. Cardinality({}) = 0
    BY FS_EmptySet
  <2> QED BY <2>1, <2>2 DEF Even
<1>3. ASSUME NEW kind PROVE Heading(doc, kind, 0, 2) = 0
  BY DEF Heading
<1>4. SectionOf(doc, 2) = 0 /\ StepOf(doc, 2) = 0
  BY <1>3 DEF SectionOf, StepOf
<1>5. /\ NewParser.inCodeBlock = FALSE /\ NewParser.section = Blank
      /\ NewParser.subsection = Blank /\ NewParser.rb = EmptyRunbook
  BY DEF NewParser
<1>6. Position(doc, 1, NewParser)
  BY <1>2, <1>4, <1>5 DEF Position, HeadText
<1>7. ASSUME NEW section PROVE Bullets(doc, 1, section) = {}
  BY DEF Bullets
<1>8. ASSUME NEW section PROVE SaysSteps(doc, 1, section, <<>>)
  BY <1>7 DEF SaysSteps
<1>9. Commands(doc, 1) = {}
  BY DEF Commands
<1>10. Elements(<<>>) = {} /\ Len(<<>>) = 0 /\ Cardinality({}) = 0
  BY FS_EmptySet DEF Elements
<1>11. Says(doc, 1, EmptyRunbook)
  BY <1>7, <1>8, <1>9, <1>10 DEF Says, EmptyRunbook
<1> QED BY <1>5, <1>6, <1>11 DEF ReadSoFar

-----------------------------------------------------------------------------
(* What the generated policy makes of the plan it was generated from.       *)

\* For every runbook with a rollback, and every environment.
THEOREM PolicyHoldsPlan ==
    ASSUME NEW rb \in ParsedRunbook, rb.rollback # <<>>, NEW env
    PROVE  Held(rb, env)
<1> DEFINE policy  == GeneratePolicy(rb)
           runbook == [rollback |-> Elements(rb.rollback)]
           verdict == ValidatePlan(rb.remediation, policy, runbook, env)
<1>1. /\ policy.scope = Elements(rb.namespaces)
      /\ policy.forbidden = Elements(rb.forbidden)
      /\ policy.forbidDelete = (MaxRisk(rb) = "high")
      /\ policy.requireApprovalFor = IF HasRisk(rb, "high") \/ HasRisk(rb, "medium")
                                     THEN {"medium", "high"} ELSE {"high"}
  BY DEF GeneratePolicy
<1>2. policy.forbidDelete <=> HasRisk(rb, "high")
  BY <1>1 DEF MaxRisk
<1>3. runbook.rollback # {}
  <2>1. 1 \in DOMAIN rb.rollback
    BY DEF ParsedRunbook
  <2> QED BY <2>1 DEF Elements
<1>4. ASSUME NEW i \in DOMAIN rb.remediation
      PROVE  LET step == rb.remediation[i]
                 v    == validateSingleAction(step, policy, runbook, env)
             IN  /\ step.risk \in {"medium", "high"} => v # Approved
                 /\ step.action = "delete" /\ HasRisk(rb, "high") => v = Blocked
                 /\ v = Blocked =>
                      \/ step.action \in Elements(rb.forbidden)
                      \/ step.action = "delete" /\ HasRisk(rb, "high")
                      \/ rb.namespaces # <<>> /\ env \notin Elements(rb.namespaces)
  <2> DEFINE step == rb.remediation[i]
             v    == validateSingleAction(step, policy, runbook, env)
  <2> HIDE DEF policy, runbook
  <2>1. CheckRollback(step, runbook) = Approved
    BY <1>3 DEF CheckRollback
  <2>2. step.risk \in {"medium", "high"} => step.risk \in policy.requireApprovalFor
    BY <1>1 DEF HasRisk
  <2>3. step.risk \in {"medium", "high"} => CheckEnvironment(step, env, policy) # Approved
    BY <2>2 DEF CheckEnvironment, Approved, RequiresApproval
  <2>4. step.risk \in {"medium", "high"} => v # Approved
    BY <2>3 DEF validateSingleAction, Approved, Blocked
  <2>5. step.action = "delete" /\ HasRisk(rb, "high") => v = Blocked
    BY <1>2 DEF validateSingleAction, CheckBlastRadiusAction, Approved, Blocked
  <2>6. v = Blocked => \/ CheckForbidden(step.action, policy) = Blocked
                       \/ CheckBlastRadiusAction(step.action, policy) = Blocked
                       \/ CheckScope(env, policy) = Blocked
    BY <2>1 DEF validateSingleAction, CheckEnvironment, Approved, RequiresApproval, Blocked
  <2>7. CheckForbidden(step.action, policy) = Blocked => step.action \in Elements(rb.forbidden)
    BY <1>1 DEF CheckForbidden, Approved, Blocked
  <2>8. CheckBlastRadiusAction(step.action, policy) = Blocked
          => step.action = "delete" /\ HasRisk(rb, "high")
    BY <1>2 DEF CheckBlastRadiusAction, Approved, Blocked
  <2>9. CheckScope(env, policy) = Blocked
          => rb.namespaces # <<>> /\ env \notin Elements(rb.namespaces)
    BY <1>1 DEF CheckScope, Elements, Approved, Blocked
  <2> QED BY <2>4, <2>5, <2>6, <2>7, <2>8, <2>9
<1>5. \A i \in DOMAIN rb.remediation :
         verdict[i] = validateSingleAction(rb.remediation[i], policy, runbook, env)
  BY DEF ValidatePlan
<1> HIDE DEF policy, runbook, verdict
<1>6. \A i \in DOMAIN rb.remediation :
         /\ rb.remediation[i].risk \in {"medium", "high"} => verdict[i] # Approved
         /\ rb.remediation[i].action = "delete" /\ HasRisk(rb, "high") => verdict[i] = Blocked
         /\ verdict[i] = Blocked =>
              \/ rb.remediation[i].action \in Elements(rb.forbidden)
              \/ rb.remediation[i].action = "delete" /\ HasRisk(rb, "high")
              \/ rb.namespaces # <<>> /\ env \notin Elements(rb.namespaces)
  BY <1>4, <1>5
<1> QED BY <1>6 DEF Held, policy, runbook, verdict

\* A runbook that says at least as much as another one.
Stricter(rb, other) ==
    /\ rb.namespaces # <<>> =>
           /\ other.namespaces # <<>>
           /\ Elements(other.namespaces) \subseteq Elements(rb.namespaces)
    /\ Elements(rb.forbidden) \subseteq Elements(other.forbidden)
    /\ \A risk \in {"medium", "high"} : HasRisk(rb, risk) => HasRisk(other, risk)

\* Editing a runbook so that it says more never relaxes the policy generated from
\* it: a longer list of forbidden tools, a narrower scope or a riskier step added
\* to the plan leaves no limit raised and no verdict on any step milder
\* (policy_generator.go:8-70).
THEOREM StricterRunbookTightens ==
    ASSUME NEW rb \in ParsedRunbook, NEW other \in ParsedRunbook,
           Stricter(rb, other), NEW step, NEW runbook, NEW env
    PROVE  /\ Tighter(GeneratePolicy(rb), GeneratePolicy(other))
           /\ Strictness(validateSingleAction(step, GeneratePolicy(rb), runbook, env))
                <= Strictness(validateSingleAction(step, GeneratePolicy(other),
                                                   runbook, env))
<1> DEFINE p == GeneratePolicy(rb)
           q == GeneratePolicy(other)
<1>1. /\ p.scope = Elements(rb.namespaces) /\ q.scope = Elements(other.namespaces)
      /\ p.forbidden = Elements(rb.forbidden)
      /\ q.forbidden = Elements(other.forbidden)
  BY DEF GeneratePolicy
<1>2. /\ p.forbidDelete = (MaxRisk(rb) = "high")
      /\ q.forbidDelete = (MaxRisk(other) = "high")
  BY DEF GeneratePolicy
<1>3. /\ p.requireApprovalFor = IF HasRisk(rb, "high") \/ HasRisk(rb, "medium")
                                THEN {"medium", "high"} ELSE {"high"}
      /\ q.requireApprovalFor = IF HasRisk(other, "high") \/ HasRisk(other, "medium")
                                THEN {"medium", "high"} ELSE {"high"}
  BY DEF GeneratePolicy
<1>4. ASSUME NEW r
      PROVE  /\ MaxRisk(r) = "high"   => GeneratePolicy(r).maxPods = 3
             /\ MaxRisk(r) = "medium" => GeneratePolicy(r).maxPods = 5
             /\ MaxRisk(r) = "low"    => GeneratePolicy(r).maxPods = 10
  BY DEF GeneratePolicy
<1>5. /\ p.maxNamespaces = IF MaxRisk(rb) = "low" THEN 2 ELSE 1
      /\ q.maxNamespaces = IF MaxRisk(other) = "low" THEN 2 ELSE 1
  BY DEF GeneratePolicy
<1>6. /\ MaxRisk(rb) \in {"low", "medium", "high"}
      /\ MaxRisk(other) \in {"low", "medium", "high"}
      /\ MaxRisk(rb) = "high" => MaxRisk(other) = "high"
      /\ MaxRisk(rb) = "medium" => MaxRisk(other) \in {"medium", "high"}
  BY DEF MaxRisk, Stricter
<1>7. ASSUME NEW ns \in Seq(Texts) PROVE ns = <<>> <=> Elements(ns) = {}
  BY DEF Elements
<1>8. p.scope # {} => q.scope # {} /\ q.scope \subseteq p.scope
  <2>1. rb.namespaces \in Seq(Texts) /\ other.namespaces \in Seq(Texts)
    BY DEF ParsedRunbook
  <2> QED BY <1>1, <1>7, <2>1 DEF Stricter
<1>9. p.forbidden \subseteq q.forbidden
  BY <1>1 DEF Stricter
<1>10. p.requireApprovalFor \subseteq q.requireApprovalFor
  BY <1>3 DEF Stricter
<1>11. p.forbidDelete => q.forbidDelete
  BY <1>2, <1>6
<1>12. /\ p.maxPods \in Nat /\ q.maxPods \in Nat /\ q.maxPods > 0
       /\ q.maxPods <= p.maxPods
  <2>1. CASE MaxRisk(rb) = "high"
    BY <1>4, <1>6, <2>1
  <2>2. CASE MaxRisk(rb) = "medium"
    BY <1>4, <1>6, <2>2
  <2>3. CASE MaxRisk(rb) = "low"
    BY <1>4, <1>6, <2>3
  <2> QED BY <1>6, <2>1, <2>2, <2>3
<1>13. /\ p.maxNamespaces \in Nat /\ q.maxNamespaces \in Nat
       /\ q.maxNamespaces > 0 /\ q.maxNamespaces <= p.maxNamespaces
  BY <1>5, <1>6
<1>14. p.forbidDelete \in BOOLEAN /\ q.forbidDelete \in BOOLEAN
  BY <1>2
<1> HIDE DEF p, q
<1>15. Tighter(p, q)
  BY <1>8, <1>9, <1>10, <1>11, <1>12, <1>13 DEF Tighter
<1>16. Strictness(validateSingleAction(step, p, runbook, env))
         <= Strictness(validateSingleAction(step, q, runbook, env))
  BY <1>14, <1>15, TighterIsStricter
<1> QED BY <1>15, <1>16 DEF p, q

-----------------------------------------------------------------------------
(* The store.  A caller between its two accesses to the entries holds the   *)
(* lock, so the versions it read are still the ones there when it appends.  *)

CallOK(c) ==
    call[c] # Idle =>
        /\ lock = c
        /\ ParserOK(call[c].parser)
        /\ call[c].pc = "appending" =>
              /\ call[c].versions = entries[call[c].name]
              /\ call[c].parser.rb.rollback # <<>>

EntryOK(n, i) ==
    /\ entries[n][i].version = i
    /\ WellFormed(entries[n][i].runbook)
    /\ entries[n][i].runbook.rollback # <<>>
    /\ [name |-> n, version |-> i, raw |-> entries[n][i].raw] \in acked

AckOK(a) ==
    /\ a.version \in DOMAIN entries[a.name]
    /\ entries[a.name][a.version].raw = a.raw

IInv ==
    /\ TypeOK
    /\ \A c \in Callers : CallOK(c)
    /\ \A n \in Names : \A i \in DOMAIN entries[n] : EntryOK(n, i)
    /\ \A a \in acked : AckOK(a)

\* A caller that is anywhere in Store has locals.
LEMMA ActiveCall ==
    ASSUME TypeOK, NEW c \in Callers, call[c].pc # "idle"
    PROVE  call[c] \in Active /\ call[c] # Idle
BY DEF TypeOK, Call, Active, Idle

LEMMA InitFacts == Init => IInv
<1> SUFFICES ASSUME Init PROVE IInv
  OBVIOUS
<1>1. \A n \in Names : entries[n] = <<>> /\ <<>> \in Seq(Entry)
  BY EmptyFacts DEF Init
<1>2. TypeOK
  BY <1>1 DEF Init, TypeOK, Call
<1>3. \A c \in Callers : call[c] = Idle
  BY DEF Init
<1> QED BY <1>1, <1>2, <1>3 DEF Init, IInv, CallOK

LEMMA StoreFacts ==
    ASSUME IInv, NEW c \in Callers, NEW name \in Names, NEW doc \in Documents[name],
           Store(c, name, doc)
    PROVE  IInv'
<1> USE CompilerAssumption
<1>1. PICK p : p = NewParser /\ ParserOK(p)
  BY NewParserFacts
<1>2. PICK k : k = [pc |-> "parsing", name |-> name, raw |-> doc, next |-> 2,
                    parser |-> p, versions |-> <<>>]
  OBVIOUS
<1>3. call' = [call EXCEPT ![c] = k] /\ lock = NoCaller /\ lock' = c
  BY <1>1, <1>2 DEF Store
<1>4. k \in Active
  <2>1. <<>> \in Seq(Entry) /\ doc \in Document /\ p \in Parser
    BY <1>1, EmptyFacts DEF Document, ParserOK
  <2> QED BY <1>2, <2>1 DEF Active
<1>5. entries' = entries /\ acked' = acked
  BY DEF Store
<1>6. TypeOK'
  BY <1>3, <1>4, <1>5 DEF IInv, TypeOK, Call
<1>7. ASSUME NEW d \in Callers PROVE CallOK(d)'
  <2>1. CASE d = c
    <3>1. call'[d] = k
      BY <1>3, <2>1 DEF IInv, TypeOK
    <3>2. k.pc = "parsing" /\ k.parser = p
      BY <1>2
    <3> QED BY <1>1, <1>3, <2>1, <3>1, <3>2 DEF CallOK
  <2>2. CASE d # c
    <3>1. call'[d] = call[d] /\ call[d] = Idle
      BY <1>3, <2>2 DEF IInv, TypeOK, CallOK
    <3> QED BY <3>1 DEF CallOK
  <2> QED BY <2>1, <2>2
<1>8. \A n \in Names : \A i \in DOMAIN entries'[n] : EntryOK(n, i)'
  BY <1>5 DEF IInv, EntryOK
<1>9. \A a \in acked' : AckOK(a)'
  BY <1>5 DEF IInv, AckOK
<1> QED BY <1>6, <1>7, <1>8, <1>9 DEF IInv

\* A step of a caller that keeps the lock and the entries: only its locals change.
LEMMA LocalStep ==
    ASSUME IInv, NEW c \in Callers, NEW k \in Active,
           call' = [call EXCEPT ![c] = k], UNCHANGED <<entries, lock, acked>>,
           lock = c, ParserOK(k.parser),
           k.pc = "appending" => /\ k.versions = entries[k.name]
                                 /\ k.parser.rb.rollback # <<>>
    PROVE  IInv'
<1>1. TypeOK'
  BY DEF IInv, TypeOK, Call
<1>2. ASSUME NEW d \in Callers PROVE CallOK(d)'
  <2>1. CASE d = c
    <3>1. call'[d] = k
      BY <2>1 DEF IInv, TypeOK
    <3> QED BY <2>1, <3>1 DEF CallOK
  <2>2. CASE d # c
    <3>1. call'[d] = call[d]
      BY <2>2 DEF IInv, TypeOK
    <3> QED BY <3>1 DEF CallOK, IInv
  <2> QED BY <2>1, <2>2
<1>3. \A n \in Names : \A i \in DOMAIN entries'[n] : EntryOK(n, i)'
  BY DEF IInv, EntryOK
<1>4. \A a \in acked' : AckOK(a)'
  BY DEF IInv, AckOK
<1> QED BY <1>1, <1>2, <1>3, <1>4 DEF IInv

LEMMA ParseLineFacts ==
    ASSUME IInv, NEW c \in Callers, ParseLine(c)
    PROVE  IInv'
<1> USE CompilerAssumption
<1>1. PICK k \in Active : k = call[c] /\ k.pc = "parsing" /\ lock = c /\ ParserOK(k.parser)
  BY ActiveCall DEF ParseLine, IInv, CallOK
<1>2. k.raw \in Seq(Lines) /\ k.next \in Nat \ {0} /\ k.next <= Len(k.raw)
  BY <1>1 DEF ParseLine, Active, Document
<1>3. PICK l : l = k.raw[k.next]
  OBVIOUS
<1>4. PICK p : p = ReadLine(k.parser, l)
  OBVIOUS
<1>5. PICK new : new = [k EXCEPT !.next = k.next + 1, !.parser = p]
  OBVIOUS
<1>6. call' = [call EXCEPT ![c] = new]
  BY <1>1, <1>3, <1>4, <1>5 DEF ParseLine, IInv, TypeOK
<1>7. ParserOK(p)
  <2>1. CASE k.next \in DOMAIN k.raw
    <3>1. l \in Lines
      BY <1>2, <1>3, <2>1
    <3> QED BY <1>1, <1>4, <3>1, ReadLineFacts
  <2>2. CASE k.next \notin DOMAIN k.raw
    BY <1>2, <2>2
  <2> QED BY <2>1, <2>2
<1>8. new \in Active /\ new.pc = "parsing" /\ new.parser = p
  <2>1. p \in Parser /\ k.next + 1 \in Nat \ {0}
    BY <1>2, <1>7 DEF ParserOK
  <2> QED BY <1>1, <1>5, <2>1 DEF Active
<1>9. UNCHANGED <<entries, lock, acked>>
  BY DEF ParseLine
<1> QED BY <1>1, <1>6, <1>7, <1>8, <1>9, LocalStep

LEMMA ReadVersionsFacts ==
    ASSUME IInv, NEW c \in Callers, ReadVersions(c)
    PROVE  IInv'
<1>1. PICK k \in Active : /\ k = call[c] /\ lock = c /\ ParserOK(k.parser)
                          /\ k.parser.rb.rollback # <<>>
  BY ActiveCall DEF ReadVersions, Parsed, IInv, CallOK
<1>2. PICK vs \in Seq(Entry) : vs = entries[k.name]
  BY <1>1 DEF IInv, TypeOK, Active
<1>3. PICK new : new = [k EXCEPT !.pc = "appending", !.versions = vs]
  OBVIOUS
<1>4. call' = [call EXCEPT ![c] = new]
  BY <1>1, <1>2, <1>3 DEF ReadVersions, IInv, TypeOK
<1>5. /\ new \in Active /\ new.parser = k.parser
      /\ new.versions = vs /\ new.name = k.name
  BY <1>3 DEF Active
<1>6. UNCHANGED <<entries, lock, acked>>
  BY DEF ReadVersions
<1>7. ParserOK(new.parser) /\ new.parser.rb.rollback # <<>>
  BY <1>1, <1>5
<1>8. new.versions = entries[new.name]
  BY <1>2, <1>5
<1> QED BY <1>1, <1>4, <1>5, <1>6, <1>7, <1>8, LocalStep

LEMMA MissingRollbackFacts ==
    ASSUME IInv, NEW c \in Callers, MissingRollback(c)
    PROVE  IInv'
<1>1. call[c] # Idle /\ lock = c
  BY ActiveCall DEF MissingRollback, Parsed, IInv, CallOK
<1>2. /\ call' = [call EXCEPT ![c] = Idle] /\ lock' = NoCaller
      /\ entries' = entries /\ acked' = acked
  BY DEF MissingRollback
<1>3. TypeOK'
  BY <1>2 DEF IInv, TypeOK, Call
<1>4. ASSUME NEW d \in Callers PROVE CallOK(d)'
  <2>1. call'[d] = Idle
    BY <1>1, <1>2 DEF IInv, TypeOK, CallOK
  <2> QED BY <2>1 DEF CallOK
<1>5. \A n \in Names : \A i \in DOMAIN entries'[n] : EntryOK(n, i)'
  BY <1>2 DEF IInv, EntryOK
<1>6. \A a \in acked' : AckOK(a)'
  BY <1>2 DEF IInv, AckOK
<1> QED BY <1>3, <1>4, <1>5, <1>6 DEF IInv

LEMMA AppendVersionFacts ==
    ASSUME IInv, NEW c \in Callers, AppendVersion(c)
    PROVE  IInv'
<1>1. PICK k \in Active : /\ k = call[c] /\ lock = c /\ k.pc = "appending"
                          /\ ParserOK(k.parser) /\ k.parser.rb.rollback # <<>>
                          /\ k.versions = entries[k.name]
  BY ActiveCall DEF AppendVersion, IInv, CallOK
<1>2. PICK vs \in Seq(Entry) : vs = entries[k.name]
  BY <1>1 DEF Active
<1>3. PICK v \in Nat : v = Len(vs) + 1
  BY <1>2
<1>4. PICK rb \in ParsedRunbook : rb = k.parser.rb /\ WellFormed(rb) /\ rb.rollback # <<>>
  BY <1>1 DEF ParserOK, WellFormed
<1>5. PICK e \in Entry : e = [version |-> v, raw |-> k.raw, runbook |-> rb]
  BY <1>1 DEF Active, Entry
<1>6. PICK a \in Ack : a = [name |-> k.name, version |-> v, raw |-> k.raw]
  BY <1>1 DEF Active, Ack
<1>7. PICK new \in Seq(Entry) : new = Append(vs, e)
  BY AppendFacts
<1>8. /\ entries' = [entries EXCEPT ![k.name] = new]
      /\ acked' = acked \cup {a}
      /\ lock' = NoCaller
      /\ call' = [call EXCEPT ![c] = Idle]
  BY <1>1, <1>2, <1>3, <1>4, <1>5, <1>6, <1>7 DEF AppendVersion, NewVersion
<1>9. k.name \in Names
  BY DEF Active
<1>10. TypeOK'
  BY <1>8 DEF IInv, TypeOK, Call
<1>11. ASSUME NEW d \in Callers PROVE CallOK(d)'
  <2>1. call'[d] = Idle
    BY <1>1, <1>8 DEF IInv, TypeOK, CallOK
  <2> QED BY <2>1 DEF CallOK
<1>12. entries'[k.name] = new /\ \A n \in Names \ {k.name} : entries'[n] = entries[n]
  BY <1>8, <1>9 DEF IInv, TypeOK
<1>13. /\ DOMAIN new = 1..v /\ new[v] = e
       /\ \A i \in 1..v : i # v => i \in DOMAIN vs
       /\ \A i \in DOMAIN vs : new[i] = vs[i] /\ i \in 1..v
  BY <1>3, <1>7, AppendFacts
<1>14. ASSUME NEW n \in Names, NEW i \in DOMAIN entries'[n] PROVE EntryOK(n, i)'
  <2>1. CASE n = k.name /\ i = v
    <3>1. entries'[n][i] = e
      BY <2>1, <1>12, <1>13
    <3> QED BY <2>1, <3>1, <1>4, <1>5, <1>6, <1>8 DEF EntryOK
  <2>2. CASE n = k.name /\ i # v
    <3>1. i \in DOMAIN entries[n] /\ entries'[n][i] = entries[n][i]
      BY <2>2, <1>2, <1>12, <1>13
    <3> QED BY <3>1, <1>8 DEF IInv, EntryOK
  <2>3. CASE n # k.name
    <3>1. i \in DOMAIN entries[n] /\ entries'[n][i] = entries[n][i]
      BY <2>3, <1>12
    <3> QED BY <3>1, <1>8 DEF IInv, EntryOK
  <2> QED BY <2>1, <2>2, <2>3
<1>15. ASSUME NEW b \in acked' PROVE AckOK(b)'
  <2>1. CASE b = a
    <3>1. b.name = k.name /\ b.version = v /\ b.raw = e.raw
      BY <2>1, <1>5, <1>6
    <3>2. v \in DOMAIN new /\ new[v].raw = b.raw
      BY <3>1, <1>3, <1>13
    <3>3. entries'[b.name] = new
      BY <3>1, <1>12
    <3> QED BY <3>1, <3>2, <3>3 DEF AckOK
  <2>2. CASE b # a
    <3>1. b \in acked /\ b.name \in Names
      BY <2>2, <1>8 DEF IInv, TypeOK, Ack
    <3>2. b.version \in DOMAIN entries[b.name] /\ entries[b.name][b.version].raw = b.raw
      BY <3>1 DEF IInv, AckOK
    <3>3. b.version \in DOMAIN entries'[b.name]
           /\ entries'[b.name][b.version] = entries[b.name][b.version]
      BY <3>1, <3>2, <1>2, <1>12, <1>13
    <3> QED BY <3>2, <3>3 DEF AckOK
  <2> QED BY <2>1, <2>2
<1> QED BY <1>10, <1>11, <1>14, <1>15 DEF IInv

\* Every step of every caller keeps the invariant that ties the lock, the
\* versions a caller read, what is stored and what was returned.
THEOREM Invariance == Spec => []IInv
<1>1. IInv /\ [Next]_vars => IInv'
  <2> SUFFICES ASSUME IInv, [Next]_vars PROVE IInv'
    OBVIOUS
  <2>1. CASE UNCHANGED vars
    BY <2>1 DEF vars, IInv, TypeOK, CallOK, EntryOK, AckOK
  <2>2. CASE Next
    BY <2>2, StoreFacts, ParseLineFacts, ReadVersionsFacts, MissingRollbackFacts,
       AppendVersionFacts DEF Next, Step
  <2> QED BY <2>1, <2>2
<1> QED BY <1>1, InitFacts, PTL DEF Spec

\* Entries, lock, calls and the history of returned versions keep their shape.
THEOREM TypeCorrect == Spec => []TypeOK
<1>1. IInv => TypeOK
  BY DEF IInv
<1> QED BY <1>1, Invariance, PTL

\* A version once returned is found under its number ever after, whatever names,
\* documents and overlapping callers.
THEOREM VersionsStay == Spec => []AckedVersionsStay
<1>1. ASSUME IInv PROVE AckedVersionsStay
  <2>1. ASSUME NEW n \in Names, NEW i \in DOMAIN entries[n]
        PROVE  Get(n, i) = entries[n][i]
    <3>1. {j \in DOMAIN entries[n] : entries[n][j].version = i} = {i}
      BY <1>1 DEF IInv, EntryOK
    <3>2. i \in Nat
      BY <1>1 DEF IInv, TypeOK
    <3> QED BY <3>1, <3>2 DEF Get
  <2>2. ASSUME NEW a \in acked
        PROVE  Get(a.name, a.version).version = a.version /\ Get(a.name, a.version).raw = a.raw
    <3>1. a.name \in Names /\ a.version \in DOMAIN entries[a.name]
           /\ entries[a.name][a.version].raw = a.raw
      BY <1>1 DEF IInv, TypeOK, Ack, AckOK
    <3>2. Get(a.name, a.version) = entries[a.name][a.version]
      BY <3>1, <2>1
    <3>3. entries[a.name][a.version].version = a.version
      BY <3>1, <1>1 DEF IInv, EntryOK
    <3> QED BY <3>1, <3>2, <3>3
  <2>3. ASSUME NEW n \in Names
        PROVE  /\ ListVersions(n) = [i \in DOMAIN entries[n] |-> i]
               /\ GetLatest(n).version = Len(entries[n])
    <3>1. entries[n] \in Seq(Entry)
      BY <1>1 DEF IInv, TypeOK
    <3>2. ListVersions(n) = [i \in DOMAIN entries[n] |-> i]
      BY <1>1 DEF IInv, EntryOK, ListVersions
    <3>3. CASE entries[n] = <<>>
      <4>1. GetLatest(n) = NotFound /\ Len(entries[n]) = 0
        BY <3>3 DEF GetLatest
      <4> QED BY <3>2, <4>1 DEF NotFound
    <3>4. CASE entries[n] # <<>>
      <4>1. Len(entries[n]) \in DOMAIN entries[n]
        BY <3>1, <3>4
      <4>2. entries[n][Len(entries[n])].version = Len(entries[n])
        BY <4>1, <1>1 DEF IInv, EntryOK
      <4>3. GetLatest(n) = entries[n][Len(entries[n])]
        BY <3>4 DEF GetLatest
      <4> QED BY <3>2, <4>2, <4>3
    <3> QED BY <3>3, <3>4
  <2> QED BY <2>2, <2>3, <1>1 DEF AckedVersionsStay, IInv, EntryOK
<1> QED BY <1>1, Invariance, PTL

\* Every plan the store holds is held by the policy generated from it.
THEOREM StoredPlansAreHeld == Spec => []CompiledPlanIsHeld
<1>1. ASSUME IInv PROVE CompiledPlanIsHeld
  BY <1>1, PolicyHoldsPlan DEF CompiledPlanIsHeld, IInv, EntryOK, WellFormed
<1> QED BY <1>1, Invariance, PTL

-----------------------------------------------------------------------------
(* What the parser has read, along the run of the store.                    *)

\* A caller's parser agrees with the lines of its document it has read: from the
\* title on, and all of them before it appends.
ReadOK(k) ==
    /\ k.raw[1].kind = "title"
    /\ k.pc = "appending" => k.next > Len(k.raw)
    /\ \E n \in Nat : /\ n >= 1 /\ k.next = n + 1 /\ n <= Len(k.raw)
                      /\ ReadSoFar(k.raw, n, k.parser)

ReadInv == \A c \in Callers : call[c] # Idle => ReadOK(call[c])

\* A step that touches one caller.
LEMMA ReadStep ==
    ASSUME IInv, ReadInv, NEW c \in Callers, NEW k, call' = [call EXCEPT ![c] = k],
           k # Idle => ReadOK(k)
    PROVE  ReadInv'
<1>1. ASSUME NEW d \in Callers, call'[d] # Idle PROVE ReadOK(call'[d])
  <2>1. CASE d = c
    <3>1. call'[d] = k
      BY <2>1 DEF IInv, TypeOK
    <3> QED BY <1>1, <3>1
  <2>2. CASE d # c
    <3>1. call'[d] = call[d]
      BY <2>2 DEF IInv, TypeOK
    <3> QED BY <1>1, <3>1 DEF ReadInv
  <2> QED BY <2>1, <2>2
<1> QED BY <1>1 DEF ReadInv, ReadOK

LEMMA StoreReads ==
    ASSUME IInv, ReadInv, NEW c \in Callers, NEW name \in Names,
           NEW doc \in Documents[name], Store(c, name, doc)
    PROVE  ReadInv'
<1>1. PICK p : p = NewParser /\ ReadSoFar(doc, 1, p)
  BY NothingRead
<1>2. PICK k : k = [pc |-> "parsing", name |-> name, raw |-> doc, next |-> 2,
                    parser |-> p, versions |-> <<>>]
  OBVIOUS
<1>3. call' = [call EXCEPT ![c] = k]
  BY <1>1, <1>2 DEF Store
<1>4. k.next = 2 /\ k.raw = doc /\ k.parser = p /\ k.pc = "parsing"
  BY <1>2
<1>5. 1 <= Len(doc)
  <2>1. doc \in Seq(Lines) \ {<<>>}
    BY CompilerAssumption
  <2> QED BY <2>1
<1>6. ReadOK(k)
  <2>1. 1 \in Nat /\ 1 >= 1 /\ k.next = 1 + 1
    BY <1>4
  <2>2. k.raw[1].kind = "title"
    BY <1>4 DEF Store
  <2> QED BY <1>1, <1>4, <1>5, <2>1, <2>2 DEF ReadOK
<1> QED BY <1>3, <1>6, ReadStep

LEMMA ParseLineReads ==
    ASSUME IInv, ReadInv, NEW c \in Callers, ParseLine(c)
    PROVE  ReadInv'
<1>1. PICK k \in Active : k = call[c] /\ ParserOK(k.parser) /\ ReadOK(k)
  BY ActiveCall DEF ParseLine, IInv, CallOK, ReadInv
<1>2. PICK n \in Nat : n >= 1 /\ k.next = n + 1 /\ ReadSoFar(k.raw, n, k.parser)
  BY <1>1 DEF ReadOK
<1>3. PICK doc \in Seq(Lines) : doc = k.raw
  BY CompilerAssumption DEF Active, Document
<1>4. n + 1 <= Len(doc)
  BY <1>1, <1>2, <1>3 DEF ParseLine
<1>5. n + 1 \in DOMAIN doc
  BY <1>4
<1>6. PICK p : p = ReadLine(k.parser, doc[n + 1])
  OBVIOUS
<1>7. ReadSoFar(doc, n + 1, p)
  BY <1>1, <1>2, <1>3, <1>5, <1>6, ReadLineAgrees
<1>8. PICK new : new = [k EXCEPT !.next = k.next + 1, !.parser = p]
  OBVIOUS
<1>9. call' = [call EXCEPT ![c] = new]
  BY <1>1, <1>2, <1>3, <1>6, <1>8 DEF ParseLine, IInv, TypeOK
<1>10. /\ new.raw = doc /\ new.parser = p /\ new.next = (n + 1) + 1
       /\ new.pc = "parsing" /\ doc[1].kind = "title"
  BY <1>1, <1>2, <1>3, <1>8 DEF Active, ParseLine, ReadOK
<1>11. ReadOK(new)
  <2>1. n + 1 \in Nat /\ n + 1 >= 1
    OBVIOUS
  <2> QED BY <1>4, <1>7, <1>10, <2>1 DEF ReadOK
<1> QED BY <1>9, <1>11, ReadStep

LEMMA ReadVersionsReads ==
    ASSUME IInv, ReadInv, NEW c \in Callers, ReadVersions(c)
    PROVE  ReadInv'
<1>1. PICK k \in Active : k = call[c] /\ ReadOK(k)
  BY ActiveCall DEF ReadVersions, Parsed, IInv, ReadInv
<1>2. PICK vs : vs = entries[k.name]
  OBVIOUS
<1>3. PICK new : new = [k EXCEPT !.pc = "appending", !.versions = vs]
  OBVIOUS
<1>4. call' = [call EXCEPT ![c] = new]
  BY <1>1, <1>2, <1>3 DEF ReadVersions, IInv, TypeOK
<1>5. new.raw = k.raw /\ new.next = k.next /\ new.parser = k.parser
  BY <1>3 DEF Active
<1>6. new.next > Len(new.raw)
  BY <1>1, <1>5 DEF ReadVersions, Parsed
<1>7. ReadOK(new)
  BY <1>1, <1>5, <1>6 DEF ReadOK
<1> QED BY <1>4, <1>7, ReadStep

\* Every step of every caller keeps the agreement.
LEMMA ReadInvariance == Spec => []ReadInv
<1>1. Init => ReadInv
  BY DEF Init, ReadInv
<1>2. IInv /\ ReadInv /\ [Next]_vars => ReadInv'
  <2> SUFFICES ASSUME IInv, ReadInv, [Next]_vars PROVE ReadInv'
    OBVIOUS
  <2>1. CASE UNCHANGED vars
    BY <2>1 DEF vars, ReadInv, ReadOK
  <2>2. CASE Next
    <3>1. ASSUME NEW c \in Callers, MissingRollback(c) \/ AppendVersion(c) PROVE ReadInv'
      <4>1. call' = [call EXCEPT ![c] = Idle]
        BY <3>1 DEF MissingRollback, AppendVersion
      <4> QED BY <4>1, ReadStep
    <3> QED BY <2>2, <3>1, StoreReads, ParseLineReads, ReadVersionsReads DEF Next, Step
  <2> QED BY <2>1, <2>2
<1> QED BY <1>1, <1>2, Invariance, PTL DEF Spec

\* Whatever the documents and however long, the parser has at every line read what
\* the headings above each line make of it.
THEOREM ParserAgrees == Spec => []ParsesByHeadings
<1>1. ReadInv => ParsesByHeadings
  <2> SUFFICES ASSUME ReadInv, NEW c \in Callers, call[c] # Idle
               PROVE  Says(call[c].raw, call[c].next - 1, call[c].parser.rb)
    BY DEF ParsesByHeadings
  <2>1. PICK n \in Nat : call[c].next = n + 1 /\ Says(call[c].raw, n, call[c].parser.rb)
    BY DEF ReadInv, ReadOK, ReadSoFar
  <2>2. call[c].next - 1 = n
    BY <2>1
  <2> QED BY <2>1, <2>2
<1> QED BY <1>1, ReadInvariance, PTL
-----------------------------------------------------------------------------
(* The store implements the append-only log.                                *)

\* A section has a step exactly if a bullet in it stands under a heading.
LEMMA StepNeedsBullet ==
    ASSUME NEW doc, NEW n, NEW section, NEW steps \in Seq(ParsedStep),
           SaysSteps(doc, n, section, steps)
    PROVE  steps # <<>> <=> \E j \in Bullets(doc, n, section) : StepOf(doc, j) > 0
<1>1. ASSUME steps # <<>>
      PROVE  \E j \in Bullets(doc, n, section) : StepOf(doc, j) > 0
  <2>1. 1 \in DOMAIN steps
    BY <1>1
  <2> QED BY <2>1 DEF SaysSteps
<1>2. ASSUME NEW j \in Bullets(doc, n, section), StepOf(doc, j) > 0
      PROVE  steps # <<>>
  <2>1. PICK i : i \in DOMAIN steps
    BY <1>2 DEF SaysSteps
  <2> QED BY <2>1
<1> QED BY <1>1, <1>2

\* A parser at the end of its document holds what the whole of it says, and has
\* found a rollback exactly if the document is complete.
LEMMA WholeDocument ==
    ASSUME TypeOK, NEW c \in Callers, call[c] \in Active, ReadOK(call[c]),
           call[c].next > Len(call[c].raw)
    PROVE  /\ SaysAll(call[c].raw, call[c].parser.rb)
           /\ call[c].parser.rb.rollback # <<>> <=> Complete(call[c].raw)
<1>1. PICK doc \in Seq(Lines) : doc = call[c].raw
  BY CompilerAssumption DEF Active, Document
<1>2. PICK rb \in ParsedRunbook : rb = call[c].parser.rb
  BY DEF Active, Parser
<1>3. PICK n \in Nat : n >= 1 /\ call[c].next = n + 1 /\ n <= Len(doc) /\ Says(doc, n, rb)
  BY <1>1, <1>2 DEF ReadOK, ReadSoFar
<1>4. n = Len(doc)
  <2>1. n + 1 > Len(doc) /\ Len(doc) \in Nat
    BY <1>1, <1>3
  <2> QED BY <1>3, <2>1
<1>5. SaysAll(doc, rb)
  BY <1>3, <1>4 DEF SaysAll
<1>6. doc[1].kind = "title"
  BY <1>1 DEF ReadOK
<1>7. rb.rollback \in Seq(ParsedStep)
  BY DEF ParsedRunbook
<1>8. SaysSteps(doc, Len(doc), "rollback", rb.rollback)
  <2>1. SaysSteps(doc, n, "rollback", rb.rollback)
    BY <1>3 DEF Says
  <2> QED BY <1>4, <2>1
<1>9. rb.rollback # <<>> <=> Complete(doc)
  BY <1>6, <1>7, <1>8, StepNeedsBullet DEF Complete
<1> QED BY <1>1, <1>2, <1>5, <1>9

\* A call goes on to store its document exactly if the document is complete, and
\* "missing rollback section" is what it returns if the document is not: a bullet
\* inside a code block, under no heading or in another section does not count,
\* and one anywhere in a rollback section does (parser.go:139-142).
THEOREM RefusedIfIncomplete ==
    Spec => [][\A c \in Callers :
                  /\ MissingRollback(c) => ~Complete(call[c].raw)
                  /\ ReadVersions(c) => Complete(call[c].raw)]_vars
<1>1. ASSUME IInv, ReadInv, NEW c \in Callers, Parsed(c)
      PROVE  call[c].parser.rb.rollback # <<>> <=> Complete(call[c].raw)
  <2>1. call[c] \in Active /\ call[c] # Idle
    BY <1>1, ActiveCall DEF Parsed, IInv
  <2>2. ReadOK(call[c]) /\ call[c].next > Len(call[c].raw)
    BY <1>1, <2>1 DEF ReadInv, Parsed
  <2> QED BY <1>1, <2>1, <2>2, WholeDocument DEF IInv
<1>2. IInv /\ ReadInv =>
         [\A c \in Callers :
             /\ MissingRollback(c) => ~Complete(call[c].raw)
             /\ ReadVersions(c) => Complete(call[c].raw)]_vars
  <2> SUFFICES ASSUME IInv, ReadInv, NEW c \in Callers
               PROVE  /\ MissingRollback(c) => ~Complete(call[c].raw)
                      /\ ReadVersions(c) => Complete(call[c].raw)
    OBVIOUS
  <2> QED BY <1>1 DEF MissingRollback, ReadVersions
<1> QED BY <1>2, Invariance, ReadInvariance, PTL

\* The one step of Store that a caller of the log sees.
LEMMA AppendPublishes ==
    ASSUME IInv, ReadInv, NEW c \in Callers, AppendVersion(c)
    PROVE  \E n \in Names : Log!Publish(n)
<1>1. PICK k \in Active : k = call[c] /\ k # Idle
  BY ActiveCall DEF AppendVersion, IInv
<1>2. ReadOK(k) /\ k.pc = "appending" /\ k.next > Len(k.raw)
  BY <1>1 DEF ReadInv, ReadOK, AppendVersion
<1>3. SaysAll(k.raw, k.parser.rb) /\ Complete(k.raw)
  <2>1. k.parser.rb.rollback # <<>>
    BY <1>1, <1>2 DEF IInv, CallOK
  <2> QED BY <1>1, <1>2, <2>1, WholeDocument DEF IInv
<1>4. PICK n \in Names : n = k.name
  BY DEF Active
<1>5. PICK s \in Seq(Entry) : s = entries[n] /\ s = k.versions
  BY <1>1, <1>2, <1>4 DEF IInv, TypeOK, CallOK
<1>6. PICK e : e = [version |-> Len(s) + 1, raw |-> k.raw, runbook |-> k.parser.rb]
  OBVIOUS
<1>7. e.version = Len(s) + 1 /\ e.raw = k.raw /\ e.runbook = k.parser.rb
  BY <1>6
<1>8. e \in Entry
  BY <1>5, <1>6 DEF Entry, Active, Parser
<1>9. PICK t : t = Append(s, e)
  OBVIOUS
<1>10. Len(t) = Len(s) + 1 /\ t[Len(s) + 1] = e
  BY <1>5, <1>8, <1>9, AppendFacts
<1>11. entries' = [entries EXCEPT ![n] = t]
  BY <1>1, <1>4, <1>5, <1>6, <1>9 DEF AppendVersion, NewVersion
<1>12. entries'[n] = t
  BY <1>11 DEF IInv, TypeOK
<1>13. acked' = acked \cup {[name |-> n, version |-> Len(s) + 1, raw |-> e.raw]}
  BY <1>1, <1>4, <1>5, <1>7 DEF AppendVersion, NewVersion
<1> QED BY <1>3, <1>5, <1>7, <1>9, <1>10, <1>11, <1>12, <1>13 DEF Log!Publish

\* However its calls overlap, Store is an atomic append: parsing line by line,
\* refusing and reading the versions before show nothing, and each version that is
\* returned was added, complete and read as a whole, to all that were there
\* (versioning.go:29-50).
THEOREM Refinement == Spec => ImplementsVersionLog
<1>1. Init => Log!LInit
  BY DEF Init, Log!LInit
<1>2. IInv /\ ReadInv /\ [Next]_vars => [Log!LNext]_(Log!lvars)
  <2> SUFFICES ASSUME IInv, ReadInv, [Next]_vars PROVE [Log!LNext]_(Log!lvars)
    OBVIOUS
  <2>1. CASE UNCHANGED vars
    BY <2>1 DEF vars, Log!lvars
  <2>2. ASSUME NEW c \in Callers, AppendVersion(c) PROVE Log!LNext
    BY <2>2, AppendPublishes DEF Log!LNext
  <2>3. ASSUME NEW c \in Callers,
               \/ \E name \in Names : \E doc \in Documents[name] : Store(c, name, doc)
               \/ ParseLine(c) \/ MissingRollback(c) \/ ReadVersions(c)
        PROVE  UNCHANGED Log!lvars
    BY <2>3 DEF Store, ParseLine, MissingRollback, ReadVersions, Log!lvars
  <2> QED BY <2>1, <2>2, <2>3 DEF Next, Step
<1> QED BY <1>1, <1>2, Invariance, ReadInvariance, PTL
        DEF Spec, ImplementsVersionLog, Log!LSpec
=============================================================================
