---------------------------- MODULE Reasoner_proofs ----------------------------
(***************************************************************************)
(* Proofs about the reasoner's orchestrator and cache: type correctness,   *)
(* that a caller is served an analysis of its own alert and evidence, when *)
(* it is one of its own namespace, and that the cache keeps the latest     *)
(* answer for each key.                                                    *)
(***************************************************************************)
EXTENDS Reasoner, TLAPS

Call == {Idle} \cup Waiting \cup Served \cup Failed

\* An entry holds an analysis of its key's alert and evidence, flagged for that alert.
EntryOK(q, e) ==
    e # NoEntry => /\ \E n \in Namespaces : e.value.question = <<q[1], n, q[2]>>
                   /\ e.value.unmatched <=> q[1] \notin Runbooks

\* A coroutine that got an analysis got one that is right for its incident.
ServedOK(k) ==
    /\ \E n \in Namespaces :
          /\ k.value.question = Asked(k.alert, n, k.evidence)
          /\ k.pc = "answered" => n = k.namespace
    /\ k.value.unmatched <=> k.alert \notin Runbooks
    /\ k.age <= TTL

\* A coroutine that waits has matched its runbook.
CallOK(k) ==
    /\ k.pc = "waiting" => (k.matched <=> k.alert \in Runbooks)
    /\ k.pc \in {"hit", "answered"} => ServedOK(k)

IInv ==
    /\ TypeOK
    /\ \A q \in Key : EntryOK(q, cache[q])
    /\ \A c \in Callers : CallOK(call[c])
    /\ LatestAnswerIsKept

\* The sort of a record is told by its pc.
LEMMA CallKinds ==
    ASSUME NEW k \in Call
    PROVE  /\ k.pc = "waiting" => k \in Waiting
           /\ k.pc \in {"hit", "answered"} => k \in Served
BY DEF Call, Idle, Waiting, Served, Failed

\* A key is the alert and the evidence of a question.
LEMMA KeyFacts ==
    ASSUME NEW alert \in Alerts, NEW evidence \in Evidence
    PROVE  /\ MakeKey(alert, evidence) \in Key
           /\ MakeKey(alert, evidence) = <<alert, Redact[evidence]>>
           /\ MakeKey(alert, evidence)[1] = alert
           /\ MakeKey(alert, evidence)[2] = Redact[evidence]
BY ReasonerAssumption DEF Key, MakeKey

\* What the model is told is a question.
LEMMA AskedFacts ==
    ASSUME NEW alert \in Alerts, NEW namespace \in Namespaces, NEW evidence \in Evidence
    PROVE  Asked(alert, namespace, evidence) \in Question
BY ReasonerAssumption DEF Asked, Question

LEMMA InitFacts == Init => IInv
<1> SUFFICES ASSUME Init PROVE IInv
  OBVIOUS
<1>1. TypeOK
  BY DEF Init, TypeOK, Idle
<1>2. \A q \in Key : EntryOK(q, cache[q])
  BY DEF Init, EntryOK
<1>3. \A c \in Callers : CallOK(call[c])
  BY DEF Init, CallOK, Idle
<1>4. LatestAnswerIsKept
  BY DEF Init, LatestAnswerIsKept, Fresh
<1> QED BY <1>1, <1>2, <1>3, <1>4 DEF IInv

\* A step that changes the record of one coroutine and neither the cache nor the
\* history keeps the invariant if the new record is right.
LEMMA LocalStep ==
    ASSUME IInv, NEW c \in Callers, NEW k \in Call, CallOK(k),
           call' = [call EXCEPT ![c] = k], UNCHANGED <<cache, last>>
    PROVE  IInv'
<1>1. TypeOK'
  BY DEF IInv, TypeOK, Call
<1>2. \A d \in Callers : CallOK(call[d])'
  <2> TAKE d \in Callers
  <2>1. call'[d] = IF d = c THEN k ELSE call[d]
    BY DEF IInv, TypeOK
  <2>2. CallOK(call'[d])
    BY <2>1 DEF IInv
  <2> QED BY <2>2 DEF CallOK
<1> QED BY <1>1, <1>2 DEF IInv, EntryOK, LatestAnswerIsKept, Fresh

LEMMA HitFacts ==
    ASSUME IInv, NEW c \in Callers, NEW alert \in Alerts,
           NEW namespace \in Namespaces, NEW evidence \in Evidence,
           Hit(c, alert, namespace, evidence)
    PROVE  IInv'
<1> DEFINE q == MakeKey(alert, evidence)
           e == cache[q]
           k == [pc |-> "hit", alert |-> alert, namespace |-> namespace,
                 evidence |-> evidence, value |-> e.value, age |-> e.age]
<1>1. /\ Fresh(e)
      /\ call' = [call EXCEPT ![c] = k]
      /\ UNCHANGED <<cache, last>>
  BY DEF Hit
<1>2. q \in Key /\ q[1] = alert /\ q[2] = Redact[evidence]
  BY KeyFacts
<1> HIDE DEF q
<1>3. e # NoEntry /\ e.age <= TTL /\ e \in Entry
  BY <1>1, <1>2 DEF Fresh, IInv, TypeOK
<1>4. EntryOK(q, e)
  BY <1>2 DEF IInv
<1>5. k \in Call
  BY <1>3 DEF Call, Served, Entry
<1>6. CallOK(k)
  <2>1. PICK n \in Namespaces : e.value.question = Asked(alert, n, evidence)
    BY <1>2, <1>3, <1>4 DEF EntryOK, Asked
  <2>2. e.value.unmatched <=> alert \notin Runbooks
    BY <1>2, <1>3, <1>4 DEF EntryOK
  <2>3. ServedOK(k)
    BY <2>1, <2>2, <1>3 DEF ServedOK
  <2> QED BY <2>3 DEF CallOK
<1> QED BY <1>1, <1>5, <1>6, LocalStep

LEMMA FailFacts ==
    ASSUME IInv, NEW c \in Callers, NEW how \in {"timeout", "error", "raised"}, Fail(c, how)
    PROVE  IInv'
<1> DEFINE k == [pc |-> how]
<1>1. k \in Call /\ CallOK(k)
  BY DEF Call, Failed, CallOK
<1> QED BY <1>1, LocalStep DEF Fail

LEMMA MissFacts ==
    ASSUME IInv, NEW c \in Callers, NEW alert \in Alerts,
           NEW namespace \in Namespaces, NEW evidence \in Evidence,
           Miss(c, alert, namespace, evidence)
    PROVE  IInv'
<1> DEFINE q == MakeKey(alert, evidence)
           k == [pc |-> "waiting", alert |-> alert, namespace |-> namespace,
                 evidence |-> evidence, matched |-> alert \in Runbooks, waited |-> 0]
<1>1. /\ ~Fresh(cache[q])
      /\ cache' = [cache EXCEPT ![q] = NoEntry]
      /\ call' = [call EXCEPT ![c] = k]
      /\ last' = last
      /\ q \in Key
  BY KeyFacts DEF Miss
<1> HIDE DEF q
<1>2. k \in Call
  BY ReasonerAssumption DEF Call, Waiting
<1>3. CallOK(k)
  BY DEF CallOK
<1>4. TypeOK'
  BY <1>1, <1>2 DEF IInv, TypeOK, Call
<1>5. \A r \in Key : cache'[r] = IF r = q THEN NoEntry ELSE cache[r]
  BY <1>1 DEF IInv, TypeOK
<1>6. \A r \in Key : EntryOK(r, cache[r])'
  BY <1>5 DEF IInv, EntryOK
<1>7. \A d \in Callers : CallOK(call[d])'
  <2> TAKE d \in Callers
  <2>1. call'[d] = IF d = c THEN k ELSE call[d]
    BY <1>1 DEF IInv, TypeOK
  <2>2. CallOK(call'[d])
    BY <2>1, <1>3 DEF IInv
  <2> QED BY <2>2 DEF CallOK
<1>8. LatestAnswerIsKept'
  <2>1. ~Fresh(last[q])
    BY <1>1 DEF IInv, LatestAnswerIsKept
  <2> QED BY <2>1, <1>1, <1>5 DEF IInv, LatestAnswerIsKept, Fresh
<1> QED BY <1>4, <1>6, <1>7, <1>8 DEF IInv

LEMMA ReplyFacts ==
    ASSUME IInv, NEW c \in Callers, NEW a \in Answers, Reply(c, a)
    PROVE  IInv'
<1> DEFINE k == call[c]
           q == MakeKey(k.alert, k.evidence)
           v == NewAnalysis(k, a)
           e == [value |-> v, age |-> 0]
           n == [pc |-> "answered", alert |-> k.alert, namespace |-> k.namespace,
                 evidence |-> k.evidence, value |-> v, age |-> 0]
<1>1. k \in Waiting /\ (k.matched <=> k.alert \in Runbooks)
  <2>1. k \in Call /\ k.pc = "waiting" /\ CallOK(k)
    BY DEF IInv, TypeOK, Call, Reply
  <2> QED BY <2>1, CallKinds DEF CallOK
<1>2. /\ k.alert \in Alerts /\ k.namespace \in Namespaces
      /\ k.evidence \in Evidence /\ k.matched \in BOOLEAN
  BY <1>1 DEF Waiting
<1>3. /\ q \in Key /\ q[1] = k.alert /\ q[2] = Redact[k.evidence]
      /\ q = <<k.alert, Redact[k.evidence]>>
  BY <1>2, KeyFacts
<1>4. (~k.matched) \in BOOLEAN
  OBVIOUS
<1>5. /\ v \in Analysis
      /\ v.question = Asked(k.alert, k.namespace, k.evidence)
      /\ v.unmatched <=> k.alert \notin Runbooks
  <2> DEFINE w == Asked(k.alert, k.namespace, k.evidence)
  <2>1. v = [answer |-> a, unmatched |-> ~k.matched, question |-> w]
    BY DEF NewAnalysis
  <2>2. w \in Question
    BY <1>2, AskedFacts
  <2> HIDE DEF w, v
  <2>3. v \in Analysis
    BY <2>1, <2>2, <1>4 DEF Analysis
  <2>4. v.unmatched <=> k.alert \notin Runbooks
    BY <2>1, <1>1
  <2>5. v.question = w
    BY <2>1
  <2> QED BY <2>3, <2>4, <2>5 DEF w
<1>6. /\ cache' = [cache EXCEPT ![q] = e]
      /\ last' = [last EXCEPT ![q] = e]
      /\ call' = [call EXCEPT ![c] = n]
  BY <1>3 DEF Reply
<1> HIDE DEF v, q
<1>7. e \in Entry /\ n \in Call
  BY <1>2, <1>5, ReasonerAssumption DEF Entry, Call, Served
<1>8. TypeOK'
  BY <1>3, <1>6, <1>7 DEF IInv, TypeOK, Call
<1>9. \A r \in Key : /\ cache'[r] = IF r = q THEN e ELSE cache[r]
                     /\ last'[r] = IF r = q THEN e ELSE last[r]
  BY <1>6 DEF IInv, TypeOK
<1>10. \A r \in Key : EntryOK(r, cache[r])'
  <2>1. EntryOK(q, e)
    BY <1>2, <1>3, <1>5 DEF EntryOK, Asked
  <2>2. ASSUME NEW r \in Key PROVE EntryOK(r, cache'[r])
    BY <2>1, <1>9 DEF IInv
  <2> QED BY <2>2 DEF EntryOK
<1>11. CallOK(n)
  BY <1>2, <1>5, ReasonerAssumption DEF CallOK, ServedOK
<1>12. \A d \in Callers : CallOK(call[d])'
  <2> TAKE d \in Callers
  <2>1. call'[d] = IF d = c THEN n ELSE call[d]
    BY <1>6 DEF IInv, TypeOK
  <2>2. CallOK(call'[d])
    BY <2>1, <1>11 DEF IInv
  <2> QED BY <2>2 DEF CallOK
<1>13. LatestAnswerIsKept'
  <2> HIDE DEF e
  <2> QED BY <1>9 DEF IInv, LatestAnswerIsKept, Fresh
<1> QED BY <1>8, <1>10, <1>12, <1>13 DEF IInv

\* Growing older keeps what an entry holds.
LEMMA OlderFacts ==
    ASSUME NEW e \in Entry \cup {NoEntry}
    PROVE  /\ Older(e) \in Entry \cup {NoEntry}
           /\ e = NoEntry => Older(e) = NoEntry
           /\ e # NoEntry => Older(e).value = e.value
           /\ Fresh(Older(e)) => Fresh(e)
<1>1. CASE e = NoEntry \/ e.age > TTL
  BY <1>1 DEF Older
<1>2. CASE e # NoEntry /\ ~(e.age > TTL)
  <2>1. Older(e) = [e EXCEPT !.age = e.age + 1]
    BY <1>2 DEF Older
  <2>2. e \in Entry /\ e.age \in 0..(TTL + 1) /\ TTL \in Nat
    BY <1>2, ReasonerAssumption DEF Entry
  <2>3. e.age + 1 \in 0..(TTL + 1) /\ e.age <= TTL
    BY <1>2, <2>2
  <2>4. Older(e) \in Entry /\ Older(e).value = e.value
    BY <2>1, <2>2, <2>3 DEF Entry
  <2> QED BY <1>2, <2>3, <2>4 DEF Fresh
<1> QED BY <1>1, <1>2

\* Waiting longer keeps what a coroutine asks and what it was given.
LEMMA LongerFacts ==
    ASSUME NEW k \in Call, CallOK(k)
    PROVE  Longer(k) \in Call /\ CallOK(Longer(k))
<1>1. CASE k.pc = "waiting" /\ k.waited < Timeout
  <2>1. k \in Waiting
    BY <1>1, CallKinds
  <2>2. Longer(k) = [k EXCEPT !.waited = k.waited + 1]
    BY <1>1 DEF Longer
  <2>3. k.waited + 1 \in 0..Timeout
    BY <1>1, <2>1, ReasonerAssumption DEF Waiting
  <2>4. /\ Longer(k) \in Waiting
        /\ Longer(k).pc = "waiting"
        /\ Longer(k).matched = k.matched
        /\ Longer(k).alert = k.alert
    BY <2>1, <2>2, <2>3 DEF Waiting
  <2> QED BY <1>1, <2>4 DEF CallOK, Call
<1>2. CASE ~(k.pc = "waiting" /\ k.waited < Timeout)
  BY <1>2 DEF Longer
<1> QED BY <1>1, <1>2

LEMMA TickFacts ==
    ASSUME IInv, Tick
    PROVE  IInv'
<1>1. \A q \in Key : /\ cache[q] \in Entry \cup {NoEntry}
                     /\ last[q] \in Entry \cup {NoEntry}
                     /\ cache'[q] = Older(cache[q])
                     /\ last'[q] = Older(last[q])
  BY DEF IInv, TypeOK, Tick
<1>2. \A c \in Callers : call[c] \in Call /\ CallOK(call[c]) /\ call'[c] = Longer(call[c])
  BY DEF IInv, TypeOK, Tick, Call
<1>3. TypeOK'
  <2>1. cache' \in [Key -> Entry \cup {NoEntry}]
    BY <1>1, OlderFacts DEF Tick
  <2>2. last' \in [Key -> Entry \cup {NoEntry}]
    BY <1>1, OlderFacts DEF Tick
  <2>3. call' \in [Callers -> Call]
    BY <1>2, LongerFacts DEF Tick
  <2> QED BY <2>1, <2>2, <2>3 DEF TypeOK, Call
<1>4. \A q \in Key : EntryOK(q, cache[q])'
  <2> TAKE q \in Key
  <2>1. EntryOK(q, cache[q])
    BY DEF IInv
  <2>2. EntryOK(q, cache'[q])
    BY <1>1, <2>1, OlderFacts DEF EntryOK
  <2> QED BY <2>2 DEF EntryOK
<1>5. \A c \in Callers : CallOK(call[c])'
  <2> TAKE c \in Callers
  <2>1. CallOK(call'[c])
    BY <1>2, LongerFacts
  <2> QED BY <2>1 DEF CallOK
<1>6. LatestAnswerIsKept'
  <2>1. ASSUME NEW q \in Key
        PROVE  /\ cache'[q] # NoEntry => cache'[q] = last'[q]
               /\ Fresh(last'[q]) => cache'[q] = last'[q]
    <3>1. cache[q] # NoEntry => cache[q] = last[q]
      BY DEF IInv, LatestAnswerIsKept
    <3>2. Fresh(last[q]) => cache[q] = last[q]
      BY DEF IInv, LatestAnswerIsKept
    <3> QED BY <1>1, <3>1, <3>2, OlderFacts
  <2> QED BY <2>1 DEF LatestAnswerIsKept, Fresh
<1> QED BY <1>3, <1>4, <1>5, <1>6 DEF IInv

LEMMA StutterFacts ==
    ASSUME IInv, UNCHANGED vars
    PROVE  IInv'
BY DEF vars, IInv, TypeOK, EntryOK, CallOK, ServedOK, LatestAnswerIsKept, Fresh

-----------------------------------------------------------------------------
\* The invariant holds for any number of coroutines, alerts, namespaces and
\* answers and any lifetime and deadline.
THEOREM Invariance == Spec => []IInv
<1>1. ASSUME IInv, [Next]_vars PROVE IInv'
  <2>1. CASE UNCHANGED vars
    BY <1>1, <2>1, StutterFacts
  <2>2. CASE Tick
    BY <1>1, <2>2, TickFacts
  <2>3. ASSUME NEW c \in Callers, NEW alert \in Alerts,
           NEW namespace \in Namespaces, NEW evidence \in Evidence,
               Hit(c, alert, namespace, evidence) \/ Miss(c, alert, namespace, evidence)
        PROVE  IInv'
    BY <1>1, <2>3, HitFacts, MissFacts
  <2>4. ASSUME NEW c \in Callers, NEW a \in Answers, Reply(c, a) PROVE IInv'
    BY <1>1, <2>4, ReplyFacts
  <2>5. ASSUME NEW c \in Callers, NEW how \in {"error", "raised"}, Fail(c, how) PROVE IInv'
    BY <1>1, <2>5, FailFacts
  <2>6. ASSUME NEW c \in Callers, GiveUp(c) PROVE IInv'
    BY <1>1, <2>6, FailFacts DEF GiveUp
  <2> QED BY <1>1, <2>1, <2>2, <2>3, <2>4, <2>5, <2>6 DEF Next
<1> QED BY <1>1, InitFacts, PTL DEF Spec

\* The cache, the coroutines and the history keep their shape.
THEOREM TypeCorrect == Spec => []TypeOK
<1>1. IInv => TypeOK
  BY DEF IInv
<1> QED BY <1>1, Invariance, PTL

\* Nobody is served the analysis of another alert or of other evidence, one with
\* the flag of another alert, or one past its time, and nobody the model answers
\* gets one that was asked for another namespace.
THEOREM ServedOwnAlertAndEvidence == Spec => []ServedForThisIncident
<1>1. IInv => ServedForThisIncident
  BY DEF IInv, CallOK, ServedOK, ServedForThisIncident
<1> QED BY <1>1, Invariance, PTL

\* Overlapping analyses of one key, their failures and their expired
\* entries never cost the latest answer before its time.
THEOREM LatestAnswerStays == Spec => []LatestAnswerIsKept
<1>1. IInv => LatestAnswerIsKept
  BY DEF IInv
<1> QED BY <1>1, Invariance, PTL

-----------------------------------------------------------------------------
(* The namespace, which the cache key leaves out.                           *)

\* The coroutines ask about each alert and evidence in one namespace only.
OneNamespacePerKey(N) ==
    \A c \in Callers : call[c].pc \in {"waiting", "hit", "answered"} =>
        call[c].namespace = N[MakeKey(call[c].alert, call[c].evidence)]

\* What a coroutine got was asked for its own namespace too.
OwnNamespace ==
    \A c \in Callers : call[c].pc \in {"hit", "answered"} =>
        call[c].value.question = Asked(call[c].alert, call[c].namespace, call[c].evidence)

\* Every entry, and all that was served from one, is of its key's namespace.
InNamespace(N) ==
    /\ \A q \in Key : cache[q] # NoEntry => cache[q].value.question[2] = N[q]
    /\ \A c \in Callers : call[c].pc \in {"hit", "answered"} =>
          call[c].value.question[2] = N[MakeKey(call[c].alert, call[c].evidence)]

LEMMA NamespaceStep ==
    ASSUME NEW N, IInv, InNamespace(N), OneNamespacePerKey(N), [Next]_vars
    PROVE  InNamespace(N)'
<1> DEFINE Of(k) == k.pc \in {"hit", "answered"} =>
                      k.value.question[2] = N[MakeKey(k.alert, k.evidence)]
<1>1. \A c \in Callers : Of(call[c])
  BY DEF InNamespace
<1>2. /\ cache \in [Key -> Entry \cup {NoEntry}]
      /\ call \in [Callers -> Call]
  BY DEF IInv, TypeOK, Call
<1> SUFFICES /\ \A q \in Key : cache'[q] # NoEntry => cache'[q].value.question[2] = N[q]
             /\ \A c \in Callers : Of(call'[c])
  BY DEF InNamespace, MakeKey
<1>3. ASSUME NEW c \in Callers, NEW k, Of(k), call' = [call EXCEPT ![c] = k]
      PROVE  \A d \in Callers : Of(call'[d])
  <2> HIDE DEF Of
  <2> QED BY <1>1, <1>2, <1>3
<1>4. CASE UNCHANGED vars
  BY <1>1, <1>4 DEF vars, InNamespace
<1>5. ASSUME NEW c \in Callers, NEW alert \in Alerts, NEW namespace \in Namespaces,
             NEW evidence \in Evidence, Hit(c, alert, namespace, evidence)
      PROVE  /\ cache' = cache
             /\ \A d \in Callers : Of(call'[d])
  <2> DEFINE e == cache[MakeKey(alert, evidence)]
             k == [pc |-> "hit", alert |-> alert, namespace |-> namespace,
                   evidence |-> evidence, value |-> e.value, age |-> e.age]
  <2>1. /\ e # NoEntry
        /\ call' = [call EXCEPT ![c] = k]
        /\ cache' = cache
    BY <1>5 DEF Hit, Fresh
  <2>2. e.value.question[2] = N[MakeKey(alert, evidence)]
    BY <2>1, KeyFacts DEF InNamespace
  <2>3. Of(k)
    BY <2>2
  <2> HIDE DEF k, Of
  <2> QED BY <2>1, <2>3, <1>3
<1>6. ASSUME NEW c \in Callers, NEW alert \in Alerts, NEW namespace \in Namespaces,
             NEW evidence \in Evidence, Miss(c, alert, namespace, evidence)
      PROVE  /\ \A q \in Key : cache'[q] = cache[q] \/ cache'[q] = NoEntry
             /\ \A d \in Callers : Of(call'[d])
  <2> DEFINE q == MakeKey(alert, evidence)
             k == [pc |-> "waiting", alert |-> alert, namespace |-> namespace,
                   evidence |-> evidence, matched |-> alert \in Runbooks, waited |-> 0]
  <2>1. /\ cache' = [cache EXCEPT ![q] = NoEntry]
        /\ call' = [call EXCEPT ![c] = k]
    BY <1>6 DEF Miss
  <2>2. Of(k)
    OBVIOUS
  <2> HIDE DEF q, k, Of
  <2> QED BY <2>1, <2>2, <1>2, <1>3
<1>7. ASSUME NEW c \in Callers, NEW a \in Answers, Reply(c, a)
      PROVE  /\ \A q \in Key : cache'[q] # NoEntry => cache'[q].value.question[2] = N[q]
             /\ \A d \in Callers : Of(call'[d])
  <2> DEFINE w == call[c]
             q == MakeKey(w.alert, w.evidence)
             v == NewAnalysis(w, a)
             e == [value |-> v, age |-> 0]
             k == [pc |-> "answered", alert |-> w.alert, namespace |-> w.namespace,
                   evidence |-> w.evidence, value |-> v, age |-> 0]
  <2>1. /\ cache' = [cache EXCEPT ![q] = e]
        /\ call' = [call EXCEPT ![c] = k]
        /\ w.pc = "waiting"
    BY <1>7 DEF Reply
  <2>2. w.namespace = N[q]
    BY <2>1 DEF OneNamespacePerKey
  <2>3. v.question[2] = N[q]
    BY <2>2 DEF NewAnalysis, Asked
  <2> HIDE DEF v, q
  <2>4. Of(k)
    BY <2>3 DEF q
  <2>5. \A r \in Key : cache'[r] = IF r = q THEN e ELSE cache[r]
    BY <2>1, <1>2
  <2>6. \A r \in Key : cache'[r] # NoEntry => cache'[r].value.question[2] = N[r]
    <3>1. e.value.question[2] = N[q]
      BY <2>3
    <3> HIDE DEF e
    <3> QED BY <2>5, <3>1 DEF InNamespace
  <2> HIDE DEF k, Of
  <2> QED BY <2>1, <2>4, <2>6, <1>3
<1>8. ASSUME NEW c \in Callers, NEW how \in {"timeout", "error", "raised"}, Fail(c, how)
      PROVE  /\ cache' = cache
             /\ \A d \in Callers : Of(call'[d])
  <2> DEFINE k == [pc |-> how]
  <2>1. Of(k)
    OBVIOUS
  <2> HIDE DEF k, Of
  <2> QED BY <1>8, <2>1, <1>3 DEF Fail, k
<1>9. CASE Tick
  <2>1. ASSUME NEW q \in Key, cache'[q] # NoEntry
        PROVE  cache[q] # NoEntry /\ cache'[q].value = cache[q].value
    <3>1. cache'[q] = Older(cache[q]) /\ cache[q] \in Entry \cup {NoEntry}
      BY <1>2, <1>9 DEF Tick
    <3> QED BY <2>1, <3>1, OlderFacts
  <2>2. ASSUME NEW c \in Callers PROVE Of(call'[c])
    <3>1. call'[c] = Longer(call[c]) /\ Of(call[c]) /\ call[c] \in Call
      BY <1>1, <1>2, <1>9 DEF Tick
    <3>2. CASE call[c].pc = "waiting" /\ call[c].waited < Timeout
      <4>1. call[c] \in Waiting
        BY <3>1, <3>2, CallKinds
      <4>2. call'[c].pc = "waiting"
        BY <3>1, <3>2, <4>1 DEF Longer, Waiting
      <4> QED BY <4>2
    <3>3. CASE ~(call[c].pc = "waiting" /\ call[c].waited < Timeout)
      <4>1. call'[c] = call[c]
        BY <3>1, <3>3 DEF Longer
      <4> QED BY <3>1, <4>1
    <3> QED BY <3>2, <3>3
  <2> QED BY <2>1, <2>2 DEF InNamespace
<1> HIDE DEF Of
<1> QED BY <1>4, <1>5, <1>6, <1>7, <1>8, <1>9 DEF Next, GiveUp, InNamespace

\* What sharing an entry between namespaces rests on: a caller can only get an
\* analysis of another namespace if some alert and evidence are asked about in two.
\* Where each comes from one namespace, everybody gets an analysis of its own.
THEOREM OwnNamespaceWhereOneAsks ==
    ASSUME NEW N \in [Key -> Namespaces]
    PROVE  Spec /\ []OneNamespacePerKey(N) => []OwnNamespace
<1>1. Init => InNamespace(N)
  BY DEF Init, Idle, InNamespace
<1>2. IInv /\ InNamespace(N) /\ OneNamespacePerKey(N) /\ [Next]_vars => InNamespace(N)'
  BY NamespaceStep
<1>3. IInv /\ InNamespace(N) /\ OneNamespacePerKey(N) => OwnNamespace
  <2> SUFFICES ASSUME IInv, InNamespace(N), OneNamespacePerKey(N),
                      NEW c \in Callers, call[c].pc \in {"hit", "answered"}
               PROVE  call[c].value.question =
                        Asked(call[c].alert, call[c].namespace, call[c].evidence)
    BY DEF OwnNamespace
  <2> DEFINE k == call[c]
  <2>1. PICK n \in Namespaces : k.value.question = Asked(k.alert, n, k.evidence)
    BY DEF IInv, CallOK, ServedOK
  <2>2. k.value.question[2] = k.namespace
    BY DEF InNamespace, OneNamespacePerKey
  <2>3. n = k.namespace
    BY <2>1, <2>2 DEF Asked
  <2> QED BY <2>1, <2>3
<1> QED BY <1>1, <1>2, <1>3, Invariance, PTL DEF Spec
=============================================================================
