-------------------------------- MODULE Reasoner -------------------------------
(***************************************************************************)
(* The reasoner's orchestrator and its prompt cache                        *)
(* (services/reasoner/src/reasoner/orchestrator.py, cache.py): analyses    *)
(* run as coroutines of one event loop, so a step is what happens between  *)
(* two awaits, and the only await is the call of the model, under a        *)
(* timeout.  Time is counted in ticks: an age above TTL stands for every   *)
(* later one.  Callers read the results they get and do not edit them.     *)
(***************************************************************************)
EXTENDS Integers

CONSTANTS
    Callers,   \* coroutines
    Alerts,    \* alert names
    Namespaces,
    Runbooks,  \* the alert names that have a runbook
    Evidence,  \* evidence, before and after redaction
    Redact,    \* redact_sensitive_dict
    Answers,   \* what the model may answer
    NoEntry,   \* no cache entry
    TTL,       \* ttl_seconds
    Timeout    \* ANALYSIS_TIMEOUT_SECONDS

ASSUME ReasonerAssumption ==
    /\ Runbooks \subseteq Alerts
    /\ Redact \in [Evidence -> Evidence]
    /\ TTL \in Nat /\ Timeout \in Nat

VARIABLES
    cache,  \* PromptCache._cache: value and time since created_at
    call,   \* the analysis a coroutine runs, or the one it returned last
    last    \* history: the latest answer for each cache key, and its age

vars == <<cache, call, last>>

\* What the model is told: an alert, a namespace and evidence without secrets.
Question == Alerts \X Namespaces \X Evidence

Asked(alert, namespace, evidence) == <<alert, namespace, Redact[evidence]>>

\* What the cache is asked for: the namespace is not part of it.
Key == Alerts \X Evidence

\* An AnalysisResult from the model, with the question it was computed for.
Analysis == [answer : Answers, unmatched : BOOLEAN, question : Question]

Entry == [value : Analysis, age : 0..(TTL + 1)]

Idle == [pc |-> "idle"]

Waiting == [pc : {"waiting"}, alert : Alerts, namespace : Namespaces,
            evidence : Evidence, matched : BOOLEAN, waited : 0..Timeout]

\* "hit": served from a cache entry of this age.  "answered": by the model, just now.
Served == [pc : {"hit", "answered"}, alert : Alerts, namespace : Namespaces,
           evidence : Evidence, value : Analysis, age : 0..(TTL + 1)]

Failed == [pc : {"timeout", "error", "raised"}]

TypeOK ==
    /\ cache \in [Key -> Entry \cup {NoEntry}]
    /\ call \in [Callers -> {Idle} \cup Waiting \cup Served \cup Failed]
    /\ last \in [Key -> Entry \cup {NoEntry}]

Init ==
    /\ cache = [q \in Key |-> NoEntry]
    /\ call = [c \in Callers |-> Idle]
    /\ last = [q \in Key |-> NoEntry]

-----------------------------------------------------------------------------
\* Mutant: the key is made from the evidence alone.
MutMakeKey(alert, evidence) == <<CHOOSE a \in Alerts : TRUE, Redact[evidence]>>

MakeKey(alert, evidence) == <<alert, Redact[evidence]>>

Fresh(e) == e # NoEntry /\ e.age <= TTL

Hit(c, alert, namespace, evidence) ==
    LET e == cache[MakeKey(alert, evidence)]
    IN  /\ call[c].pc # "waiting"
        /\ Fresh(e)
        /\ call' = [call EXCEPT ![c] =
              [pc |-> "hit", alert |-> alert, namespace |-> namespace,
               evidence |-> evidence, value |-> e.value, age |-> e.age]]
        /\ UNCHANGED <<cache, last>>

\* An expired entry is deleted; the analysis waits for the model.
Miss(c, alert, namespace, evidence) ==
    LET k == MakeKey(alert, evidence)
    IN  /\ call[c].pc # "waiting"
        /\ ~Fresh(cache[k])
        /\ cache' = [cache EXCEPT ![k] = NoEntry]
        /\ call' = [call EXCEPT ![c] =
              [pc |-> "waiting", alert |-> alert, namespace |-> namespace,
               evidence |-> evidence, matched |-> alert \in Runbooks, waited |-> 0]]
        /\ UNCHANGED last

NewAnalysis(k, a) ==
    [answer |-> a, unmatched |-> ~k.matched,
     question |-> Asked(k.alert, k.namespace, k.evidence)]

\* The model answers, perhaps at the last moment; the answer is cached, over the
\* one a concurrent analysis may have left under the same key.
Reply(c, a) ==
    LET k == call[c]
        q == MakeKey(k.alert, k.evidence)
        v == NewAnalysis(k, a)
        e == [value |-> v, age |-> 0]
    IN  /\ k.pc = "waiting"
        /\ cache' = [cache EXCEPT ![q] = e]
        /\ last' = [last EXCEPT ![<<k.alert, Redact[k.evidence]>>] = e]
        /\ call' = [call EXCEPT ![c] =
              [pc |-> "answered", alert |-> k.alert, namespace |-> k.namespace,
               evidence |-> k.evidence, value |-> v, age |-> 0]]

\* Mutant: a failed analysis takes the entry of its key with it.
MutFail(c, how) ==
    /\ call[c].pc = "waiting"
    /\ call' = [call EXCEPT ![c] = [pc |-> how]]
    /\ cache' = [cache EXCEPT ![MakeKey(call[c].alert, call[c].evidence)] = NoEntry]
    /\ UNCHANGED last

\* "error": the client failed or got no JSON.  "raised": the JSON is not an
\* object, and analyze raises.  Nothing is cached.
Fail(c, how) ==
    /\ call[c].pc = "waiting"
    /\ call' = [call EXCEPT ![c] = [pc |-> how]]
    /\ UNCHANGED <<cache, last>>

\* Mutant: the deadline is tested after the wait was cut off at it.
MutGiveUp(c) ==
    /\ call[c].pc = "waiting" /\ call[c].waited > Timeout
    /\ Fail(c, "timeout")

\* wait_for's deadline: a partial result.
GiveUp(c) ==
    /\ call[c].pc = "waiting" /\ call[c].waited = Timeout
    /\ Fail(c, "timeout")

Older(e) == IF e = NoEntry \/ e.age > TTL THEN e ELSE [e EXCEPT !.age = @ + 1]

\* Mutant: the wait is cut off a tick late.
MutLonger(k) ==
    IF k.pc = "waiting" /\ k.waited <= Timeout THEN [k EXCEPT !.waited = @ + 1] ELSE k

Longer(k) ==
    IF k.pc = "waiting" /\ k.waited < Timeout THEN [k EXCEPT !.waited = @ + 1] ELSE k

Tick ==
    /\ cache' = [q \in Key |-> Older(cache[q])]
    /\ last' = [q \in Key |-> Older(last[q])]
    /\ call' = [c \in Callers |-> Longer(call[c])]

Next ==
    \/ \E c \in Callers :
          \/ \E alert \in Alerts, namespace \in Namespaces, evidence \in Evidence :
                Hit(c, alert, namespace, evidence) \/ Miss(c, alert, namespace, evidence)
          \/ \E a \in Answers : Reply(c, a)
          \/ \E how \in {"error", "raised"} : Fail(c, how)
          \/ GiveUp(c)
    \/ Tick

\* Time passes and the event loop runs its timers; the model need never answer.
Spec == Init /\ [][Next]_vars /\ WF_vars(Tick) /\ \A c \in Callers : WF_vars(GiveUp(c))

-----------------------------------------------------------------------------
(* Properties.                                                              *)

\* A caller that got an analysis, new or from the cache, after whatever overlapped
\* with it, got one of its own alert and of evidence that differs from its own at
\* most in secrets, with the flag that is right for it, and not past its time.  One
\* the model just gave was asked for the caller's own namespace; one from the cache
\* may be of any namespace, since the model is told it and the key leaves it out.
ServedForThisIncident ==
    \A c \in Callers : call[c].pc \in {"hit", "answered"} =>
        LET k == call[c] IN
        /\ \E n \in Namespaces :
              /\ k.value.question = Asked(k.alert, n, k.evidence)
              /\ k.pc = "answered" => n = k.namespace
        /\ k.value.unmatched <=> k.alert \notin Runbooks
        /\ k.age <= TTL

\* The cache holds the latest answer for each alert and evidence, whatever the
\* namespaces asked, or none, and loses none before its time: not to an analysis
\* that expires the entry, fails or times out while another of the same key answers.
LatestAnswerIsKept ==
    \A q \in Key :
        /\ cache[q] # NoEntry => cache[q] = last[q]
        /\ Fresh(last[q]) => cache[q] = last[q]

\* Every analysis ends, also when the model never answers.
AnalysesEnd ==
    \A c \in Callers : call[c].pc = "waiting" ~> call[c].pc # "waiting"
=============================================================================
