------------------------ MODULE CircuitBreaker_proofs -----------------------
(***************************************************************************)
(* Proofs about the circuit breaker, for any number of callers, any         *)
(* threshold below the counter's width and any timeout.                     *)
(***************************************************************************)
EXTENDS CircuitBreaker, TLAPS

\* A failure is counted, and opens the breaker unless the count is too low.  A
\* half-open breaker only has so low a count once it wrapped.
LEMMA FailStep ==
    ASSUME IInv, NEW c \in Callers, Fail(c)
    PROVE  /\ IInv'
           /\ state = "half-open" => \/ state' = "open"
                                     \/ run' = Modulus /\ misses' <= MaxFailures
<1>. USE ParametersAssumption DEF IInv, TypeOK, ClosedIffFewFailures
<1>1. call' \in [Callers -> Call]
  BY DEF Fail, Call
<1>2. /\ failures' = IF failures + 1 < Modulus THEN failures + 1 ELSE 0
      /\ state' = IF failures' >= MaxFailures THEN "open" ELSE state
      /\ run' = IF run < Modulus THEN run + 1 ELSE run
      /\ misses' = IF state = "half-open" /\ state' = "half-open" THEN misses + 1 ELSE 0
      /\ age' = 0
  <2>1. (failures + 1) % Modulus = IF failures + 1 < Modulus THEN failures + 1 ELSE 0
    <3>1. CASE failures + 1 < Modulus
      BY <3>1
    <3>2. CASE failures + 1 = Modulus
      BY <3>2
    <3>. QED  BY <3>1, <3>2
  <2>. QED  BY <2>1 DEF Fail
<1>3. /\ TypeOK'
      /\ failures' <= run'
      /\ run' < Modulus => failures' = run'
  BY <1>1, <1>2
<1>4. ClosedIffFewFailures'
  BY <1>2
<1>5. misses' > 0 => /\ state' = "half-open" /\ run' = Modulus
                     /\ failures' < MaxFailures /\ misses' <= failures' + 1
  <2>. SUFFICES ASSUME state = "half-open", state' = "half-open"
                PROVE  /\ run' = Modulus /\ failures' < MaxFailures
                       /\ misses + 1 <= failures' + 1
    BY <1>2
  <2>1. failures' < MaxFailures
    BY <1>2
  <2>2. CASE misses = 0
    BY <1>2, <2>1, <2>2
  <2>3. CASE misses > 0
    BY <1>2, <2>1, <2>3
  <2>. QED  BY <2>2, <2>3
<1>6. state = "half-open" => \/ state' = "open"
                             \/ run' = Modulus /\ misses' <= MaxFailures
  <2>. SUFFICES ASSUME state = "half-open", state' # "open"
                PROVE  run' = Modulus /\ misses' <= MaxFailures
    OBVIOUS
  <2>1. state' = "half-open" /\ misses' = misses + 1
    BY <1>2
  <2>2. failures' \in Nat /\ misses' \in Nat /\ MaxFailures \in Nat /\ misses' > 0
    BY <1>3, <2>1
  <2>3. run' = Modulus /\ failures' < MaxFailures /\ misses' <= failures' + 1
    BY <1>5, <2>2
  <2>. HIDE ParametersAssumption DEF IInv, TypeOK, ClosedIffFewFailures
  <2>4. \A f, m, n \in Nat : f < n /\ m <= f + 1 => m <= n
    OBVIOUS
  <2>. QED  BY <2>2, <2>3, <2>4
<1>. QED  BY <1>3, <1>4, <1>5, <1>6

\* The inductive invariant holds at the start and survives every step.
THEOREM Invariance == Spec => []IInv
<1>. USE ParametersAssumption
<1>1. Init => IInv
  BY DEF Init, IInv, TypeOK, ClosedIffFewFailures, Call
<1>2. IInv /\ [Next]_vars => IInv'
  <2>. SUFFICES ASSUME IInv, [Next]_vars PROVE IInv'
    OBVIOUS
  <2>. USE DEF IInv, TypeOK, ClosedIffFewFailures, Call
  <2>1. ASSUME NEW c \in Callers, Admit(c) PROVE IInv'
    BY <2>1 DEF Admit
  <2>2. ASSUME NEW c \in Callers, Reject(c) PROVE IInv'
    BY <2>2 DEF Reject
  <2>3. ASSUME NEW c \in Callers, Fail(c) PROVE IInv'
    BY <2>3, FailStep
  <2>4. ASSUME NEW c \in Callers, Succeed(c) PROVE IInv'
    BY <2>4 DEF Succeed
  <2>5. ASSUME NEW c \in Callers, Panic(c) PROVE IInv'
    BY <2>5 DEF Panic
  <2>6. CASE Tick
    BY <2>6 DEF Tick
  <2>7. CASE UNCHANGED vars
    BY <2>7 DEF vars
  <2>. QED  BY <2>1, <2>2, <2>3, <2>4, <2>5, <2>6, <2>7 DEF Next
<1>. QED  BY <1>1, <1>2, PTL DEF Spec

\* The shape of the breaker, and the width of its counters.
THEOREM TypeCorrect == Spec => []TypeOK
<1>1. IInv => TypeOK
  BY DEF IInv
<1>. QED  BY <1>1, Invariance, PTL

\* The breaker is closed exactly while fewer than maxFailures calls failed since
\* the last success, however the calls overlap and even after the counter wrapped.
THEOREM ClosedExactly == Spec => []ClosedIffFewFailures
<1>1. IInv => ClosedIffFewFailures
  BY DEF IInv
<1>. QED  BY <1>1, Invariance, PTL

\* A failure while the breaker is half-open opens it again: the count it kept from
\* the time it was closed is past the threshold.  If the counter wrapped meanwhile,
\* maxFailures failures at most leave it half-open.
THEOREM TrialFailureReopens == Spec => FailedTrialReopens
<1>1. IInv /\ [Next]_vars =>
        [\A c \in Callers :
           Fail(c) /\ state = "half-open"
               => \/ state' = "open"
                  \/ run' = Modulus /\ misses' <= MaxFailures]_vars
  BY FailStep
<1>. QED  BY <1>1, Invariance, PTL DEF Spec, FailedTrialReopens

\* No step lets a call through in a state that State() reports as open, nor
\* rejects one in another state.
THEOREM ExecuteMatchesState == Spec => ExecuteAgreesWithState
<1>. DEFINE Agrees == \A c \in Callers : call'[c] # call[c] =>
           /\ call'[c] \in {"running", "trial"} => State # "open"
           /\ call'[c] = "rejected" => State = "open"
<1>1. IInv /\ [Next]_vars => [Agrees]_vars
  <2>. SUFFICES ASSUME IInv, Next PROVE Agrees
    BY DEF vars
  <2>. SUFFICES ASSUME NEW d \in Callers, call'[d] # call[d]
                PROVE  /\ call'[d] \in {"running", "trial"} => State # "open"
                       /\ call'[d] = "rejected" => State = "open"
    OBVIOUS
  <2>. USE ParametersAssumption DEF IInv, TypeOK, Call, State
  <2>1. ASSUME NEW c \in Callers, Admit(c)
        PROVE  call'[d] # "rejected" /\ State # "open"
    BY <2>1 DEF Admit
  <2>2. ASSUME NEW c \in Callers, Reject(c)
        PROVE  call'[d] = "rejected" /\ State = "open"
    BY <2>2 DEF Reject
  <2>3. ASSUME NEW c \in Callers, Fail(c) \/ Succeed(c) \/ Panic(c)
        PROVE  call'[d] = "idle"
    BY <2>3 DEF Fail, Succeed, Panic
  <2>4. ~Tick
    BY DEF Tick
  <2>. QED  BY <2>1, <2>2, <2>3, <2>4 DEF Next
<1>. QED  BY <1>1, Invariance, PTL DEF Spec, ExecuteAgreesWithState
=============================================================================
