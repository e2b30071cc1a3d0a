--------------------------- MODULE CircuitBreaker ---------------------------
(***************************************************************************)
(* shared/resilience: a circuit breaker shared by concurrent callers.       *)
(* Execute holds the breaker's lock twice, before and after the protected   *)
(* call, and not during it: calls admitted in one state of the breaker may  *)
(* report their outcome in another one.                                     *)
(***************************************************************************)
EXTENDS Naturals, FiniteSets

CONSTANTS Callers,       \* goroutines sharing the breaker
          MaxFailures,   \* CircuitBreaker.maxFailures
          Timeout,       \* CircuitBreaker.timeout, in ticks
          Modulus        \* failures is an unsigned integer: 2^32 in the code

ASSUME ParametersAssumption ==
    /\ Modulus \in Nat
    /\ MaxFailures \in 1..(Modulus - 1)
    /\ Timeout \in Nat

VARIABLES
    state,      \* CircuitBreaker.state
    failures,   \* CircuitBreaker.failures
    age,        \* ticks since lastFailureAt, Timeout + 1 standing for any more
    call,       \* where each caller is in Execute
    run,        \* history: failures since the last success, at most Modulus
    misses      \* history: failures in a row that left the breaker half-open

vars == <<state, failures, age, call, run, misses>>

\* "trial" is a call that the half-open breaker let through; "rejected" a caller
\* whose last Execute returned ErrCircuitOpen.
Call == {"idle", "running", "trial", "rejected"}

InFlight(c) == call[c] \in {"running", "trial"}

\* lastFailureAt is the zero time, ages ago.
Init == /\ state = "closed"
        /\ failures = 0
        /\ age = Timeout + 1
        /\ call = [c \in Callers |-> "idle"]
        /\ run = 0
        /\ misses = 0

\* Mutant: the last tick of the window already counts as elapsed.
MutState == IF state = "open" /\ age >= Timeout THEN "half-open" ELSE state

\* What State() reports.
State == IF state = "open" /\ age > Timeout THEN "half-open" ELSE state

-----------------------------------------------------------------------------
\* Mutant: the count starts again when the breaker turns half-open.
MutAdmit(c) ==
    LET s == IF state = "open" THEN "half-open" ELSE state
    IN  /\ ~InFlight(c)
        /\ state = "open" => age > Timeout
        /\ state' = s
        /\ failures' = IF state = "open" THEN 0 ELSE failures
        /\ call' = [call EXCEPT ![c] = IF s = "half-open" THEN "trial" ELSE "running"]
        /\ UNCHANGED <<age, run, misses>>

\* The first critical section of Execute, when the call goes through.
Admit(c) ==
    LET s == IF state = "open" THEN "half-open" ELSE state
    IN  /\ ~InFlight(c)
        /\ state = "open" => age > Timeout
        /\ state' = s
        /\ call' = [call EXCEPT ![c] = IF s = "half-open" THEN "trial" ELSE "running"]
        /\ UNCHANGED <<failures, age, run, misses>>

\* Mutant: a rejected call restarts the window.
MutReject(c) ==
    /\ ~InFlight(c)
    /\ state = "open" /\ age <= Timeout
    /\ age' = 0
    /\ call' = [call EXCEPT ![c] = "rejected"]
    /\ UNCHANGED <<state, failures, run, misses>>

\* ErrCircuitOpen.
Reject(c) ==
    /\ ~InFlight(c)
    /\ state = "open" /\ age <= Timeout
    /\ call' = [call EXCEPT ![c] = "rejected"]
    /\ UNCHANGED <<state, failures, age, run, misses>>

\* Mutant: the counter does not wrap.
MutFail(c) ==
    /\ InFlight(c)
    /\ failures' = failures + 1
    /\ state' = IF failures' >= MaxFailures THEN "open" ELSE state
    /\ age' = 0
    /\ run' = IF run < Modulus THEN run + 1 ELSE run
    /\ misses' = IF state = "half-open" /\ state' = "half-open" THEN misses + 1 ELSE 0
    /\ call' = [call EXCEPT ![c] = "idle"]

\* The second critical section, after fn returned an error.
Fail(c) ==
    /\ InFlight(c)
    /\ failures' = (failures + 1) % Modulus
    /\ state' = IF failures' >= MaxFailures THEN "open" ELSE state
    /\ age' = 0
    /\ run' = IF run < Modulus THEN run + 1 ELSE run
    /\ misses' = IF state = "half-open" /\ state' = "half-open" THEN misses + 1 ELSE 0
    /\ call' = [call EXCEPT ![c] = "idle"]

\* Mutant: the count survives a success.
MutSucceed(c) ==
    /\ InFlight(c)
    /\ state' = "closed"
    /\ run' = 0
    /\ misses' = 0
    /\ call' = [call EXCEPT ![c] = "idle"]
    /\ UNCHANGED <<failures, age>>

\* ... and after it returned a result, whatever state admitted it.
Succeed(c) ==
    /\ InFlight(c)
    /\ failures' = 0
    /\ state' = "closed"
    /\ run' = 0
    /\ misses' = 0
    /\ call' = [call EXCEPT ![c] = "idle"]
    /\ UNCHANGED age

\* fn panics: no lock is held and the second critical section is never reached.
Panic(c) ==
    /\ InFlight(c)
    /\ call' = [call EXCEPT ![c] = "idle"]
    /\ UNCHANGED <<state, failures, age, run, misses>>

Tick == /\ age <= Timeout
        /\ age' = age + 1
        /\ UNCHANGED <<state, failures, call, run, misses>>

Next == \/ \E c \in Callers : \/ Admit(c) \/ Reject(c)
                              \/ Fail(c) \/ Succeed(c) \/ Panic(c)
        \/ Tick

Spec == Init /\ [][Next]_vars

\* Time passes.  Nothing makes a caller call, nor a protected call return.
FairSpec == Spec /\ WF_vars(Tick)

-----------------------------------------------------------------------------
\* The counters stay within their width and the window within its length.
TypeOK == /\ state \in {"closed", "open", "half-open"}
          /\ failures \in 0..(Modulus - 1)
          /\ age \in 0..(Timeout + 1)
          /\ call \in [Callers -> Call]
          /\ run \in 0..Modulus
          /\ misses \in Nat

\* The breaker is closed exactly while fewer than maxFailures calls failed since
\* the last one that succeeded, in the order the outcomes came in, however the
\* calls overlapped and even after the counter wrapped (circuit_breaker.go:70-81).
ClosedIffFewFailures == state = "closed" <=> run < MaxFailures

\* A failure reported while the breaker is half-open opens it again at once, since
\* the counter is not reset on the way to half-open (circuit_breaker.go:56, 71-75).
\* Only a counter that wrapped since the last success can leave it half-open, and
\* then for no more than maxFailures failures, which all let calls through.
FailedTrialReopens ==
    [][\A c \in Callers :
           Fail(c) /\ state = "half-open"
               => \/ state' = "open"
                  \/ run' = Modulus /\ misses' <= MaxFailures]_vars

\* Execute and State agree: a call goes through only in a state that State()
\* would not report as open, and is rejected only in one it would
\* (circuit_breaker.go:54-61, 89-92).
ExecuteAgreesWithState ==
    [][\A c \in Callers : call'[c] # call[c] =>
           /\ call'[c] \in {"running", "trial"} => State # "open"
           /\ call'[c] = "rejected" => State = "open"]_vars

\* An open breaker does not stay open for ever: failures of calls admitted
\* earlier restart the window (circuit_breaker.go:72), but only as many times as
\* there are calls in flight.
Recovers == (State = "open") ~> (State # "open")

\* "Should allow one request (half-open)" (circuit_breaker_test.go:102): the
\* half-open breaker has one call on trial at a time.
HalfOpenAllowsOne == Cardinality({c \in Callers : call[c] = "trial"}) <= 1

-----------------------------------------------------------------------------
(* The inductive invariant of the proofs. *)

\* Until it wraps, failures counts the run; it never counts more.  Failures that
\* left the breaker half-open were all counted since it wrapped.
IInv == /\ TypeOK
        /\ ClosedIffFewFailures
        /\ failures <= run
        /\ run < Modulus => failures = run
        /\ misses > 0 => /\ state = "half-open" /\ run = Modulus
                         /\ failures < MaxFailures /\ misses <= failures + 1
=============================================================================
