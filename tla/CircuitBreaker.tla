--------------------------- MODULE CircuitBreaker ---------------------------
(***************************************************************************)
(* orchestration_layer/adapters/circuit_breaker.py: one CircuitBreaker and *)
(* the calls that go through it, each of them retried by                   *)
(* exponential_backoff as the adapters do.                                 *)
(*                                                                         *)
(* A call is suspended while the provider works on it, so a result may     *)
(* reach the breaker long after the state the call was admitted in.  Time  *)
(* is counted since the last failure, up to RecoveryTimeout: the code      *)
(* compares it with nothing else.  The length of a backoff delay is left   *)
(* open.                                                                   *)
(***************************************************************************)
EXTENDS Naturals, FiniteSets

CONSTANTS
  Calls,             \* concurrent users of the breaker
  FailureThreshold,  \* failure_threshold
  RecoveryTimeout,   \* recovery_timeout_seconds, in ticks
  HalfOpenMaxCalls,  \* half_open_max_calls
  MaxRetries,        \* max_retries of exponential_backoff
  OneShot,           \* each user makes a single request (the adapters of the pipeline)
  MaxFailures        \* bound on the failure counter, for model checking

ASSUME BreakerAssumption ==
  /\ FailureThreshold \in Nat \ {0}
  /\ RecoveryTimeout \in Nat \ {0}
  /\ HalfOpenMaxCalls \in Nat \ {0}
  /\ MaxRetries \in Nat
  /\ OneShot \in BOOLEAN
  /\ MaxFailures \in Nat

VARIABLES
  state,         \* _state
  failureCount,  \* _failure_count
  halfOpenCalls, \* _half_open_calls
  sinceFailure,  \* time since _last_failure_time, up to RecoveryTimeout
  call,          \* where each user is
  healed         \* environment: the provider has recovered for good

breaker == <<state, failureCount, halfOpenCalls, sinceFailure>>
vars == <<state, failureCount, halfOpenCalls, sinceFailure, call, healed>>

CircuitState == {"closed", "open", "half_open"}

CallPoint ==
  [phase : {"idle", "inflight", "backoff", "done"}, attempt : Nat,
   admitted : CircuitState]

Idle == [phase |-> "idle", attempt |-> 0, admitted |-> "closed"]

TypeOK ==
  /\ state \in CircuitState
  /\ failureCount \in Nat
  /\ halfOpenCalls \in Nat
  /\ sinceFailure \in 0 .. RecoveryTimeout
  /\ call \in [Calls -> CallPoint]
  /\ healed \in BOOLEAN

-----------------------------------------------------------------------------
\* Bug: an elapsed timeout closes the circuit without probing.
RecoverAtOnce ==
  IF state = "open" /\ sinceFailure = RecoveryTimeout THEN "closed" ELSE state

\* The state property: reading it turns OPEN into HALF_OPEN after the timeout.
CurrentState ==
  IF state = "open" /\ sinceFailure = RecoveryTimeout THEN "half_open" ELSE state

\* Bug: the circuit closes with the failures it opened on.
OnSuccessKeepingCount ==
  IF state = "half_open"
    THEN /\ halfOpenCalls' = IF halfOpenCalls + 1 >= HalfOpenMaxCalls
                               THEN 0 ELSE halfOpenCalls + 1
         /\ state' = IF halfOpenCalls + 1 >= HalfOpenMaxCalls THEN "closed" ELSE state
         /\ UNCHANGED failureCount
    ELSE /\ failureCount' = IF failureCount > 0 THEN failureCount - 1 ELSE 0
         /\ UNCHANGED <<state, halfOpenCalls>>

\* Bug: a success never counts as a probe.
OnSuccessUncounted ==
  /\ failureCount' = IF failureCount > 0 THEN failureCount - 1 ELSE 0
  /\ UNCHANGED <<state, halfOpenCalls>>

\* _on_success looks at _state itself, not at the state property.
OnSuccess ==
  \/ /\ state = "half_open" /\ halfOpenCalls + 1 >= HalfOpenMaxCalls
     /\ state' = "closed" /\ failureCount' = 0 /\ halfOpenCalls' = 0
  \/ /\ state = "half_open" /\ halfOpenCalls + 1 < HalfOpenMaxCalls
     /\ halfOpenCalls' = halfOpenCalls + 1
     /\ UNCHANGED <<state, failureCount>>
  \/ /\ state # "half_open"
     /\ failureCount' = IF failureCount > 0 THEN failureCount - 1 ELSE 0
     /\ UNCHANGED <<state, halfOpenCalls>>

\* _on_failure: stamps the time, and opens the circuit or keeps it open.
OnFailure ==
  /\ failureCount' = failureCount + 1
  /\ sinceFailure' = 0
  /\ state' = IF state = "half_open" \/ failureCount + 1 >= FailureThreshold
                THEN "open" ELSE state
  /\ UNCHANGED halfOpenCalls

-----------------------------------------------------------------------------
Finished == [Idle EXCEPT !.phase = IF OneShot THEN "done" ELSE "idle"]

\* Bug: an open circuit rejects, but only the calls that are not retries.
AdmitRetries(c, n) ==
  LET current == CurrentState
  IN /\ state' = current
     /\ halfOpenCalls' = IF current # state THEN 0 ELSE halfOpenCalls
     /\ call' = [call EXCEPT ![c] =
          IF current = "open" /\ n = 0 THEN Finished
          ELSE [phase |-> "inflight", attempt |-> n, admitted |-> current]]
     /\ UNCHANGED <<failureCount, sinceFailure, healed>>

\* CircuitBreaker.call up to its await: attempt n of user c is admitted, or
\* rejected with CircuitBreakerOpenError, which is not retried.
Admit(c, n) ==
  LET current == CurrentState
  IN /\ state' = current
     /\ halfOpenCalls' = IF current # state THEN 0 ELSE halfOpenCalls
     /\ call' = [call EXCEPT ![c] =
          IF current = "open" THEN Finished
          ELSE [phase |-> "inflight", attempt |-> n, admitted |-> current]]
     /\ UNCHANGED <<failureCount, sinceFailure, healed>>

Begin(c) == call[c].phase = "idle" /\ Admit(c, 0)

\* asyncio.sleep(delay) is over.
Retry(c) == call[c].phase = "backoff" /\ Admit(c, call[c].attempt + 1)

Succeed(c) ==
  /\ call[c].phase = "inflight"
  /\ OnSuccess
  /\ call' = [call EXCEPT ![c] = Finished]
  /\ UNCHANGED <<sinceFailure, healed>>

FailCall(c) ==
  /\ call[c].phase = "inflight"
  /\ ~ healed
  /\ failureCount < MaxFailures
  /\ OnFailure
  /\ call' = [call EXCEPT ![c] = IF call[c].attempt < MaxRetries
                                   THEN [@ EXCEPT !.phase = "backoff"] ELSE Finished]
  /\ UNCHANGED healed

Tick ==
  /\ sinceFailure < RecoveryTimeout
  /\ sinceFailure' = sinceFailure + 1
  /\ UNCHANGED <<state, failureCount, halfOpenCalls, call, healed>>

Heal ==
  /\ ~ healed
  /\ healed' = TRUE
  /\ UNCHANGED <<state, failureCount, halfOpenCalls, sinceFailure, call>>

-----------------------------------------------------------------------------
\* A new breaker's _last_failure_time is 0: it has not failed for long.
Init ==
  /\ state = "closed" /\ failureCount = 0 /\ halfOpenCalls = 0
  /\ sinceFailure = RecoveryTimeout
  /\ call = [c \in Calls |-> Idle]
  /\ healed = FALSE

Next ==
  \/ \E c \in Calls : Begin(c) \/ Retry(c) \/ Succeed(c) \/ FailCall(c)
  \/ Tick
  \/ Heal

\* Time passes, HTTP calls return (timeout=30.0) and sleeps end. Begin is fair
\* because the breaker is lazy: it leaves OPEN only when somebody calls, so its
\* recovery is promised under traffic.
Fairness ==
  /\ WF_vars(Tick)
  /\ \A c \in Calls : /\ WF_vars(Begin(c))
                      /\ WF_vars(Retry(c))
                      /\ WF_vars(Succeed(c) \/ FailCall(c))

Spec == Init /\ [][Next]_vars /\ Fairness

-----------------------------------------------------------------------------
(* Properties *)

\* The counters stay below the limits that would have changed the state: a
\* CLOSED breaker has not reached its threshold, and a HALF_OPEN one not its
\* successes, whatever late results it has been told.
CountersBelowLimits ==
  /\ state = "closed" => failureCount < FailureThreshold
  /\ state = "half_open" => halfOpenCalls < HalfOpenMaxCalls

\* An OPEN circuit is left only for HALF_OPEN, after a full RecoveryTimeout
\* without any failure; late successes of calls admitted earlier do not close it.
OpenLeftByProbing ==
  [][state = "open" /\ state' # "open" =>
       state' = "half_open" /\ sinceFailure = RecoveryTimeout]_vars

NothingSentWhileOpen ==
  state = "open" /\ sinceFailure < RecoveryTimeout =>
    \A c \in Calls : call'[c].phase = "inflight" => call[c].phase = "inflight"

\* While the circuit is OPEN and the timeout runs, no attempt, first or retried,
\* reaches the provider.
OpenShieldsProvider == [][NothingSentWhileOpen]_vars

\* Once the provider has recovered for good, the circuit is eventually CLOSED
\* for good, as long as somebody calls.
RecoversWithProvider == healed ~> [](state = "closed")

\* The pipeline and /kyc/verify build an adapter with a new breaker for every
\* request (app.py _create_*_adapter), so the attempts of one request are all a
\* breaker ever sees: it never opens when there are fewer than its threshold.
PerRequestBreakerStaysClosed == state = "closed"
=============================================================================
