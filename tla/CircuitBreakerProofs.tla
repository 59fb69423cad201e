------------------------ MODULE CircuitBreakerProofs ------------------------
(***************************************************************************)
(* Proofs about CircuitBreaker, for any number of concurrent calls and any *)
(* settings of the breaker.                                                *)
(***************************************************************************)
EXTENDS CircuitBreaker, TLAPS

\* The limits are inductive over the types of the counters.
BInv == TypeOK /\ CountersBelowLimits

LEMMA InitBInv == Init => BInv
<1> SUFFICES ASSUME Init PROVE BInv
  OBVIOUS
<1>1. Idle \in CallPoint
  BY DEF Idle, CallPoint, CircuitState
<1>2. call \in [Calls -> CallPoint]
  BY <1>1 DEF Init
<1>3. sinceFailure \in 0 .. RecoveryTimeout
  BY BreakerAssumption DEF Init
<1>4. TypeOK
  BY <1>2, <1>3 DEF Init, TypeOK, CircuitState
<1>5. CountersBelowLimits
  BY BreakerAssumption DEF Init, CountersBelowLimits
<1>6. QED
  BY <1>4, <1>5 DEF BInv

LEMMA FinishedType == Finished \in CallPoint /\ Finished.phase \in {"idle", "done"}
  BY DEF Finished, Idle, CallPoint, CircuitState

LEMMA AdmitKeepsBInv ==
  ASSUME BInv, NEW c \in Calls, NEW n \in Nat, Admit(c, n)
  PROVE  BInv'
<1>1. CurrentState \in CircuitState
  BY DEF CurrentState, BInv, TypeOK, CircuitState
<1>2. [phase |-> "inflight", attempt |-> n, admitted |-> CurrentState] \in CallPoint
  BY <1>1 DEF CallPoint
<1>3. call' \in [Calls -> CallPoint]
  BY <1>2, FinishedType DEF Admit, BInv, TypeOK
<1>4. TypeOK'
  BY <1>1, <1>3 DEF Admit, BInv, TypeOK
<1>5. CountersBelowLimits'
  BY BreakerAssumption DEF Admit, CurrentState, BInv, TypeOK, CountersBelowLimits, CircuitState
<1>6. QED
  BY <1>4, <1>5 DEF BInv

LEMMA ResultKeepsBInv ==
  ASSUME BInv, NEW c \in Calls, Succeed(c) \/ FailCall(c)
  PROVE  BInv'
<1>1. CASE Succeed(c)
  <2>1. call' \in [Calls -> CallPoint]
    BY <1>1, FinishedType DEF Succeed, BInv, TypeOK
  <2>2. CASE state = "half_open" /\ halfOpenCalls + 1 >= HalfOpenMaxCalls
             /\ state' = "closed" /\ failureCount' = 0 /\ halfOpenCalls' = 0
    BY <1>1, <2>1, <2>2, BreakerAssumption
       DEF Succeed, BInv, TypeOK, CountersBelowLimits, CircuitState
  <2>3. CASE state = "half_open" /\ halfOpenCalls + 1 < HalfOpenMaxCalls
             /\ halfOpenCalls' = halfOpenCalls + 1 /\ UNCHANGED <<state, failureCount>>
    BY <1>1, <2>1, <2>3, BreakerAssumption
       DEF Succeed, BInv, TypeOK, CountersBelowLimits, CircuitState
  <2>4. CASE state # "half_open"
             /\ failureCount' = (IF failureCount > 0 THEN failureCount - 1 ELSE 0)
             /\ UNCHANGED <<state, halfOpenCalls>>
    BY <1>1, <2>1, <2>4, BreakerAssumption
       DEF Succeed, BInv, TypeOK, CountersBelowLimits, CircuitState
  <2>5. QED
    BY <1>1, <2>2, <2>3, <2>4 DEF Succeed, OnSuccess
<1>2. CASE FailCall(c)
  <2>1. [call[c] EXCEPT !.phase = "backoff"] \in CallPoint
    BY DEF BInv, TypeOK, CallPoint
  <2>2. call' \in [Calls -> CallPoint]
    BY <1>2, <2>1, FinishedType DEF FailCall, BInv, TypeOK
  <2>3. TypeOK'
    BY <1>2, <2>2, BreakerAssumption DEF FailCall, OnFailure, BInv, TypeOK, CircuitState
  <2>4. CountersBelowLimits'
    BY <1>2, BreakerAssumption
       DEF FailCall, OnFailure, BInv, TypeOK, CountersBelowLimits, CircuitState
  <2>5. QED
    BY <2>3, <2>4 DEF BInv
<1>3. QED
  BY <1>1, <1>2

LEMMA NextKeepsBInv == BInv /\ [Next]_vars => BInv'
<1>1. ASSUME BInv, NEW c \in Calls, Begin(c)
      PROVE  BInv'
  BY <1>1, AdmitKeepsBInv DEF Begin
<1>2. ASSUME BInv, NEW c \in Calls, Retry(c)
      PROVE  BInv'
  <2>1. call[c].attempt + 1 \in Nat
    BY <1>2 DEF BInv, TypeOK, CallPoint
  <2>2. QED
    BY <1>2, <2>1, AdmitKeepsBInv DEF Retry
<1>3. ASSUME BInv, Tick
      PROVE  BInv'
  BY <1>3, BreakerAssumption DEF Tick, BInv, TypeOK, CountersBelowLimits
<1>4. ASSUME BInv, Heal \/ UNCHANGED vars
      PROVE  BInv'
  BY <1>4 DEF Heal, vars, BInv, TypeOK, CountersBelowLimits
<1>5. QED
  BY <1>1, <1>2, <1>3, <1>4, ResultKeepsBInv DEF Next

\* The variables keep their types.
THEOREM BreakerTypes == Spec => []TypeOK
<1>1. BInv => TypeOK
  BY DEF BInv
<1>2. QED
  BY <1>1, InitBInv, NextKeepsBInv, PTL DEF Spec

\* However late results interleave with state changes, a CLOSED breaker has
\* counted fewer failures than its threshold, a HALF_OPEN one fewer successes
\* than it needs to close.
THEOREM CountersBelowLimitsTheorem == Spec => []CountersBelowLimits
<1>1. BInv => CountersBelowLimits
  BY DEF BInv
<1>2. QED
  BY <1>1, InitBInv, NextKeepsBInv, PTL DEF Spec

\* A circuit that is OPEN is left for HALF_OPEN only, and only after a full
\* recovery timeout without a failure.
THEOREM OpenLeftByProbingTheorem == Spec => OpenLeftByProbing
<1>1. ASSUME BInv, [Next]_vars, state = "open", state' # "open"
      PROVE  state' = "half_open" /\ sinceFailure = RecoveryTimeout
  <2>1. ASSUME NEW c \in Calls, NEW n, Admit(c, n)
        PROVE  state' = "half_open" /\ sinceFailure = RecoveryTimeout
    BY <1>1, <2>1 DEF Admit, CurrentState
  <2>2. ASSUME NEW c \in Calls, Succeed(c) \/ FailCall(c)
        PROVE  FALSE
    BY <1>1, <2>2 DEF Succeed, FailCall, OnSuccess, OnFailure
  <2>3. QED
    BY <1>1, <2>1, <2>2 DEF Next, vars, Begin, Retry, Tick, Heal
<1>2. BInv /\ [Next]_vars => [state = "open" /\ state' # "open" =>
                                state' = "half_open" /\ sinceFailure = RecoveryTimeout]_vars
  BY <1>1
<1>3. QED
  BY <1>2, InitBInv, NextKeepsBInv, PTL DEF Spec, OpenLeftByProbing

\* While the circuit is OPEN and the timeout runs, no attempt is sent.
THEOREM OpenShieldsProviderTheorem == Spec => OpenShieldsProvider
<1>1. ASSUME BInv, [Next]_vars, state = "open", sinceFailure < RecoveryTimeout, NEW d \in Calls,
             call'[d].phase = "inflight"
      PROVE  call[d].phase = "inflight"
  <2>1. ASSUME NEW c \in Calls, NEW n, Admit(c, n)
        PROVE  call[d].phase = "inflight"
    <3>1. CurrentState = "open"
      BY <1>1, BreakerAssumption DEF CurrentState, BInv, TypeOK
    <3>2. call' = [call EXCEPT ![c] = Finished]
      BY <2>1, <3>1 DEF Admit
    <3>3. QED
      BY <1>1, <3>2, FinishedType DEF BInv, TypeOK
  <2>2. ASSUME NEW c \in Calls, Succeed(c)
        PROVE  call[d].phase = "inflight"
    BY <1>1, <2>2, FinishedType DEF Succeed, BInv, TypeOK
  <2>3. ASSUME NEW c \in Calls, FailCall(c)
        PROVE  call[d].phase = "inflight"
    BY <1>1, <2>3 DEF FailCall, BInv, TypeOK
  <2>4. QED
    BY <1>1, <2>1, <2>2, <2>3 DEF Next, vars, Begin, Retry, Tick, Heal
<1>2. BInv /\ [Next]_vars => [NothingSentWhileOpen]_vars
  BY <1>1 DEF NothingSentWhileOpen
<1>3. QED
  BY <1>2, InitBInv, NextKeepsBInv, PTL DEF Spec, OpenShieldsProvider

-----------------------------------------------------------------------------
(* The breaker of a single request *)

SingleRequest ==
  /\ OneShot
  /\ MaxRetries + 1 < FailureThreshold
  /\ \A c, d \in Calls : c = d

\* The failures the breaker has counted are the earlier attempts of its request.
RequestInv ==
  /\ BInv
  /\ state = "closed"
  /\ \A c \in Calls :
       /\ call[c].attempt <= MaxRetries
       /\ call[c].phase = "idle" => failureCount = 0
       /\ call[c].phase = "inflight" => failureCount <= call[c].attempt
       /\ call[c].phase = "backoff" =>
            call[c].attempt < MaxRetries /\ failureCount <= call[c].attempt + 1

LEMMA RequestAdmit ==
  ASSUME SingleRequest, RequestInv, NEW c \in Calls, NEW n \in Nat,
         n <= MaxRetries, failureCount <= n, Admit(c, n)
  PROVE  RequestInv'
<1>1. BInv'
  BY AdmitKeepsBInv DEF RequestInv
<1>2. CurrentState = "closed"
  BY DEF CurrentState, RequestInv
<1>3. /\ state' = "closed" /\ failureCount' = failureCount
      /\ call' = [call EXCEPT ![c] = [phase |-> "inflight", attempt |-> n, admitted |-> "closed"]]
  BY <1>2 DEF Admit
<1>4. call'[c].phase = "inflight" /\ call'[c].attempt = n
  BY <1>3 DEF RequestInv, BInv, TypeOK
<1>5. QED
  BY <1>1, <1>3, <1>4 DEF RequestInv, SingleRequest

LEMMA NextKeepsRequestInv ==
  ASSUME SingleRequest, RequestInv, [Next]_vars
  PROVE  RequestInv'
<1>1. BInv' /\ MaxRetries \in Nat /\ FailureThreshold \in Nat
  BY NextKeepsBInv, BreakerAssumption DEF RequestInv
<1>2. failureCount \in Nat /\ \A d \in Calls : call[d] \in CallPoint /\ call[d].attempt \in Nat
  BY DEF RequestInv, BInv, TypeOK, CallPoint
<1>3. ASSUME NEW c \in Calls, Begin(c)
      PROVE  RequestInv'
  BY <1>1, <1>2, <1>3, RequestAdmit DEF Begin, RequestInv
<1>4. ASSUME NEW c \in Calls, Retry(c)
      PROVE  RequestInv'
  BY <1>1, <1>2, <1>4, RequestAdmit DEF Retry, RequestInv
<1>5. ASSUME NEW c \in Calls, Succeed(c)
      PROVE  RequestInv'
  <2>1. state' = "closed" /\ call' = [call EXCEPT ![c] = Finished]
    BY <1>5 DEF Succeed, OnSuccess, RequestInv
  <2>2. Finished.phase = "done" /\ Finished.attempt = 0
    BY DEF Finished, Idle, SingleRequest
  <2>3. call'[c].phase = "done" /\ call'[c].attempt = 0
    BY <2>1, <2>2 DEF RequestInv, BInv, TypeOK
  <2>4. QED
    BY <1>1, <2>1, <2>3 DEF RequestInv, SingleRequest
<1>6. ASSUME NEW c \in Calls, FailCall(c)
      PROVE  RequestInv'
  <2>1. failureCount + 1 <= call[c].attempt + 1 /\ call[c].attempt <= MaxRetries
    BY <1>2, <1>6 DEF FailCall, RequestInv
  <2>2. failureCount' = failureCount + 1 /\ state' = "closed"
    BY <1>1, <1>2, <1>6, <2>1 DEF FailCall, OnFailure, RequestInv, SingleRequest
  <2>3. CASE call[c].attempt < MaxRetries
    <3>1. call' = [call EXCEPT ![c] = [call[c] EXCEPT !.phase = "backoff"]]
      BY <1>6, <2>3 DEF FailCall
    <3>2. call'[c].phase = "backoff" /\ call'[c].attempt = call[c].attempt
      BY <1>2, <3>1 DEF RequestInv, BInv, TypeOK, CallPoint
    <3>3. QED
      BY <1>1, <1>2, <2>1, <2>2, <2>3, <3>2 DEF RequestInv, SingleRequest
  <2>4. CASE ~ (call[c].attempt < MaxRetries)
    <3>1. call' = [call EXCEPT ![c] = Finished]
      BY <1>6, <2>4 DEF FailCall
    <3>2. call'[c].phase = "done" /\ call'[c].attempt = 0
      BY <3>1 DEF Finished, Idle, SingleRequest, RequestInv, BInv, TypeOK
    <3>3. QED
      BY <1>1, <2>2, <3>2 DEF RequestInv, SingleRequest
  <2>5. QED
    BY <2>3, <2>4
<1>7. CASE Tick \/ Heal \/ UNCHANGED vars
  BY <1>1, <1>7 DEF Tick, Heal, vars, RequestInv
<1>8. QED
  BY <1>3, <1>4, <1>5, <1>6, <1>7 DEF Next

\* A breaker that serves one request, retried fewer times than its threshold,
\* never opens: built per request, it cannot protect a failing provider.
THEOREM PerRequestBreakerTheorem ==
  ASSUME SingleRequest
  PROVE  Spec => []PerRequestBreakerStaysClosed
<1>1. Init => RequestInv
  <2> SUFFICES ASSUME Init PROVE RequestInv
    OBVIOUS
  <2>1. \A c \in Calls : call[c].phase = "idle" /\ call[c].attempt = 0
    BY DEF Init, Idle
  <2>2. QED
    BY <2>1, InitBInv, BreakerAssumption DEF Init, RequestInv
<1>2. RequestInv /\ [Next]_vars => RequestInv'
  BY NextKeepsRequestInv
<1>3. RequestInv => PerRequestBreakerStaysClosed
  BY DEF RequestInv, PerRequestBreakerStaysClosed
<1>4. QED
  BY <1>1, <1>2, <1>3, PTL DEF Spec
=============================================================================
