------------------------ MODULE CircuitBreakerProofs ------------------------
(* The breaker for any number of callers and attempts, any threshold and    *)
(* any open period that outlasts a call.                                    *)
EXTENDS CircuitBreaker, FiniteSetTheorems, TLAPS

Calls == [attempt : 0 .. MaxAttempts, left : 0 .. AttemptTime, probe : BOOLEAN]

\* The longest a call can still take.
Rest(m) == m.left + (MaxAttempts - m.attempt) * AttemptTime

RunningIsCounted == \A c \in Running : call[c].attempt >= 1

\* Whatever was running when the breaker opened is over before the open period is.
OpenOutlastsRunning == state = "open" => \A c \in Running : Rest(call[c]) < openLeft

\* Half open, the breaker has admitted a probe, and nobody else is running.
HalfOpenIsTheProbe ==
  state = "half_open" =>
    /\ halfOpenInFlight
    /\ \A c \in Running : call[c].probe
    /\ \A c, d \in Running : c = d

IInv == ClosedBelowThreshold /\ RunningIsCounted /\ OpenOutlastsRunning /\ HalfOpenIsTheProbe

-----------------------------------------------------------------------------
(* The time a call has left *)

LEMMA RestOfNewCall ==
  ASSUME NEW m \in Calls, m.attempt >= 1
  PROVE  /\ Rest(m) \in Nat
         /\ Rest(m) < OpenTimeout
<1>1. /\ MaxAttempts \in Nat /\ AttemptTime \in Nat /\ OpenTimeout \in Nat
      /\ MaxAttempts * AttemptTime < OpenTimeout
  BY BreakerAssumption, OpenOutlastsCall
<1>2. m.attempt \in 1 .. MaxAttempts /\ m.left \in 0 .. AttemptTime
  BY DEF Calls
<1>3. ASSUME NEW k \in 1 .. MaxAttempts, NEW l \in 0 .. AttemptTime
      PROVE  /\ l + (MaxAttempts - k) * AttemptTime \in Nat
             /\ l + (MaxAttempts - k) * AttemptTime <= MaxAttempts * AttemptTime
  <2> DEFINE d == MaxAttempts - k
  <2>1. d \in Nat /\ MaxAttempts = d + k /\ k \in Nat /\ k >= 1
    BY <1>1
  <2>2. MaxAttempts * AttemptTime = d * AttemptTime + k * AttemptTime
    BY <1>1, <2>1
  <2>3. k * AttemptTime = AttemptTime + (k - 1) * AttemptTime
    BY <1>1, <2>1
  <2>4. /\ d * AttemptTime \in Nat /\ (k - 1) * AttemptTime \in Nat
    <3>1. k - 1 \in Nat
      BY <2>1
    <3>2. ASSUME NEW x \in Nat, NEW y \in Nat PROVE x * y \in Nat
      OBVIOUS
    <3> QED BY <1>1, <2>1, <3>1, <3>2
  <2>5. l + d * AttemptTime \in Nat /\ l + d * AttemptTime <= MaxAttempts * AttemptTime
    <3> HIDE DEF d
    <3>1. ASSUME NEW x \in Nat, NEW y \in Nat, NEW z \in Nat, NEW t \in Nat, z = x + (AttemptTime + y)
          PROVE  l + x \in Nat /\ l + x <= z
      BY <1>1, <3>1
    <3> QED BY <1>1, <2>2, <2>3, <2>4, <3>1
  <2> QED BY <2>5
<1>4. Rest(m) \in Nat /\ Rest(m) <= MaxAttempts * AttemptTime
  BY <1>2, <1>3 DEF Rest
<1> QED BY <1>1, <1>4

\* A retry does not lengthen what its call can take.
LEMMA RestAfterRetry ==
  ASSUME NEW m \in Calls, m.attempt < MaxAttempts, m.attempt >= 1,
         NEW n \in Calls, n.attempt = m.attempt + 1, n.left = AttemptTime
  PROVE  Rest(n) <= Rest(m)
<1>1. /\ MaxAttempts \in Nat /\ AttemptTime \in Nat
      /\ m.attempt \in Nat /\ m.left \in Nat
  BY BreakerAssumption DEF Calls
<1>2. ASSUME NEW a \in Nat
      PROVE  (MaxAttempts - a) * AttemptTime
               = AttemptTime + (MaxAttempts - (a + 1)) * AttemptTime
  <2>1. MaxAttempts - a = 1 + (MaxAttempts - (a + 1))
    BY <1>1
  <2>2. ASSUME NEW x \in Int, NEW y \in Int PROVE (1 + x) * y = y + x * y
    OBVIOUS
  <2> QED BY <1>1, <2>1, <2>2
<1>3. ASSUME NEW x \in Int, NEW y \in Int, NEW l \in Nat, y = AttemptTime + x
      PROVE  AttemptTime + x <= l + y
  BY <1>1, <1>3
<1>4. /\ (MaxAttempts - m.attempt) * AttemptTime \in Int
      /\ (MaxAttempts - (m.attempt + 1)) * AttemptTime \in Int
  <2>1. ASSUME NEW x \in Int, NEW y \in Int PROVE x * y \in Int
    OBVIOUS
  <2>2. MaxAttempts - m.attempt \in Int /\ MaxAttempts - (m.attempt + 1) \in Int
    BY <1>1
  <2> QED BY <1>1, <2>1, <2>2
<1> QED BY <1>1, <1>2, <1>3, <1>4 DEF Rest

-----------------------------------------------------------------------------
(* How the steps change the calls *)

LEMMA CallStarts ==
  ASSUME TypeOK, NEW c \in Caller, NEW p \in BOOLEAN, call[c] = NoCall,
         call' = [call EXCEPT ![c] = NewCall(p)]
  PROVE  /\ call' \in [Caller -> Calls]
         /\ Running' = Running \union {c}
         /\ call'[c].attempt = 1 /\ call'[c].probe = p
         /\ \A d \in Caller \ {c} : call'[d] = call[d]
<1>1. call \in [Caller -> Calls]
  BY DEF TypeOK, Calls
<1>2. NewCall(p) \in Calls /\ NewCall(p) # NoCall
  BY BreakerAssumption DEF NewCall, NoCall, Calls
<1>3. /\ call' \in [Caller -> Calls] /\ call'[c] = NewCall(p)
      /\ \A d \in Caller \ {c} : call'[d] = call[d]
  BY <1>1, <1>2
<1>4. Running' = Running \union {c}
  BY <1>2, <1>3 DEF Running
<1>5. NewCall(p).attempt = 1 /\ NewCall(p).probe = p
  BY DEF NewCall
<1> QED BY <1>3, <1>4, <1>5

LEMMA CallEnds ==
  ASSUME TypeOK, NEW c \in Caller, Done(c)
  PROVE  /\ c \in Running
         /\ call' \in [Caller -> Calls]
         /\ Running' = Running \ {c}
         /\ \A d \in Running' : call'[d] = call[d]
<1>1. call \in [Caller -> Calls]
  BY DEF TypeOK, Calls
<1>2. NoCall \in Calls
  BY BreakerAssumption DEF NoCall, Calls
<1>3. /\ call' \in [Caller -> Calls] /\ call'[c] = NoCall
      /\ \A d \in Caller \ {c} : call'[d] = call[d]
  BY <1>1, <1>2 DEF Done
<1> QED BY <1>3 DEF Running, Done

LEMMA CallRetries ==
  ASSUME TypeOK, RunningIsCounted, NEW c \in Caller, Retry(c)
  PROVE  /\ c \in Running
         /\ call' \in [Caller -> Calls]
         /\ Running' = Running
         /\ call'[c].attempt = call[c].attempt + 1 /\ call'[c].left = AttemptTime
         /\ call'[c].probe = call[c].probe
         /\ \A d \in Caller \ {c} : call'[d] = call[d]
<1>1. call \in [Caller -> Calls] /\ c \in Running /\ call[c].attempt >= 1
  BY DEF TypeOK, Calls, Retry, RunningIsCounted
<1> DEFINE m == [attempt |-> call[c].attempt + 1, left |-> AttemptTime, probe |-> call[c].probe]
<1>2. m \in Calls
  BY <1>1, BreakerAssumption DEF Calls, Retry
<1>3. [[call[c] EXCEPT !.attempt = call[c].attempt + 1] EXCEPT !.left = AttemptTime] = m
  <2>1. [call[c] EXCEPT !.attempt = call[c].attempt + 1]
          = [attempt |-> call[c].attempt + 1, left |-> call[c].left, probe |-> call[c].probe]
    BY <1>1 DEF Calls
  <2>2. ASSUME NEW x, NEW y, NEW z, NEW w, NEW v, v = [attempt |-> x, left |-> y, probe |-> z]
        PROVE  [v EXCEPT !.left = w] = [attempt |-> x, left |-> w, probe |-> z]
    BY <2>2
  <2> DEFINE v == [call[c] EXCEPT !.attempt = call[c].attempt + 1]
  <2>3. v = [attempt |-> call[c].attempt + 1, left |-> call[c].left, probe |-> call[c].probe]
    BY <2>1
  <2> HIDE DEF v
  <2>4. [v EXCEPT !.left = AttemptTime] = m
    BY <2>2, <2>3
  <2> QED BY <2>4 DEF v
<1>4. call' = [call EXCEPT ![c] = m]
  BY <1>1, <1>3 DEF Retry
<1>5. m # NoCall
  BY <1>1 DEF NoCall, Calls
<1>6. call'[c] = m /\ \A d \in Caller \ {c} : call'[d] = call[d]
  BY <1>1, <1>4
<1>7. Running' = Running
  BY <1>1, <1>5, <1>6 DEF Running
<1> QED BY <1>1, <1>2, <1>4, <1>6, <1>7

LEMMA CallsAge ==
  ASSUME TypeOK, RunningIsCounted, Tick
  PROVE  /\ call' \in [Caller -> Calls]
         /\ Running' = Running
         /\ \A c \in Running : /\ call'[c].attempt = call[c].attempt
                               /\ call'[c].probe = call[c].probe
                               /\ call[c].left > 0 /\ call'[c].left = call[c].left - 1
<1>1. call \in [Caller -> Calls] /\ NoCall \in Calls
  BY BreakerAssumption DEF TypeOK, Calls, NoCall
<1>2. ASSUME NEW c \in Running
      PROVE  /\ call'[c] \in Calls /\ call'[c] # NoCall
             /\ call'[c].attempt = call[c].attempt /\ call'[c].probe = call[c].probe
             /\ call[c].left > 0 /\ call'[c].left = call[c].left - 1
  <2>1. c \in Caller /\ call[c] \in Calls /\ call[c].attempt >= 1 /\ call[c].left > 0
    BY <1>1 DEF Running, RunningIsCounted, Tick
  <2>2. call'[c] = [call[c] EXCEPT !.left = call[c].left - 1]
    BY <2>1 DEF Tick
  <2>3. /\ call'[c].attempt = call[c].attempt /\ call'[c].probe = call[c].probe
        /\ call'[c].left = call[c].left - 1
        /\ call'[c] \in Calls
    BY <2>1, <2>2, BreakerAssumption DEF Calls
  <2>4. call'[c] # NoCall
    BY <2>1, <2>3 DEF NoCall
  <2> QED BY <2>1, <2>3, <2>4
<1>3. \A c \in Caller \ Running : call'[c] = NoCall
  BY DEF Tick
<1>4. call' \in [Caller -> Calls]
  BY <1>1, <1>2, <1>3 DEF Tick
<1>5. Running' = Running
  BY <1>2, <1>3 DEF Running
<1> QED BY <1>2, <1>4, <1>5

-----------------------------------------------------------------------------
(* Whenever the breaker opens, its open period is the longer one. *)

LEMMA OpenedInTime ==
  ASSUME TypeOK, RunningIsCounted, NEW c \in Caller, Done(c), Open
  PROVE  OpenOutlastsRunning'
<1>1. SUFFICES ASSUME NEW d \in Running' PROVE Rest(call'[d]) < openLeft'
  BY DEF OpenOutlastsRunning
<1>2. d \in Running /\ call'[d] = call[d]
  BY <1>1, CallEnds
<1>3. call[d] \in Calls /\ call[d].attempt >= 1
  BY <1>2 DEF TypeOK, Calls, Running, RunningIsCounted
<1> QED BY <1>2, <1>3, RestOfNewCall DEF Open

\* A call that ends and leaves the breaker's state alone keeps it in order.
LEMMA EndKeepsOrder ==
  ASSUME IInv, NEW c \in Caller, Done(c), UNCHANGED <<state, halfOpenInFlight, openLeft>>
  PROVE  RunningIsCounted' /\ OpenOutlastsRunning' /\ HalfOpenIsTheProbe'
<1>1. TypeOK
  BY DEF IInv, ClosedBelowThreshold
<1>2. \A d \in Running' : d \in Running /\ call'[d] = call[d]
  BY <1>1, CallEnds
<1>3. RunningIsCounted'
  BY <1>2 DEF IInv, RunningIsCounted
<1>4. OpenOutlastsRunning'
  BY <1>2 DEF IInv, OpenOutlastsRunning
<1>5. HalfOpenIsTheProbe'
  BY <1>2 DEF IInv, HalfOpenIsTheProbe
<1> QED BY <1>3, <1>4, <1>5

-----------------------------------------------------------------------------
\* Each of Allow, OnSuccess, OnFailure, a retry and a tick of the clock keeps the
\* breaker and the calls it has admitted in step.
THEOREM Inductive == Spec => []IInv
<1>1. Init => IInv
  <2> SUFFICES ASSUME Init PROVE IInv
    OBVIOUS
  <2>1. Running = {}
    BY DEF Init, Running
  <2>2. TypeOK /\ ClosedBelowThreshold
    <3>1. NoCall \in Calls
      BY BreakerAssumption DEF NoCall, Calls
    <3>2. call \in [Caller -> Calls]
      BY <3>1 DEF Init
    <3>3. 0 \in 0 .. FailureThreshold /\ 0 < FailureThreshold /\ 0 \in 0 .. OpenTimeout
      BY BreakerAssumption
    <3> QED BY <3>2, <3>3 DEF Init, TypeOK, ClosedBelowThreshold, Calls
  <2> QED BY <2>1, <2>2 DEF IInv, RunningIsCounted, OpenOutlastsRunning, HalfOpenIsTheProbe, Init
<1>2. IInv /\ [Next]_vars => IInv'
  <2> SUFFICES ASSUME IInv, [Next]_vars PROVE IInv'
    OBVIOUS
  <2>1. /\ TypeOK /\ RunningIsCounted
        /\ state = "closed" => failureCount < FailureThreshold
    BY DEF IInv, ClosedBelowThreshold
  <2>2. ASSUME NEW c \in Caller, AllowClosed(c) PROVE IInv'
    <3>1. /\ call' \in [Caller -> Calls]
          /\ Running' = Running \union {c}
          /\ call'[c].attempt = 1
          /\ \A d \in Caller \ {c} : call'[d] = call[d]
      BY <2>1, <2>2, CallStarts DEF AllowClosed
    <3>2. ClosedBelowThreshold'
      BY <2>1, <2>2, <3>1 DEF AllowClosed, breaker, ClosedBelowThreshold, TypeOK, Calls
    <3>3. RunningIsCounted'
      BY <2>1, <3>1 DEF RunningIsCounted, Running
    <3> QED BY <2>2, <3>2, <3>3
        DEF AllowClosed, breaker, IInv, OpenOutlastsRunning, HalfOpenIsTheProbe
  <2>3. ASSUME NEW c \in Caller, AllowProbe(c) PROVE IInv'
    <3>1. /\ call' \in [Caller -> Calls]
          /\ Running' = Running \union {c}
          /\ call'[c].attempt = 1 /\ call'[c].probe
          /\ \A d \in Caller \ {c} : call'[d] = call[d]
      BY <2>1, <2>3, CallStarts DEF AllowProbe
    <3>2. Running = {}
      <4>1. state = "open" /\ openLeft = 0
        BY <2>3 DEF AllowProbe, MayProbe, IInv, HalfOpenIsTheProbe
      <4>2. ASSUME NEW d \in Running PROVE FALSE
        <5>1. call[d] \in Calls /\ call[d].attempt >= 1
          BY <2>1 DEF TypeOK, Calls, Running, RunningIsCounted
        <5>2. Rest(call[d]) \in Nat
          BY <5>1, RestOfNewCall
        <5> QED BY <4>1, <5>2 DEF IInv, OpenOutlastsRunning
      <4> QED BY <4>2
    <3>3. ClosedBelowThreshold'
      BY <2>1, <2>3, <3>1 DEF AllowProbe, ClosedBelowThreshold, TypeOK, Calls
    <3>4. RunningIsCounted' /\ OpenOutlastsRunning' /\ HalfOpenIsTheProbe'
      <4>1. Running' = {c} /\ call'[c].attempt >= 1 /\ call'[c].probe
        BY <3>1, <3>2
      <4>2. RunningIsCounted'
        BY <4>1 DEF RunningIsCounted
      <4> QED BY <2>3, <4>1, <4>2 DEF AllowProbe, OpenOutlastsRunning, HalfOpenIsTheProbe
    <3> QED BY <3>3, <3>4 DEF IInv
  <2>4. ASSUME NEW c \in Caller, Retry(c) PROVE IInv'
    <3>1. /\ c \in Running
          /\ call' \in [Caller -> Calls]
          /\ Running' = Running
          /\ call'[c].attempt = call[c].attempt + 1 /\ call'[c].left = AttemptTime
          /\ call'[c].probe = call[c].probe
          /\ \A d \in Caller \ {c} : call'[d] = call[d]
      BY <2>1, <2>4, CallRetries
    <3>2. ClosedBelowThreshold'
      BY <2>1, <2>4, <3>1 DEF Retry, breaker, ClosedBelowThreshold, TypeOK, Calls
    <3>3. RunningIsCounted'
      <4> SUFFICES ASSUME NEW d \in Running' PROVE call'[d].attempt >= 1
        BY DEF RunningIsCounted
      <4>1. CASE d = c
        BY <2>1, <3>1, <4>1 DEF RunningIsCounted, TypeOK
      <4>2. CASE d # c
        BY <2>1, <3>1, <4>2 DEF RunningIsCounted, Running
      <4> QED BY <4>1, <4>2
    <3>4. OpenOutlastsRunning'
      <4> SUFFICES ASSUME state = "open", NEW d \in Running PROVE Rest(call'[d]) < openLeft
        BY <2>4, <3>1 DEF Retry, breaker, OpenOutlastsRunning
      <4>1. /\ d \in Caller /\ call[d] \in Calls /\ call[d].attempt >= 1
            /\ call'[d] \in Calls /\ call'[d].attempt >= 1
        BY <2>1, <3>1, <3>3 DEF TypeOK, Calls, Running, RunningIsCounted
      <4>2. Rest(call'[d]) \in Nat /\ Rest(call[d]) \in Nat /\ openLeft \in Nat
        BY <2>1, <4>1, RestOfNewCall DEF TypeOK
      <4>3. Rest(call[d]) < openLeft
        BY DEF IInv, OpenOutlastsRunning
      <4>4. Rest(call'[d]) <= Rest(call[d])
        <5>1. CASE d = c
          BY <2>4, <3>1, <4>1, <5>1, RestAfterRetry DEF Retry
        <5>2. CASE d # c
          BY <3>1, <4>1, <4>2, <5>2
        <5> QED BY <5>1, <5>2
      <4> QED BY <4>2, <4>3, <4>4
    <3>5. HalfOpenIsTheProbe'
      BY <2>4, <3>1 DEF Retry, breaker, HalfOpenIsTheProbe, IInv, Running
    <3> QED BY <3>2, <3>3, <3>4, <3>5 DEF IInv
  <2>5. ASSUME NEW c \in Caller, OnSuccess(c) PROVE IInv'
    <3>1. /\ call' \in [Caller -> Calls]
          /\ \A d \in Running' : d \in Running /\ call'[d] = call[d]
      BY <2>1, <2>5, CallEnds DEF OnSuccess
    <3>2. ClosedBelowThreshold'
      <4>1. /\ failureCount' = 0 /\ openLeft' = openLeft /\ probeIgnored' \in BOOLEAN
            /\ state' \in {"closed", "open", "half_open"} /\ halfOpenInFlight' \in BOOLEAN
        BY <2>1, <2>5 DEF OnSuccess, TypeOK
      <4> QED BY <2>1, <3>1, <4>1, BreakerAssumption DEF ClosedBelowThreshold, TypeOK, Calls
    <3>3. CASE state = "half_open"
      <4>1. RunningIsCounted'
        BY <2>1, <3>1 DEF RunningIsCounted
      <4>2. state' = "closed"
        BY <2>5, <3>3 DEF OnSuccess
      <4> QED BY <3>2, <4>1, <4>2 DEF IInv, OpenOutlastsRunning, HalfOpenIsTheProbe
    <3>4. CASE state # "half_open"
      BY <2>5, <3>2, <3>4, EndKeepsOrder DEF OnSuccess, IInv
    <3> QED BY <3>3, <3>4
  <2>6. ASSUME NEW c \in Caller, OnFailure(c) PROVE IInv'
    <3>1. /\ call' \in [Caller -> Calls]
          /\ \A d \in Running' : d \in Running /\ call'[d] = call[d]
      BY <2>1, <2>6, CallEnds DEF OnFailure
    <3>2. ClosedBelowThreshold'
      <4>0. probeIgnored' \in BOOLEAN
        BY <2>1, <2>6 DEF OnFailure, TypeOK
      <4>1. CASE CountFailure
        BY <2>1, <3>1, <4>0, <4>1, BreakerAssumption DEF CountFailure, Open, ClosedBelowThreshold, TypeOK, Calls
      <4>2. CASE FailedProbe
        <5>1. state' = "open" /\ failureCount' = failureCount /\ openLeft' = OpenTimeout
              /\ halfOpenInFlight' = FALSE
          BY <4>2 DEF FailedProbe, Open
        <5>2. OpenTimeout \in 0 .. OpenTimeout
          BY BreakerAssumption
        <5> QED BY <2>1, <3>1, <4>0, <5>1, <5>2 DEF ClosedBelowThreshold, TypeOK, Calls
      <4>3. CASE LateFailure
        BY <2>1, <3>1, <4>0, <4>3 DEF LateFailure, breaker, ClosedBelowThreshold, TypeOK, Calls
      <4> QED BY <2>6, <4>1, <4>2, <4>3 DEF OnFailure
    <3>3. RunningIsCounted'
      BY <2>1, <3>1 DEF RunningIsCounted
    <3>4. CASE Open
      <4>1. OpenOutlastsRunning'
        BY <2>1, <2>6, <3>4, OpenedInTime DEF OnFailure
      <4> QED BY <3>2, <3>3, <3>4, <4>1 DEF IInv, Open, HalfOpenIsTheProbe
    <3>5. CASE UNCHANGED <<state, halfOpenInFlight, openLeft>>
      BY <2>6, <3>2, <3>5, EndKeepsOrder DEF OnFailure, IInv
    <3> QED BY <2>6, <3>4, <3>5 DEF OnFailure, CountFailure, FailedProbe, LateFailure, breaker
  <2>7. ASSUME NEW c \in Caller, OnOtherError(c) PROVE IInv'
    <3>1. call' \in [Caller -> Calls]
      BY <2>1, <2>7, CallEnds DEF OnOtherError
    <3>2. ClosedBelowThreshold'
      BY <2>1, <2>7, <3>1 DEF OnOtherError, breaker, ClosedBelowThreshold, TypeOK, Calls
    <3> QED BY <2>7, <3>2, EndKeepsOrder DEF OnOtherError, breaker, IInv
  <2>8. ASSUME Tick PROVE IInv'
    <3>1. /\ call' \in [Caller -> Calls]
          /\ Running' = Running
          /\ \A c \in Running : /\ call'[c].attempt = call[c].attempt
                                /\ call'[c].probe = call[c].probe
                                /\ call[c].left > 0 /\ call'[c].left = call[c].left - 1
      BY <2>1, <2>8, CallsAge
    <3>2. ClosedBelowThreshold'
      BY <2>1, <2>8, <3>1, BreakerAssumption DEF Tick, ClosedBelowThreshold, TypeOK, Calls
    <3>3. RunningIsCounted'
      BY <2>1, <3>1 DEF RunningIsCounted
    <3>4. OpenOutlastsRunning'
      <4> SUFFICES ASSUME state = "open", NEW c \in Running PROVE Rest(call'[c]) < openLeft'
        BY <2>8, <3>1 DEF Tick, OpenOutlastsRunning
      <4>1. /\ c \in Caller /\ call[c] \in Calls /\ call[c].attempt >= 1
        BY <2>1 DEF TypeOK, Calls, Running, RunningIsCounted
      <4>2. Rest(call[c]) \in Nat /\ Rest(call[c]) < openLeft
        BY <4>1, RestOfNewCall DEF IInv, OpenOutlastsRunning
      <4>3. Rest(call'[c]) = Rest(call[c]) - 1
        <5>1. call[c].left \in Int /\ (MaxAttempts - call[c].attempt) * AttemptTime \in Int
          <6>1. ASSUME NEW x \in Int, NEW y \in Int PROVE x * y \in Int
            OBVIOUS
          <6>2. MaxAttempts - call[c].attempt \in Int /\ AttemptTime \in Int
            BY <4>1, BreakerAssumption DEF Calls
          <6> QED BY <4>1, <6>1, <6>2 DEF Calls
        <5>2. ASSUME NEW x \in Int, NEW y \in Int PROVE (x - 1) + y = (x + y) - 1
          OBVIOUS
        <5> QED BY <3>1, <5>1, <5>2 DEF Rest
      <4>4. openLeft' = openLeft - 1 /\ openLeft \in Nat
        BY <2>1, <2>8, <4>2 DEF Tick, TypeOK
      <4> QED BY <4>2, <4>3, <4>4
    <3>5. HalfOpenIsTheProbe'
      BY <2>8, <3>1 DEF Tick, HalfOpenIsTheProbe, IInv
    <3> QED BY <3>2, <3>3, <3>4, <3>5 DEF IInv
  <2>9. CASE UNCHANGED vars
    BY <2>9 DEF vars, breaker, IInv, ClosedBelowThreshold, TypeOK, RunningIsCounted, Running,
                OpenOutlastsRunning, HalfOpenIsTheProbe
  <2> QED BY <2>2, <2>3, <2>4, <2>5, <2>6, <2>7, <2>8, <2>9 DEF Next, EndAttempt
<1> QED BY <1>1, <1>2, PTL DEF Spec

\* Whatever calls overlap, no failure is counted that should have opened the
\* breaker before (OnFailure); every variable has its type.
THEOREM ThresholdOpens == Spec => []ClosedBelowThreshold
<1>1. IInv => ClosedBelowThreshold
  BY DEF IInv
<1> QED BY <1>1, Inductive, PTL

\* Nothing but the probe runs while the breaker is half open: no late outcome of a
\* call of the closed period decides its state, because the open period outlasts
\* every call (OpenOutlastsCall).
THEOREM ProbeIsAlone == Spec => []OnlyTheProbe
<1>1. IInv => OnlyTheProbe
  <2> SUFFICES ASSUME IInv, state = "half_open"
               PROVE  Cardinality(Running) <= 1 /\ \A c \in Running : call[c].probe
    BY DEF OnlyTheProbe
  <2>1. /\ \A c \in Running : call[c].probe
        /\ \A c, d \in Running : c = d
    BY DEF IInv, HalfOpenIsTheProbe
  <2>2. CASE Running = {}
    BY <2>1, <2>2, FS_EmptySet
  <2>3. CASE Running # {}
    <3>1. PICK p : Running = {p}
      BY <2>1, <2>3
    <3>2. Cardinality({p}) = 1
      BY FS_Singleton
    <3> QED BY <2>1, <3>1, <3>2
  <2> QED BY <2>2, <2>3
<1> QED BY <1>1, Inductive, PTL

-----------------------------------------------------------------------------
\* A probe runs only while the breaker is half open, and the breaker is half open
\* without one exactly when one has ended with an error OnFailure ignores.
Waits ==
  /\ \A c \in Running : call[c].probe => state = "half_open"
  /\ state = "half_open" /\ Running = {} => probeIgnored
  /\ probeIgnored => state = "half_open" /\ Running = {}

\* Whatever errors the calls may end with, a half-open breaker waits for a probe
\* that is running; only one whose end OnFailure ignores leaves it waiting for
\* nobody, and then for good.
THEOREM ProbeIsAwaited == Spec => []ProbeDecides
<1>1. Init => Waits
  BY DEF Init, Waits, Running
<1>2. IInv /\ Waits /\ [Next]_vars => Waits'
  <2> SUFFICES ASSUME IInv, Waits, [Next]_vars PROVE Waits'
    OBVIOUS
  <2>1. TypeOK /\ RunningIsCounted
    BY DEF IInv, ClosedBelowThreshold
  <2>2. ASSUME NEW c \in Caller, AllowClosed(c) PROVE Waits'
    <3>1. /\ Running' = Running \union {c} /\ ~call'[c].probe
          /\ \A d \in Caller \ {c} : call'[d] = call[d]
      BY <2>1, <2>2, CallStarts DEF AllowClosed
    <3>2. UNCHANGED <<state, probeIgnored>> /\ state = "closed"
      BY <2>2 DEF AllowClosed, breaker
    <3> QED BY <3>1, <3>2 DEF Waits, Running
  <2>3. ASSUME NEW c \in Caller, AllowProbe(c) PROVE Waits'
    <3>1. Running' = Running \union {c}
      BY <2>1, <2>3, CallStarts DEF AllowProbe
    <3>2. state = "open" /\ state' = "half_open" /\ UNCHANGED probeIgnored
      BY <2>3 DEF AllowProbe, MayProbe, IInv, HalfOpenIsTheProbe
    <3> QED BY <3>1, <3>2 DEF Waits
  <2>4. ASSUME NEW c \in Caller, Retry(c) PROVE Waits'
    <3>1. /\ c \in Running /\ Running' = Running
          /\ call'[c].probe = call[c].probe
          /\ \A d \in Caller \ {c} : call'[d] = call[d]
      BY <2>1, <2>4, CallRetries
    <3>2. UNCHANGED <<state, probeIgnored>>
      BY <2>4 DEF Retry, breaker
    <3> QED BY <3>1, <3>2 DEF Waits, Running
  <2>5. ASSUME NEW c \in Caller, Done(c)
        PROVE  /\ c \in Running /\ Running' = Running \ {c}
               /\ \A d \in Running' : d \in Running /\ call'[d] = call[d]
               /\ ~probeIgnored
               /\ state = "half_open" => call[c].probe /\ Running' = {}
    <3>1. /\ c \in Running /\ Running' = Running \ {c}
          /\ \A d \in Running' : d \in Running /\ call'[d] = call[d]
      BY <2>1, <2>5, CallEnds
    <3>2. state = "half_open" => call[c].probe /\ \A d \in Running : d = c
      BY <3>1 DEF IInv, HalfOpenIsTheProbe
    <3> QED BY <3>1, <3>2 DEF Waits
  <2>6. ASSUME NEW c \in Caller, OnSuccess(c) \/ OnFailure(c) PROVE Waits'
    <3>1. Done(c) /\ UNCHANGED probeIgnored
      BY <2>6 DEF OnSuccess, OnFailure
    <3>2. CASE state = "half_open"
      <4>1. state' # "half_open"
        BY <2>6, <3>2 DEF OnSuccess, OnFailure, CountFailure, FailedProbe, LateFailure, Open
      <4> QED BY <2>5, <3>1, <3>2, <4>1 DEF Waits
    <3>3. CASE state # "half_open"
      <4>1. state' # "half_open"
        BY <2>6, <3>3
        DEF OnSuccess, OnFailure, CountFailure, FailedProbe, LateFailure, Open, breaker
      <4>2. \A d \in Running' : ~call'[d].probe
        BY <2>5, <3>1, <3>3 DEF Waits
      <4> QED BY <2>5, <3>1, <4>1, <4>2 DEF Waits
    <3> QED BY <3>2, <3>3
  <2>7. ASSUME NEW c \in Caller, OnOtherError(c) PROVE Waits'
    <3>1. Done(c) /\ UNCHANGED state /\ probeIgnored' = (probeIgnored \/ call[c].probe)
      BY <2>7 DEF OnOtherError, breaker
    <3>2. call[c].probe => state = "half_open" /\ Running' = {}
      BY <2>5, <3>1 DEF Waits
    <3> QED BY <2>5, <3>1, <3>2 DEF Waits
  <2>8. ASSUME Tick PROVE Waits'
    <3>1. Running' = Running /\ \A c \in Running : call'[c].probe = call[c].probe
      BY <2>1, <2>8, CallsAge
    <3> QED BY <2>8, <3>1 DEF Tick, Waits
  <2>9. CASE UNCHANGED vars
    BY <2>9 DEF vars, breaker, Waits, Running
  <2> QED BY <2>2, <2>3, <2>4, <2>6, <2>7, <2>8, <2>9 DEF Next, EndAttempt
<1>3. IInv /\ Waits => ProbeDecides
  BY DEF IInv, HalfOpenIsTheProbe, Waits, ProbeDecides
<1>4. Spec => []Waits
  BY <1>1, <1>2, Inductive, PTL DEF Spec
<1> QED BY <1>3, <1>4, Inductive, PTL
=============================================================================
