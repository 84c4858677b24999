--------------------------- MODULE CircuitBreaker ---------------------------
(***************************************************************************)
(* internal/grpcclient of booking_service: the circuit breaker shared by   *)
(* all requests, and callWithRetry, which asks it once per call, tries the *)
(* call up to MaxAttempts times and reports the outcome once.  The mutex   *)
(* makes each of Allow, OnSuccess and OnFailure one step.                  *)
(*                                                                         *)
(* Time passes in ticks, the same for every timer.  A rejected call (Allow *)
(* returns false) changes nothing and is not an action.                    *)
(***************************************************************************)
EXTENDS Naturals, FiniteSets

CONSTANTS
  Caller,            \* request goroutines
  FailureThreshold,  \* CB_FAILURE_THRESHOLD
  OpenTimeout,       \* CB_OPEN_SECONDS, in ticks
  MaxAttempts,       \* attempts of callWithRetry (3)
  AttemptTime,       \* longest attempt with the backoff after it, in ticks
  OtherErrors        \* the calls, "ordinary" or "probe", that may end with a status
                     \* isBreakerError ignores

ASSUME BreakerAssumption ==
  /\ FailureThreshold \in Nat \ {0}
  /\ OpenTimeout \in Nat \ {0}
  /\ MaxAttempts \in Nat \ {0}
  /\ AttemptTime \in Nat \ {0}
  /\ OtherErrors \subseteq {"ordinary", "probe"}

\* The deployed values keep this: 20s against 3 attempts of 3s and 0.3s of backoff.
ASSUME OpenOutlastsCall == OpenTimeout > MaxAttempts * AttemptTime

VARIABLES
  state,             \* "closed", "open" or "half_open"
  failureCount,
  halfOpenInFlight,
  openLeft,          \* ticks until openUntil
  call,              \* the call each goroutine is making
  probeIgnored       \* history: a probe has ended with a status isBreakerError ignores

breaker == <<state, failureCount, halfOpenInFlight, openLeft>>
vars == <<breaker, call, probeIgnored>>

\* attempt 0 is no call; `probe` remembers that Allow let it through as the probe.
NoCall == [attempt |-> 0, left |-> 0, probe |-> FALSE]
NewCall(probe) == [attempt |-> 1, left |-> AttemptTime, probe |-> probe]
Running == {c \in Caller : call[c] # NoCall}

Init ==
  /\ state = "closed"
  /\ failureCount = 0
  /\ halfOpenInFlight = FALSE
  /\ openLeft = 0
  /\ call = [c \in Caller |-> NoCall]
  /\ probeIgnored = FALSE

-----------------------------------------------------------------------------
(* Allow *)

\* The open period is over (Allow then moves to half_open), or half_open is idle.
MayProbe ==
  \/ state = "open" /\ openLeft = 0
  \/ state = "half_open" /\ ~halfOpenInFlight

AllowClosed(c) ==
  /\ call[c] = NoCall
  /\ state = "closed"
  /\ call' = [call EXCEPT ![c] = NewCall(FALSE)]
  /\ UNCHANGED <<breaker, probeIgnored>>

\* Mutant of AllowProbe: the probe is let through but not recorded.
AllowProbes(c) ==
  /\ call[c] = NoCall
  /\ MayProbe
  /\ state' = "half_open"
  /\ call' = [call EXCEPT ![c] = NewCall(TRUE)]
  /\ UNCHANGED <<failureCount, halfOpenInFlight, openLeft, probeIgnored>>

AllowProbe(c) ==
  /\ call[c] = NoCall
  /\ MayProbe
  /\ state' = "half_open"
  /\ halfOpenInFlight' = TRUE
  /\ call' = [call EXCEPT ![c] = NewCall(TRUE)]
  /\ UNCHANGED <<failureCount, openLeft, probeIgnored>>

-----------------------------------------------------------------------------
(* callWithRetry: the ends of an attempt *)

Done(c) == c \in Running /\ call' = [call EXCEPT ![c] = NoCall]

\* Unavailable or DeadlineExceeded before the last attempt.
Retry(c) ==
  /\ c \in Running
  /\ call[c].attempt < MaxAttempts
  /\ call' = [call EXCEPT ![c].attempt = @ + 1, ![c].left = AttemptTime]
  /\ UNCHANGED <<breaker, probeIgnored>>

\* OnSuccess, whatever state the breaker is in by now.
OnSuccess(c) ==
  /\ Done(c)
  /\ failureCount' = 0
  /\ \/ /\ state = "half_open"
        /\ state' = "closed"
        /\ halfOpenInFlight' = FALSE
     \/ /\ state # "half_open"
        /\ UNCHANGED <<state, halfOpenInFlight>>
  /\ UNCHANGED <<openLeft, probeIgnored>>

Open == state' = "open" /\ openLeft' = OpenTimeout

\* A failure that is not the one too many, and one that opens the breaker.
CountFailure ==
  /\ state = "closed"
  /\ failureCount' = failureCount + 1
  /\ IF failureCount' >= FailureThreshold THEN Open ELSE UNCHANGED <<state, openLeft>>
  /\ UNCHANGED halfOpenInFlight

FailedProbe ==
  /\ state = "half_open"
  /\ Open
  /\ halfOpenInFlight' = FALSE
  /\ UNCHANGED failureCount

LateFailure == state = "open" /\ UNCHANGED breaker

LastAttempt(c) == c \in Running /\ call[c].attempt = MaxAttempts

\* Mutants of OnFailure: the threshold is one off; half_open is forgotten; the
\* open period is not started.
OnFailureOffByOne(c) ==
  /\ LastAttempt(c) /\ Done(c)
  /\ \/ /\ state = "closed"
        /\ failureCount' = failureCount + 1
        /\ IF failureCount' > FailureThreshold THEN Open ELSE UNCHANGED <<state, openLeft>>
        /\ UNCHANGED halfOpenInFlight
     \/ FailedProbe
     \/ LateFailure
  /\ UNCHANGED probeIgnored
OnFailureWhenClosed(c) ==
  /\ LastAttempt(c) /\ Done(c)
  /\ CountFailure \/ (state # "closed" /\ UNCHANGED breaker)
  /\ UNCHANGED probeIgnored

\* OnFailure with a breaker error, once the attempts are used up.
OnFailure(c) ==
  /\ LastAttempt(c) /\ Done(c)
  /\ CountFailure \/ FailedProbe \/ LateFailure
  /\ UNCHANGED probeIgnored

\* OnFailure returns at once for any other error: flight_service has answered
\* (NotFound, ResourceExhausted, ...) or the client went away (Canceled).
OnOtherError(c) ==
  /\ Done(c)
  /\ (IF call[c].probe THEN "probe" ELSE "ordinary") \in OtherErrors
  /\ probeIgnored' = (probeIgnored \/ call[c].probe)
  /\ UNCHANGED breaker

-----------------------------------------------------------------------------
\* Time does not pass the deadline of an attempt: context.WithTimeout ends it.
Tick ==
  /\ \A c \in Running : call[c].left > 0
  /\ call' = [c \in Caller |-> IF c \in Running THEN [call[c] EXCEPT !.left = @ - 1] ELSE NoCall]
  /\ openLeft' = IF openLeft > 0 THEN openLeft - 1 ELSE 0
  /\ UNCHANGED <<state, failureCount, halfOpenInFlight, probeIgnored>>

EndAttempt(c) == Retry(c) \/ OnSuccess(c) \/ OnFailure(c) \/ OnOtherError(c)

Next ==
  \/ \E c \in Caller : AllowClosed(c) \/ AllowProbe(c) \/ EndAttempt(c)
  \/ Tick

Spec == Init /\ [][Next]_vars

\* Time passes and attempts end; nothing obliges anyone to make a call.
FairSpec == Spec /\ WF_vars(Tick) /\ \A c \in Caller : WF_vars(EndAttempt(c))
-----------------------------------------------------------------------------
(* Properties *)

\* Every variable has its type.
TypeOK ==
  /\ state \in {"closed", "open", "half_open"}
  /\ failureCount \in 0 .. FailureThreshold
  /\ halfOpenInFlight \in BOOLEAN
  /\ openLeft \in 0 .. OpenTimeout
  /\ call \in [Caller -> [attempt : 0 .. MaxAttempts, left : 0 .. AttemptTime, probe : BOOLEAN]]
  /\ probeIgnored \in BOOLEAN

\* Within its types, a closed breaker is one failure away from opening at least:
\* concurrent calls cannot carry the count past the threshold (OnFailure).
ClosedBelowThreshold == TypeOK /\ (state = "closed" => failureCount < FailureThreshold)

\* While the breaker is half open, flight_service sees the probe and nothing
\* else: no second probe, and no call of the closed period that is still being
\* retried and whose late outcome would close or reopen the breaker in the
\* probe's place (Allow, callWithRetry).
OnlyTheProbe ==
  state = "half_open" => /\ Cardinality(Running) <= 1
                         /\ \A c \in Running : call[c].probe

\* A half-open breaker that rejects waits for a probe that is running and will
\* decide its state, unless a probe has ended with an error OnFailure ignores; and
\* such an end is final: the breaker waits for good for a probe nobody makes
\* (Allow, OnSuccess, OnFailure).
ProbeDecides ==
  (state = "half_open" /\ halfOpenInFlight /\ ~\E c \in Running : call[c].probe) <=> probeIgnored

\* "The service is temporarily unavailable" (writeGrpcError in handlers.go): from
\* every state the breaker gets to a state where Allow admits a call.
Admits == state = "closed" \/ MayProbe
RejectionIsTemporary == []<>Admits

\* What the code keeps of it: nothing but a probe whose end is ignored makes the
\* breaker reject for ever, neither late outcomes nor retries nor errors that say
\* nothing of the service's health.
OnlyIgnoredProbesBlock == []<>(Admits \/ probeIgnored)
=============================================================================
