--------------------------- MODULE CircuitBreaker ---------------------------
(***************************************************************************)
(* CircuitBreaker (resilience) under overlapping calls.  The outcome of a  *)
(* call moves the breaker whatever its state has become since the call     *)
(* began, and nothing limits how many calls a half-open breaker lets       *)
(* through.                                                                *)
(***************************************************************************)
EXTENDS Naturals

CONSTANTS Call,             \* calls that may be under way at once
          FailureThreshold, \* at least 1
          ResetTimeout      \* in ticks

VARIABLES state,
          consecutiveFailures, \* counted up to FailureThreshold
          sinceFailure,        \* ticks since lastFailureTime, up to ResetTimeout
          running,  \* the calls whose fn is awaited
          down,     \* external: what is called now may fail
          late      \* history: a call has succeeded since the breaker opened, while it
                    \* was open

kvars == <<state, consecutiveFailures, sinceFailure, running, down, late>>

TypeOK ==
  /\ state \in {"closed", "open", "half-open"}
  /\ consecutiveFailures \in 0 .. FailureThreshold /\ sinceFailure \in 0 .. ResetTimeout
  /\ running \in [Call -> {"no", "doomed", "fine"}]
  /\ down \in BOOLEAN /\ late \in BOOLEAN

Init ==
  /\ state = "closed" /\ consecutiveFailures = 0 /\ sinceFailure = 0
  /\ running = [c \in Call |-> "no"]
  /\ down = TRUE /\ late = FALSE

ServiceRecovers ==
  /\ down /\ down' = FALSE
  /\ UNCHANGED <<state, consecutiveFailures, sinceFailure, running, late>>

Tick ==
  /\ sinceFailure < ResetTimeout
  /\ sinceFailure' = sinceFailure + 1
  /\ UNCHANGED <<state, consecutiveFailures, running, down, late>>

\* Closed and half-open alike.
Execute(c) ==
  /\ running[c] = "no" /\ state # "open"
  /\ running' = [running EXCEPT ![c] = IF down THEN "doomed" ELSE "fine"]
  /\ UNCHANGED <<state, consecutiveFailures, sinceFailure, down, late>>

\* The first call after the timeout is the probe.
ExecuteProbe(c) ==
  /\ running[c] = "no" /\ state = "open" /\ sinceFailure >= ResetTimeout
  /\ state' = "half-open"
  /\ running' = [running EXCEPT ![c] = IF down THEN "doomed" ELSE "fine"]
  /\ UNCHANGED <<consecutiveFailures, sinceFailure, down, late>>

\* Mutant of ExecuteRefused: a refusal counts as a failure.
ExecuteRefusedCounts(c) ==
  /\ running[c] = "no" /\ state = "open" /\ sinceFailure < ResetTimeout
  /\ sinceFailure' = 0
  /\ UNCHANGED <<state, consecutiveFailures, running, down, late>>

\* CircuitOpenError, which does not count.
ExecuteRefused(c) ==
  /\ running[c] = "no" /\ state = "open" /\ sinceFailure < ResetTimeout
  /\ UNCHANGED kvars

OnSuccess(c) ==
  /\ running[c] # "no"
  /\ running' = [running EXCEPT ![c] = "no"]
  /\ consecutiveFailures' = 0
  /\ state' = IF state = "half-open" THEN "closed" ELSE state
  /\ late' = (late \/ state = "open")
  /\ UNCHANGED <<sinceFailure, down>>

Counted == IF consecutiveFailures < FailureThreshold THEN consecutiveFailures + 1 ELSE FailureThreshold

\* Mutant of OnFailure: opening starts the count again.
OnFailureRestarts(c) ==
  /\ running[c] = "doomed"
  /\ running' = [running EXCEPT ![c] = "no"]
  /\ sinceFailure' = 0
  /\ IF Counted >= FailureThreshold /\ state # "open"
     THEN state' = "open" /\ late' = FALSE /\ consecutiveFailures' = 0
     ELSE consecutiveFailures' = Counted /\ UNCHANGED <<state, late>>
  /\ UNCHANGED down

OnFailure(c) ==
  /\ running[c] = "doomed"
  /\ running' = [running EXCEPT ![c] = "no"]
  /\ consecutiveFailures' = Counted /\ sinceFailure' = 0
  /\ IF Counted >= FailureThreshold /\ state # "open"
     THEN state' = "open" /\ late' = FALSE
     ELSE UNCHANGED <<state, late>>
  /\ UNCHANGED down

Reset ==
  /\ consecutiveFailures' = 0 /\ state' = "closed"
  /\ UNCHANGED <<sinceFailure, running, down, late>>

Settles(c) == OnSuccess(c) \/ OnFailure(c)
Calls(c) == Execute(c) \/ ExecuteProbe(c) \/ ExecuteRefused(c)

Next == ServiceRecovers \/ Tick \/ Reset \/ \E c \in Call : Calls(c) \/ Settles(c)

-----------------------------------------------------------------------------
\* A breaker that has opened lets a single failed probe open it again, unless a
\* call from before came back successful while it was open: that starts the
\* count afresh, and the half-open breaker then takes a whole series of failures.
OneFailureReopens ==
  state # "closed" /\ ~late => consecutiveFailures = FailureThreshold

\* The breaker is closed: so it comes to be for good, once the service is up again and
\* calls keep coming.
ServesAgain == state = "closed"
=============================================================================
