--------------------------- MODULE CircuitBreaker ---------------------------
(***************************************************************************)
(* The circuit breaker of performance/circuitBreaker.ts as operators on a  *)
(* record: a batch job owns one and calls it from every row.  The clock is *)
(* counted down: openLeft is the time until openUntil, 0 when it is past.  *)
(* Listener events are left out: they change nothing of the breaker.       *)
(***************************************************************************)
EXTENDS Naturals

CONSTANTS
    FailureThreshold,   \* troubles in a row that open a closed breaker
    OpenTime,           \* ticks it stays open
    HalfOpenThreshold   \* successes that close a half-open breaker

ASSUME BreakerAssumption ==
    /\ FailureThreshold \in Nat \ {0}
    /\ OpenTime \in Nat \ {0}
    /\ HalfOpenThreshold \in Nat \ {0}

Breakers ==
    [state : {"closed", "open", "half-open"},
     failures : 0..FailureThreshold,
     openLeft : 0..OpenTime,
     successes : 0..HalfOpenThreshold]

Breaker(state, failures, openLeft, successes) ==
    [state |-> state, failures |-> failures,
     openLeft |-> openLeft, successes |-> successes]

Closed == Breaker("closed", 0, 0, 0)
Tripped == Breaker("open", FailureThreshold, OpenTime, 0)

\* A plausible bug: an open breaker is never probed again.
EvaluatedWithoutProbe(b) == b

\* Every call first lets an open breaker whose time is over become half-open.
Evaluated(b) ==
    IF b.state = "open" /\ b.openLeft = 0
    THEN Breaker("half-open", b.failures, 0, 0)
    ELSE b

CanRequest(b) == Evaluated(b).state # "open"

\* While it is open a success (of a request sent earlier) only clears the counts.
AfterSuccess(b) ==
    LET e == Evaluated(b) IN
    IF e.state # "half-open" THEN Breaker(e.state, 0, e.openLeft, 0)
    ELSE IF e.successes + 1 >= HalfOpenThreshold THEN Closed
    ELSE Breaker(e.state, e.failures, e.openLeft, e.successes + 1)

\* One trouble is enough when half-open.  While open, each further trouble (of a
\* request sent earlier) starts the time anew, unless a success cleared the count.
AfterFailure(b) ==
    LET e == Evaluated(b) IN
    IF e.state = "half-open" \/ e.failures + 1 >= FailureThreshold THEN Tripped
    ELSE Breaker(e.state, e.failures + 1, e.openLeft, e.successes)

Tick(b) == [b EXCEPT !.openLeft = IF @ = 0 THEN 0 ELSE @ - 1]
=============================================================================
