------------------------ MODULE AdaptiveConcurrency -------------------------
(***************************************************************************)
(* The concurrency limit of performance/adaptiveConcurrency.ts as          *)
(* operators on a record.  The average latency of the last 20 answers is   *)
(* abstracted to the verdict the code draws from it: "fast" (at most 85%   *)
(* of the target), "slow" (above 140%) or "fair".                          *)
(***************************************************************************)
EXTENDS Naturals

CONSTANTS
    InitialLimit,   \* requests at a time when the job starts
    MaxLimit,       \* the limit never grows above this
    GrowEvery       \* successes between two growths

ASSUME LimitAssumption ==
    /\ InitialLimit \in Nat \ {0} /\ GrowEvery \in Nat \ {0}
    /\ MaxLimit \in Nat /\ InitialLimit <= MaxLimit

Latencies == {"fast", "fair", "slow"}

\* grown (successSinceGrow) is read only against GrowEvery and streak only
\* against 2: both counters saturate there.
Limits == [limit : 1..MaxLimit, grown : 0..GrowEvery, streak : 0..2]

InitialLimits == [limit |-> InitialLimit, grown |-> 0, streak |-> 0]

Least(x, y) == IF x <= y THEN x ELSE y

\* A plausible bug: the lower bound of the clamp is forgotten.
LoweredUnclamped(limit, by) == limit - by

\* clamp() with the minimum of 1 that a batch asks for.
Lowered(limit, by) == IF limit <= by THEN 1 ELSE limit - by

Quicker(a, latency) ==
    LET grown == Least(a.grown + 1, GrowEvery) IN
    IF latency = "fast" /\ grown = GrowEvery
    THEN [limit |-> Least(a.limit + 1, MaxLimit), grown |-> 0, streak |-> 0]
    ELSE IF latency = "slow" /\ a.limit > 1
    THEN [limit |-> a.limit - 1, grown |-> 0, streak |-> 0]
    ELSE [limit |-> a.limit, grown |-> grown, streak |-> 0]

Slower(a, hard) ==
    LET streak == Least(a.streak + 1, 2) IN
    [limit |-> IF hard THEN Lowered(a.limit, 2)
               ELSE IF streak = 2 THEN Lowered(a.limit, 1)
               ELSE a.limit,
     grown |-> 0, streak |-> streak]
=============================================================================
