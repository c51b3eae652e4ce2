-------------------------- MODULE BatchUpdateProofs --------------------------
(***************************************************************************)
(* What a batch update guarantees for every file, every number of rows and *)
(* attempts, every limit and every breaker setting.                        *)
(***************************************************************************)
EXTENDS BatchUpdate, FiniteSetTheorems, TLAPS

USE BatchAssumption, BreakerAssumption, LimitAssumption
  DEF BatchAssumption, BreakerAssumption, LimitAssumption

-----------------------------------------------------------------------------
(* The breaker and the limit *)

LEMMA BreakerKept ==
    ASSUME NEW b \in Breakers
    PROVE  /\ Evaluated(b) \in Breakers
           /\ AfterSuccess(b) \in Breakers
           /\ AfterFailure(b) \in Breakers
           /\ Tick(b) \in Breakers
<1>1. Evaluated(b) \in Breakers
  BY DEF Breakers, Breaker, Evaluated
<1>2. Closed \in Breakers /\ Tripped \in Breakers
  BY DEF Breakers, Breaker, Closed, Tripped
<1>3. AfterSuccess(b) \in Breakers
  <2>1. ASSUME NEW e \in Breakers
        PROVE  /\ Breaker(e.state, 0, e.openLeft, 0) \in Breakers
               /\ e.successes + 1 < HalfOpenThreshold
                    => Breaker(e.state, e.failures, e.openLeft, e.successes + 1) \in Breakers
               /\ e.successes \in Nat
    BY DEF Breakers, Breaker
  <2>2. QED
    BY <1>1, <1>2, <2>1, Z3 DEF AfterSuccess
<1>4. AfterFailure(b) \in Breakers
  <2>1. ASSUME NEW e \in Breakers
        PROVE  /\ e.failures + 1 < FailureThreshold
                    => Breaker(e.state, e.failures + 1, e.openLeft, e.successes) \in Breakers
               /\ e.failures \in Nat
    BY DEF Breakers, Breaker
  <2>2. QED
    BY <1>1, <1>2, <2>1, Z3 DEF AfterFailure
<1>5. Tick(b) \in Breakers
  BY DEF Breakers, Tick
<1>6. QED
  BY <1>1, <1>3, <1>4, <1>5

LEMMA LimitKept ==
    ASSUME NEW a \in Limits
    PROVE  /\ \A latency : Quicker(a, latency) \in Limits
           /\ \A hard : Slower(a, hard) \in Limits
<1>1. \A latency : Quicker(a, latency) \in Limits
  BY DEF Limits, Quicker, Least
<1>2. \A hard : Slower(a, hard) \in Limits
  BY DEF Limits, Slower, Lowered, Least
<1>3. QED
  BY <1>1, <1>2

\* The queue is a final segment of the file before and after scheduleNext.
LEMMA QueueMoves ==
    ASSUME TypeOK
    PROVE  After \in next..(RowCount + 1)
<1>1. IsFiniteSet(Rows)
  BY FS_Interval DEF Rows
<1>2. Cardinality(InFlight) \in Nat
  BY <1>1, FS_Subset, FS_CardinalityType DEF InFlight
<1>3. Room \in Int
  BY <1>2 DEF Room, TypeOK, Limits
<1>4. QED
  BY <1>3 DEF After, Least, TypeOK

-----------------------------------------------------------------------------
(* The inductive invariant *)

\* A row whose first answer was never in doubt has not been written and cannot
\* be; the copies that may still be carried out are fewer than the attempts.
RowInv(r) ==
    /\ row[r].pc = "queued" <=> r >= next
    /\ row[r].outcome = "none" <=> row[r].pc # "done"
    /\ row[r].pc = "queued" => ~row[r].unknown
    /\ Unsendable(r) => row[r].pc = "queued" \/ row[r].outcome = "skipped"
    /\ row[r].outcome \in {"skipped", "stale"} => ~row[r].unknown
    /\ row[r].outcome \in {"none", "skipped", "stale"} /\ ~row[r].unknown
         => r \notin held /\ lurking[r] = 0
    /\ row[r].pc = "sleeping" => row[r].attempt < MaxAttempts
    /\ lurking[r] <= row[r].attempt
    /\ row[r].pc \in {"signing", "sent", "renewing", "resent"}
         => lurking[r] < row[r].attempt

IInv ==
    /\ TypeOK
    /\ \A r \in Rows : RowInv(r)
    /\ phase = "done" => InFlight = {}

RowRecords == [pc : Steps, attempt : 0..MaxAttempts,
               unknown : BOOLEAN, outcome : Outcomes]

LEMMA SettleFacts ==
    ASSUME TypeOK, NEW r \in Rows, NEW outcome \in Outcomes, NEW stops \in BOOLEAN,
           Idle, Settle(r, outcome, stops)
    PROVE  /\ row' \in [Rows -> RowRecords]
           /\ \A q \in Rows \ {r} : row'[q] = row[q]
           /\ row'[r].pc = "done" /\ row'[r].outcome = outcome
           /\ row'[r].attempt = row[r].attempt /\ row'[r].unknown = row[r].unknown
           /\ phase' \in Phases /\ phase' # "done"
           /\ stopped' \in BOOLEAN /\ (stopped => stopped')
<1>1. row \in [Rows -> RowRecords]
  BY DEF TypeOK, RowRecords
<1>2. row' = [row EXCEPT ![r] = [row[r] EXCEPT !.pc = "done", !.outcome = outcome]]
  BY <1>1 DEF Settle
<1>3. [row[r] EXCEPT !.pc = "done", !.outcome = outcome] \in RowRecords
  BY <1>1 DEF RowRecords, Steps
<1>4. QED
  BY <1>1, <1>2, <1>3 DEF Settle, TypeOK, Idle, Phases, RowRecords

LEMMA FailFacts ==
    ASSUME TypeOK, NEW r \in Rows, NEW e \in Failures, Idle, Fail(r, e)
    PROVE  /\ row' \in [Rows -> RowRecords]
           /\ \A q \in Rows \ {r} : row'[q] = row[q]
           /\ row'[r].attempt = row[r].attempt
           /\ \/ /\ row'[r].pc = "done" /\ row'[r].outcome = "failed"
              \/ /\ row'[r].pc = "sleeping" /\ row'[r].outcome = row[r].outcome
                 /\ row[r].attempt < MaxAttempts
                 /\ row'[r].unknown = (row[r].unknown \/ ~Coded(e))
                 /\ stopped' = stopped
           /\ phase' \in Phases /\ phase' # "done"
           /\ stopped' \in BOOLEAN /\ (stopped => stopped')
           /\ breaker' \in Breakers /\ adaptive' \in Limits
<1>1. row \in [Rows -> RowRecords]
  BY DEF TypeOK, RowRecords
<1>2. breaker' \in Breakers /\ adaptive' \in Limits
  BY BreakerKept, LimitKept DEF Fail, TypeOK
<1>3. CASE Settle(r, "failed", StopsTheJob(e))
  <2>1. "failed" \in Outcomes /\ StopsTheJob(e) \in BOOLEAN
    BY DEF Outcomes, StopsTheJob
  <2>2. QED
    BY <1>2, <1>3, <2>1, SettleFacts
<1>4. CASE /\ row[r].attempt < MaxAttempts
           /\ row' = [row EXCEPT ![r].pc = "sleeping", ![r].unknown = @ \/ ~Coded(e)]
           /\ UNCHANGED <<phase, stopped>>
  <2>1. [row[r] EXCEPT !.pc = "sleeping", !.unknown = @ \/ ~Coded(e)] \in RowRecords
    BY <1>1 DEF RowRecords, Steps
  <2>2. row' = [row EXCEPT ![r] = [row[r] EXCEPT !.pc = "sleeping", !.unknown = @ \/ ~Coded(e)]]
    BY <1>1, <1>4
  <2>3. QED
    BY <1>1, <1>2, <1>4, <2>1, <2>2 DEF TypeOK, Idle, Phases, RowRecords
<1>5. QED
  BY <1>3, <1>4 DEF Fail

LEMMA SucceedFacts ==
    ASSUME TypeOK, NEW r \in Rows, Idle, Succeed(r)
    PROVE  /\ row' \in [Rows -> RowRecords]
           /\ \A q \in Rows \ {r} : row'[q] = row[q]
           /\ row'[r].pc = "done" /\ row'[r].outcome = "updated"
           /\ row'[r].attempt = row[r].attempt /\ row'[r].unknown = row[r].unknown
           /\ phase' \in Phases /\ phase' # "done"
           /\ stopped' \in BOOLEAN /\ (stopped => stopped')
           /\ breaker' \in Breakers /\ adaptive' \in Limits
<1>1. breaker' \in Breakers /\ adaptive' \in Limits
  BY BreakerKept, LimitKept DEF Succeed, TypeOK
<1>2. QED
  BY <1>1, SettleFacts DEF Succeed, Outcomes

\* A row that is not touched by a step of another one.
LEMMA Apart ==
    ASSUME NEW q \in Rows, RowInv(q), row'[q] = row[q], UNCHANGED <<batch, next>>,
           q \in held' <=> q \in held, lurking'[q] = lurking[q]
    PROVE  RowInv(q)'
  BY DEF RowInv, Unsendable, Duplicate

LEMMA Start == Init => IInv
<1> SUFFICES ASSUME Init PROVE IInv
  OBVIOUS
<1>1. TypeOK
  <2>1. Closed \in Breakers /\ InitialLimits \in Limits
    BY DEF Breakers, Breaker, Closed, Limits, InitialLimits
  <2>2. "none" \in Outcomes /\ "queued" \in Steps /\ "turn" \in Phases
    BY DEF Outcomes, Steps, Phases
  <2>3. 1 \in 1..(RowCount + 1) /\ 0 \in 0..MaxAttempts
    OBVIOUS
  <2>4. QED
    BY <2>1, <2>2, <2>3 DEF Init, TypeOK
<1>2. \A r \in Rows : RowInv(r)
  BY DEF Init, RowInv, Rows
<1>3. QED
  BY <1>1, <1>2 DEF IInv, Init

-----------------------------------------------------------------------------
(* The loop keeps the invariant *)

LEMMA ScheduleKeeps == IInv /\ Schedule => IInv'
<1> SUFFICES ASSUME IInv, Schedule PROVE IInv'
  OBVIOUS
<1> USE DEF IInv
<1>1. After \in next..(RowCount + 1)
  BY QueueMoves
<1>2. row' \in [Rows -> RowRecords]
  <2>1. row \in [Rows -> RowRecords]
    BY DEF TypeOK, RowRecords
  <2>2. /\ "done" \in Steps /\ "signing" \in Steps /\ "skipped" \in Outcomes
        /\ 1 \in 0..MaxAttempts
    BY DEF Steps, Outcomes
  <2>3. ASSUME NEW r \in Rows
        PROVE  [row[r] EXCEPT !.pc = "done", !.outcome = "skipped"] \in RowRecords
    BY <2>1, <2>2 DEF RowRecords
  <2>4. ASSUME NEW r \in Rows
        PROVE  [row[r] EXCEPT !.pc = "signing", !.attempt = 1] \in RowRecords
    BY <2>1, <2>2 DEF RowRecords
  <2>5. QED
    BY <2>1, <2>3, <2>4 DEF Schedule
<1>3. TypeOK'
  <2>1. breaker' \in Breakers
    BY BreakerKept DEF Schedule, TypeOK
  <2>2. next' \in 1..(RowCount + 1)
    <3>1. next \in 1..(RowCount + 1)
      BY DEF TypeOK
    <3>2. next' = After
      BY DEF Schedule
    <3>3. QED
      BY <1>1, <3>1, <3>2
  <2>3. QED
    BY <1>2, <2>1, <2>2 DEF Schedule, TypeOK, server, Phases, RowRecords
<1>4. ASSUME NEW r \in Rows PROVE RowInv(r)'
  <2>1. UNCHANGED <<held, lurking, batch>> /\ next' = After
    BY DEF Schedule, server
  <2>2. CASE r \notin Taken
    <3>1. row'[r] = row[r]
      BY <2>2 DEF Schedule
    <3>2. r >= next' <=> r >= next
      BY <1>1, <2>1, <2>2 DEF Taken, TypeOK, Rows
    <3>3. QED
      BY <2>1, <3>1, <3>2 DEF RowInv, Unsendable, Duplicate
  <2>3. CASE r \in Taken
    <3>1. row[r].pc = "queued" /\ ~(r >= next')
      BY <1>1, <2>1, <2>3 DEF Taken, TypeOK, Rows, RowInv
    <3>2. row[r].outcome = "none" /\ ~row[r].unknown /\ r \notin held /\ lurking[r] = 0
      BY <3>1 DEF RowInv
    <3>3. row[r].attempt \in 0..MaxAttempts
      BY DEF TypeOK
    <3>4. CASE Unsendable(r)
      <4>1. /\ row'[r].pc = "done" /\ row'[r].outcome = "skipped"
            /\ row'[r].unknown = row[r].unknown /\ row'[r].attempt = row[r].attempt
        BY <2>3, <3>4 DEF Schedule, TypeOK
      <4>2. QED
        BY <2>1, <3>1, <3>2, <3>3, <4>1 DEF RowInv
    <3>5. CASE ~Unsendable(r)
      <4>1. /\ row'[r].pc = "signing" /\ row'[r].outcome = row[r].outcome
            /\ row'[r].unknown = row[r].unknown /\ row'[r].attempt = 1
        BY <2>3, <3>5 DEF Schedule, TypeOK
      <4>2. ~Unsendable(r)'
        BY <2>1, <3>5 DEF Unsendable, Duplicate
      <4>3. QED
        BY <2>1, <3>1, <3>2, <4>1, <4>2 DEF RowInv
    <3>6. QED
      BY <3>4, <3>5
  <2>4. QED
    BY <2>2, <2>3
<1>5. phase' # "done"
  BY DEF Schedule
<1>6. QED
  BY <1>3, <1>4, <1>5

\* Steps that change neither a row nor what the server has done to one.
LEMMA RowsKept ==
    ASSUME \A r \in Rows : RowInv(r), UNCHANGED <<batch, next, row, held, lurking>>
    PROVE  \A r \in Rows : RowInv(r)'
  BY Apart

LEMMA LoopKeeps == IInv /\ Loop => IInv'
<1> SUFFICES ASSUME IInv, Loop PROVE IInv'
  OBVIOUS
<1> USE DEF IInv
<1>1. CASE Schedule
  BY <1>1, ScheduleKeeps
<1>2. CASE Recheck
  <2>1. breaker' \in Breakers
    BY <1>2, BreakerKept DEF Recheck, TypeOK
  <2>2. TypeOK'
    BY <1>2, <2>1 DEF Recheck, TypeOK, server, Phases
  <2>3. \A r \in Rows : RowInv(r)'
    BY <1>2, RowsKept DEF Recheck, server
  <2>4. QED
    BY <1>2, <2>2, <2>3 DEF Recheck
<1>3. CASE PauseEnds
  <2>1. TypeOK'
    BY <1>3 DEF PauseEnds, TypeOK, server, Phases
  <2>2. \A r \in Rows : RowInv(r)'
    BY <1>3, RowsKept DEF PauseEnds, server
  <2>3. QED
    BY <1>3, <2>1, <2>2 DEF PauseEnds
<1>4. CASE LoopEnds
  <2>1. TypeOK'
    BY <1>4 DEF LoopEnds, TypeOK, server, Phases
  <2>2. \A r \in Rows : RowInv(r)'
    BY <1>4, RowsKept DEF LoopEnds, server
  <2>3. QED
    BY <1>4, <2>1, <2>2 DEF LoopEnds
<1>5. CASE Report
  <2>1. TypeOK'
    BY <1>5 DEF Report, TypeOK, server, Phases
  <2>2. \A r \in Rows : RowInv(r)'
    BY <1>5, RowsKept DEF Report, server
  <2>3. InFlight' = {}
    BY <1>5 DEF Report, InFlight
  <2>4. QED
    BY <2>1, <2>2, <2>3
<1>6. QED
  BY <1>1, <1>2, <1>3, <1>4, <1>5 DEF Loop

-----------------------------------------------------------------------------
(* The steps of a row keep the invariant *)

\* What remains to be shown of a step of row r that may write its record.
LEMMA OneRow ==
    ASSUME IInv, NEW r \in Rows, UNCHANGED <<batch, next>>,
           TypeOK', RowInv(r)', phase' # "done",
           \A q \in Rows \ {r} : /\ row'[q] = row[q]
                                 /\ q \in held' <=> q \in held
                                 /\ lurking'[q] = lurking[q]
    PROVE  IInv'
  BY Apart DEF IInv

\* Another sendable row never shares the record of r: a written row on it is r.
LEMMA OnlyOwnEdit ==
    ASSUME IInv, NEW r \in Rows, ~Unsendable(r), r \notin held, ~AsExported(r)
    PROVE  batch[r].record \in others
<1>1. SUFFICES ASSUME NEW q \in held, batch[q].record = batch[r].record
               PROVE  FALSE
  BY DEF AsExported
<1>2. q \in Rows /\ q # r
  BY DEF IInv, TypeOK
<1>3. ~Unsendable(q)
  BY <1>2 DEF IInv, RowInv
<1>4. q < r \/ r < q
  BY <1>2 DEF Rows
<1>5. CASE q < r
  BY <1>1, <1>2, <1>3, <1>5 DEF Unsendable, Duplicate, Rows
<1>6. CASE r < q
  BY <1>1, <1>2, <1>3, <1>6 DEF Unsendable, Duplicate, Rows
<1>7. QED
  BY <1>4, <1>5, <1>6

LEMMA TokenKeeps ==
    ASSUME IInv, NEW r \in Rows
    PROVE  /\ TokenComes(r) => IInv'
           /\ NoTokenComes(r) => IInv'
           /\ TokenRejected(r) => IInv'
<1> USE DEF IInv
<1>0. row \in [Rows -> RowRecords]
  BY DEF TypeOK, RowRecords
<1>1. ASSUME TokenComes(r) PROVE IInv'
  <2>1. row' \in [Rows -> RowRecords]
    BY <1>0, <1>1 DEF TokenComes, RowRecords, Steps
  <2>2. TypeOK'
    BY <1>1, <2>1 DEF TokenComes, TypeOK, RowRecords, loop, server
  <2>3. RowInv(r)'
    BY <1>0, <1>1 DEF TokenComes, RowInv, loop, server, Unsendable, Duplicate, RowRecords
  <2>4. QED
    BY <1>0, <1>1, <2>2, <2>3, OneRow DEF TokenComes, loop, server, Idle
<1>2. ASSUME NoTokenComes(r) PROVE IInv'
  <2>1. PICK e \in Failures : Fail(r, e)
    BY <1>2 DEF NoTokenComes
  <2>2. Idle /\ e \in Failures /\ row[r].pc \in {"signing", "renewing"}
    BY <1>2, <2>1 DEF NoTokenComes, Failures
  <2>3. TypeOK'
    BY <1>2, <2>1, <2>2, FailFacts DEF NoTokenComes, TypeOK, RowRecords, server
  <2>4. RowInv(r)'
    <3>1. UNCHANGED <<batch, next, held, lurking>>
      BY <1>2 DEF NoTokenComes, server
    <3>2. row'[r].unknown \in BOOLEAN /\ row[r].attempt \in Nat /\ lurking[r] \in Nat
      BY <1>0, <2>3 DEF TypeOK, RowRecords
    <3>3. QED
      BY <2>1, <2>2, <3>1, <3>2, FailFacts DEF RowInv, Unsendable, Duplicate
  <2>5. QED
    BY <1>2, <2>1, <2>2, <2>3, <2>4, FailFacts, OneRow DEF NoTokenComes, server
<1>3. ASSUME TokenRejected(r) PROVE IInv'
  <2>1. row' \in [Rows -> RowRecords]
    BY <1>0, <1>3 DEF TokenRejected, RowRecords, Steps
  <2>2. TypeOK'
    BY <1>3, <2>1 DEF TokenRejected, TypeOK, RowRecords, loop, server
  <2>3. RowInv(r)'
    BY <1>0, <1>3 DEF TokenRejected, RowInv, loop, server, Unsendable, Duplicate, RowRecords
  <2>4. QED
    BY <1>0, <1>3, <2>2, <2>3, OneRow DEF TokenRejected, loop, server, Idle
<1>4. QED
  BY <1>1, <1>2, <1>3

LEMMA EditKeeps ==
    ASSUME IInv, NEW r \in Rows
    PROVE  /\ EditAnswered(r) => IInv'
           /\ EditRefused(r) => IInv'
           /\ EditLost(r) => IInv'
           /\ EditStale(r) => IInv'
<1> USE DEF IInv
<1>0. row \in [Rows -> RowRecords] /\ row[r].attempt \in 0..MaxAttempts /\ lurking[r] \in Nat
  BY DEF TypeOK, RowRecords
<1>1. ASSUME EditAnswered(r) PROVE IInv'
  <2>1. Idle /\ Sending(r) /\ Apply(r) /\ Succeed(r)
        /\ UNCHANGED <<batch, next, cancelled, others, lurking>>
    BY <1>1 DEF EditAnswered
  <2>2. TypeOK'
    BY <2>1, SucceedFacts DEF TypeOK, RowRecords, Apply
  <2>3. RowInv(r)'
    BY <1>0, <2>1, SucceedFacts DEF RowInv, Unsendable, Duplicate, Sending
  <2>4. QED
    BY <2>1, <2>2, <2>3, SucceedFacts, OneRow DEF Apply
<1>2. ASSUME EditRefused(r) PROVE IInv'
  <2>1. PICK e \in Failures : Fail(r, e)
    BY <1>2 DEF EditRefused
  <2>2. Idle /\ Sending(r) /\ UNCHANGED <<batch, next, cancelled, others, held, intact, lurking>>
    BY <1>2 DEF EditRefused, server
  <2>3. TypeOK'
    BY <2>1, <2>2, FailFacts DEF TypeOK, RowRecords
  <2>4. RowInv(r)'
    BY <1>0, <2>1, <2>2, FailFacts DEF RowInv, Unsendable, Duplicate, Sending
  <2>5. QED
    BY <2>1, <2>2, <2>3, <2>4, FailFacts, OneRow
<1>3. ASSUME EditLost(r) PROVE IInv'
  <2>1. PICK e \in Failures : ~Coded(e) /\ Fail(r, e)
    BY <1>3 DEF EditLost
  <2>2. Idle /\ Sending(r) /\ UNCHANGED <<batch, next, cancelled, others>>
    BY <1>3 DEF EditLost
  <2>3. lurking[r] < row[r].attempt
    BY <2>2 DEF RowInv, Sending
  <2>4. /\ held' \in {held, held \cup {r}} /\ intact' \subseteq intact \cup {r}
        /\ lurking' \in [Rows -> 0..MaxAttempts]
        /\ lurking'[r] <= lurking[r] + 1
        /\ \A q \in Rows \ {r} : lurking'[q] = lurking[q]
    <3>1. \/ Apply(r) /\ UNCHANGED lurking
          \/ lurking' = [lurking EXCEPT ![r] = @ + 1] /\ UNCHANGED <<held, intact>>
          \/ UNCHANGED <<held, intact, lurking>>
      BY <1>3 DEF EditLost
    <3>2. CASE Apply(r) /\ UNCHANGED lurking
      BY <1>0, <3>2 DEF Apply, TypeOK
    <3>3. CASE lurking' = [lurking EXCEPT ![r] = @ + 1] /\ UNCHANGED <<held, intact>>
      BY <1>0, <2>3, <3>3 DEF TypeOK
    <3>4. CASE UNCHANGED <<held, intact, lurking>>
      BY <1>0, <3>4 DEF TypeOK
    <3>5. QED
      BY <3>1, <3>2, <3>3, <3>4
  <2>5. TypeOK'
    BY <2>1, <2>2, <2>4, FailFacts DEF TypeOK, RowRecords
  <2>6. RowInv(r)'
    <3>1. lurking'[r] \in Nat /\ lurking'[r] <= row[r].attempt
      BY <1>0, <2>3, <2>4
    <3>2. QED
      BY <1>0, <2>1, <2>2, <3>1, FailFacts, ZenonT(30) DEF RowInv, Unsendable, Duplicate, Sending
  <2>7. QED
    BY <2>1, <2>2, <2>4, <2>5, <2>6, FailFacts, OneRow
<1>4. ASSUME EditStale(r) PROVE IInv'
  <2>1. Idle /\ Sending(r)
        /\ UNCHANGED <<batch, next, cancelled, breaker, adaptive, others, held, intact, lurking>>
    BY <1>4 DEF EditStale, server
  <2>2. CASE \E v \in {"stale", "unconfirmed"} :
               Settle(r, v, FALSE) /\ (v = "stale" => ~row[r].unknown)
    <3>1. PICK v \in {"stale", "unconfirmed"} :
            Settle(r, v, FALSE) /\ (v = "stale" => ~row[r].unknown)
      BY <2>2
    <3>2. v \in Outcomes
      BY <3>1 DEF Outcomes
    <3>3. TypeOK'
      BY <2>1, <3>1, <3>2, SettleFacts DEF TypeOK, RowRecords
    <3>4. RowInv(r)'
      <4>1. /\ row'[r].pc = "done" /\ row'[r].outcome = v
            /\ row'[r].attempt = row[r].attempt /\ row'[r].unknown = row[r].unknown
        BY <2>1, <3>1, <3>2, SettleFacts
      <4>2. Unsendable(r)' <=> Unsendable(r)
        BY <2>1 DEF Unsendable, Duplicate
      <4>3. row[r].pc \in {"sent", "resent"}
        BY <2>1 DEF Sending
      <4>4. QED
        BY <1>0, <2>1, <3>1, <4>1, <4>2, <4>3 DEF RowInv
    <3>5. QED
      BY <2>1, <3>1, <3>2, <3>3, <3>4, SettleFacts, OneRow
  <2>3. CASE /\ row' = [row EXCEPT ![r].pc = "rereading"]
             /\ UNCHANGED <<phase, stopped>>
    <3>1. row' \in [Rows -> RowRecords]
      BY <1>0, <2>3 DEF RowRecords, Steps
    <3>2. TypeOK'
      BY <2>1, <2>3, <3>1 DEF TypeOK, RowRecords
    <3>3. RowInv(r)'
      BY <1>0, <2>1, <2>3 DEF RowInv, Unsendable, Duplicate, Sending, RowRecords
    <3>4. QED
      BY <1>0, <2>1, <2>3, <3>2, <3>3, OneRow DEF Idle
  <2>4. QED
    BY <1>4, <2>2, <2>3 DEF EditStale
<1>5. QED
  BY <1>1, <1>2, <1>3, <1>4

LEMMA LaterKeeps ==
    ASSUME IInv, NEW r \in Rows
    PROVE  /\ RereadConfirms(r) => IInv'
           /\ RereadFails(r) => IInv'
           /\ Wake(r) => IInv'
           /\ LateEdit(r) => IInv'
<1> USE DEF IInv
<1>0. row \in [Rows -> RowRecords] /\ row[r].attempt \in 0..MaxAttempts /\ lurking[r] \in Nat
  BY DEF TypeOK, RowRecords
<1>1. ASSUME RereadConfirms(r) PROVE IInv'
  <2>1. Idle /\ row[r].pc = "rereading" /\ Succeed(r)
        /\ UNCHANGED <<batch, next, cancelled, others, held, intact, lurking>>
    BY <1>1 DEF RereadConfirms, server
  <2>2. TypeOK'
    BY <2>1, SucceedFacts DEF TypeOK, RowRecords
  <2>3. RowInv(r)'
    BY <1>0, <2>1, SucceedFacts DEF RowInv, Unsendable, Duplicate
  <2>4. QED
    BY <2>1, <2>2, <2>3, SucceedFacts, OneRow
<1>2. ASSUME RereadFails(r) PROVE IInv'
  <2>1. Idle /\ row[r].pc = "rereading" /\ Settle(r, "unconfirmed", FALSE)
        /\ UNCHANGED <<batch, next, cancelled, breaker, adaptive, others, held, intact, lurking>>
    BY <1>2 DEF RereadFails, server
  <2>2. "unconfirmed" \in Outcomes
    BY DEF Outcomes
  <2>3. TypeOK'
    BY <2>1, <2>2, SettleFacts DEF TypeOK, RowRecords
  <2>4. RowInv(r)'
    <3>1. /\ row'[r].pc = "done" /\ row'[r].outcome = "unconfirmed"
          /\ row'[r].attempt = row[r].attempt /\ row'[r].unknown = row[r].unknown
      BY <2>1, <2>2, SettleFacts
    <3>2. ~Unsendable(r) /\ ~Unsendable(r)'
      BY <2>1 DEF RowInv, Unsendable, Duplicate
    <3>3. QED
      BY <1>0, <2>1, <3>1, <3>2 DEF RowInv
  <2>5. QED
    BY <2>1, <2>2, <2>3, <2>4, SettleFacts, OneRow
<1>3. ASSUME Wake(r) PROVE IInv'
  <2>1. Idle /\ row[r].pc = "sleeping"
        /\ UNCHANGED <<batch, next, cancelled, breaker, adaptive, others, held, intact, lurking>>
    BY <1>3 DEF Wake, server
  <2>2. CASE Settle(r, "failed", FALSE)
    <3>1. "failed" \in Outcomes
      BY DEF Outcomes
    <3>2. TypeOK'
      BY <2>1, <2>2, <3>1, SettleFacts DEF TypeOK, RowRecords
    <3>3. RowInv(r)'
      <4>1. /\ row'[r].pc = "done" /\ row'[r].outcome = "failed"
            /\ row'[r].attempt = row[r].attempt /\ row'[r].unknown = row[r].unknown
        BY <2>1, <2>2, <3>1, SettleFacts
      <4>2. ~Unsendable(r) /\ ~Unsendable(r)'
        BY <2>1 DEF RowInv, Unsendable, Duplicate
      <4>3. QED
        BY <1>0, <2>1, <4>1, <4>2 DEF RowInv
    <3>4. QED
      BY <2>1, <2>2, <3>1, <3>2, <3>3, SettleFacts, OneRow
  <2>3. CASE /\ row' = [row EXCEPT ![r].pc = "signing", ![r].attempt = @ + 1]
             /\ UNCHANGED <<phase, stopped>>
    <3>1. row[r].attempt + 1 \in 0..MaxAttempts
      BY <1>0, <2>1 DEF RowInv
    <3>2. [row[r] EXCEPT !.pc = "signing", !.attempt = @ + 1] \in RowRecords
      BY <1>0, <3>1 DEF RowRecords, Steps
    <3>3. row' = [row EXCEPT ![r] = [row[r] EXCEPT !.pc = "signing", !.attempt = @ + 1]]
      BY <1>0, <2>3
    <3>4. TypeOK'
      BY <1>0, <2>1, <2>3, <3>2, <3>3 DEF TypeOK, RowRecords
    <3>5. RowInv(r)'
      BY <1>0, <2>1, <3>3 DEF RowInv, Unsendable, Duplicate, RowRecords
    <3>6. QED
      BY <1>0, <2>1, <2>3, <3>3, <3>4, <3>5, OneRow DEF Idle
  <2>4. QED
    BY <1>3, <2>2, <2>3 DEF Wake
<1>4. ASSUME LateEdit(r) PROVE IInv'
  <2>1. /\ lurking[r] > 0 /\ lurking' = [lurking EXCEPT ![r] = @ - 1]
        /\ Apply(r) \/ UNCHANGED <<held, intact>>
        /\ UNCHANGED <<batch, phase, next, row, cancelled, stopped, breaker, adaptive, others>>
    BY <1>4 DEF LateEdit, loop
  <2>2. TypeOK'
    BY <1>0, <2>1 DEF TypeOK, Apply
  <2>3. RowInv(r)'
    BY <1>0, <2>1 DEF RowInv, Unsendable, Duplicate, TypeOK
  <2>4. \A q \in Rows \ {r} : RowInv(q)'
    BY <2>1, Apart DEF Apply, TypeOK
  <2>5. InFlight' = InFlight
    BY <2>1 DEF InFlight
  <2>6. QED
    BY <2>1, <2>2, <2>3, <2>4, <2>5
<1>5. QED
  BY <1>1, <1>2, <1>3, <1>4

LEMMA WorldKeeps ==
    ASSUME IInv
    PROVE  /\ Cancel => IInv'
           /\ \A rec \in Records : OtherEdit(rec) => IInv'
           /\ TimePasses => IInv'
           /\ UNCHANGED vars => IInv'
<1> USE DEF IInv
<1>1. ASSUME Cancel PROVE IInv'
  BY <1>1, RowsKept DEF Cancel, TypeOK, InFlight, loop, server
<1>2. ASSUME NEW rec \in Records, OtherEdit(rec) PROVE IInv'
  BY <1>2, RowsKept DEF OtherEdit, TypeOK, InFlight, loop
<1>3. ASSUME TimePasses PROVE IInv'
  <2>1. breaker' \in Breakers
    BY <1>3, BreakerKept DEF TimePasses, TypeOK
  <2>2. QED
    BY <1>3, <2>1, RowsKept DEF TimePasses, TypeOK, InFlight, loop, server
<1>4. ASSUME UNCHANGED vars PROVE IInv'
  BY <1>4, RowsKept DEF vars, TypeOK, InFlight, server
<1>5. QED
  BY <1>1, <1>2, <1>3, <1>4

LEMMA Step == IInv /\ [Next]_vars => IInv'
  BY LoopKeeps, TokenKeeps, EditKeeps, LaterKeeps, WorldKeeps DEF Next, RowStep

LEMMA Inductive == Spec => []IInv
<1>1. QED
  BY Start, Step, PTL DEF Spec

-----------------------------------------------------------------------------
(* The theorems *)

\* Every variable keeps its type, for any file, limits and breaker settings: in
\* particular the limit never leaves 1..MaxLimit and no count leaves its range.
THEOREM BatchTypes == Spec => []TypeOK
<1>1. IInv => TypeOK
  BY DEF IInv
<1>2. QED
  BY <1>1, Inductive, PTL

\* Nothing of a row starts after the cancellation, whatever state it was in when
\* the user cancelled (batchService.ts: the three looks at the cancellation).
THEOREM CancelHonoured == Spec => NoAttemptAfterCancel
<1>1. IInv /\ [Next]_vars /\ cancelled
        => next' = next /\ \A r \in Rows : row'[r].attempt = row[r].attempt
  <2> SUFFICES ASSUME IInv, [Next]_vars, cancelled
               PROVE  next' = next /\ \A r \in Rows : row'[r].attempt = row[r].attempt
    OBVIOUS
  <2>0. TypeOK /\ row \in [Rows -> RowRecords]
    BY DEF IInv, TypeOK, RowRecords
  <2>1. CASE UNCHANGED <<next, row>>
    BY <2>1
  <2>2. ASSUME NEW r \in Rows, RowStep(r)
        PROVE  next' = next /\ \A q \in Rows : row'[q].attempt = row[q].attempt
    <3>1. next' = next
      BY <2>2 DEF RowStep, TokenComes, NoTokenComes, TokenRejected, EditAnswered,
                  EditRefused, EditLost, EditStale, RereadConfirms, RereadFails, Wake, loop
    <3>2. CASE \E v : \E e \in BOOLEAN : Settle(r, v, e)
      BY <2>0, <3>1, <3>2 DEF Settle, RowRecords
    <3>3. CASE \E e : Fail(r, e)
      BY <2>0, <3>1, <3>3 DEF Fail, Settle, RowRecords
    <3>4. CASE \E pc \in Steps : row' = [row EXCEPT ![r].pc = pc]
      BY <2>0, <3>1, <3>4 DEF RowRecords
    <3>5. \/ \E v : \E e \in BOOLEAN : Settle(r, v, e)
          \/ \E e : Fail(r, e)
          \/ \E pc \in Steps : row' = [row EXCEPT ![r].pc = pc]
      BY <2>2, cancelled DEF RowStep, TokenComes, NoTokenComes, TokenRejected,
           EditAnswered, EditRefused, EditLost, EditStale, RereadConfirms, RereadFails,
           Wake, Succeed, Steps
    <3>6. QED
      BY <3>2, <3>3, <3>4, <3>5
  <2>3. ~Schedule
    BY DEF Schedule
  <2>4. QED
    BY <2>1, <2>2, <2>3 DEF Next, Loop, Recheck, PauseEnds, LoopEnds, Report, LateEdit,
       OtherEdit, Cancel, TimePasses, vars, loop
<1>2. QED
  BY <1>1, Inductive, PTL DEF Spec, NoAttemptAfterCancel

-----------------------------------------------------------------------------
(* The job implements the ledger *)

\* A step of row r that gives it a true verdict, or none yet.
LEMMA RowOnLedger ==
    ASSUME IInv, NEW r \in Rows, NEW v \in Outcomes,
           phase # "done", phase' # "done",
           row[r].pc \notin {"queued", "done"}, row'[r].pc # "queued",
           UNCHANGED <<batch, others, cancelled>>, stopped => stopped',
           stopped' \in BOOLEAN,
           \A q \in Rows \ {r} : row'[q] = row[q],
           row'[r].outcome = v,
           held' \in {held, held \cup {r}},
           \/ v = "none" /\ stopped' = stopped
           \/ v \in {"unconfirmed", "failed"}
           \/ v = "updated" /\ r \in held'
           \/ v = "stale" /\ r \notin held' /\ batch[r].record \in others
    PROVE  [Ledger!Next]_(Ledger!vars)
<1> USE DEF IInv
<1>1. row[r].outcome = "none"
  BY DEF RowInv
<1>2. /\ {q \in Rows : row'[q].pc # "queued"} = {q \in Rows : row[q].pc # "queued"}
      /\ r \in {q \in Rows : row[q].pc # "queued"}
  OBVIOUS
<1>3. [q \in Rows |-> row'[q].outcome] = [[q \in Rows |-> row[q].outcome] EXCEPT ![r] = v]
  OBVIOUS
<1>4. [q \in Rows |-> row[q].outcome][r] = "none"
  BY <1>1
<1>5. {q \in Rows : batch[q].record \in others}'
        = {q \in Rows : batch[q].record \in others}
  OBVIOUS
<1>6. cancelled \in BOOLEAN /\ stopped \in BOOLEAN
  BY DEF TypeOK
<1>7. CASE v = "none"
  <2>1. [q \in Rows |-> row'[q].outcome] = [q \in Rows |-> row[q].outcome]
    BY <1>1, <1>7
  <2>2. CASE held' = held
    BY <1>2, <1>5, <1>7, <2>1, <2>2 DEF Ledger!vars
  <2>3. CASE held' = held \cup {r}
    <3>1. Ledger!Take(r)
      BY <1>2, <1>4, <1>5, <1>7, <2>1, <2>3 DEF Ledger!Take
    <3>2. QED
      BY <3>1 DEF Ledger!Next
  <2>4. QED
    BY <2>2, <2>3
<1>8. CASE v # "none"
  <2>1. Ledger!Settle(r)
    <3>1. r \in {q \in Rows : batch[q].record \in others} <=> batch[r].record \in others
      OBVIOUS
    <3>2. (cancelled \/ stopped)' \in {cancelled \/ stopped, TRUE}
      BY <1>6
    <3>3. v \in {"updated", "stale", "unconfirmed", "failed"}
      BY <1>8
    <3>4. /\ v = "updated" => r \in held'
          /\ v = "stale" => batch[r].record \in others /\ r \notin held'
      OBVIOUS
    <3>5. QED
      BY <1>2, <1>3, <1>4, <1>5, <3>1, <3>2, <3>3, <3>4 DEF Ledger!Settle
  <2>2. QED
    BY <2>1 DEF Ledger!Next
<1>9. QED
  BY <1>7, <1>8

\* A record holds the values only of rows that were written to it.
IntactHeld == intact \subseteq held

LEMMA IntactAreHeld == Spec => []IntactHeld
<1>1. Init => IntactHeld
  BY DEF Init, IntactHeld
<1>2. IntactHeld /\ [Next]_vars => IntactHeld'
  <2> SUFFICES ASSUME IntactHeld, [Next]_vars PROVE IntactHeld'
    OBVIOUS
  <2>1. \/ UNCHANGED <<held, intact>>
        \/ \E r \in Rows : Apply(r)
        \/ held' = held /\ intact' \subseteq intact
    <3>1. ASSUME NEW r \in Rows, RowStep(r) \/ LateEdit(r)
          PROVE  UNCHANGED <<held, intact>> \/ Apply(r)
      BY <3>1 DEF RowStep, TokenComes, NoTokenComes, TokenRejected, EditAnswered,
         EditRefused, EditLost, EditStale, RereadConfirms, RereadFails, Wake, LateEdit, server
    <3>2. ASSUME NEW rec \in Records, OtherEdit(rec)
          PROVE  held' = held /\ intact' \subseteq intact
      BY <3>2 DEF OtherEdit
    <3>3. ASSUME Loop \/ Cancel \/ TimePasses \/ UNCHANGED vars
          PROVE  UNCHANGED <<held, intact>>
      BY <3>3 DEF Loop, Schedule, Recheck, PauseEnds, LoopEnds, Report, Cancel,
         TimePasses, vars, server
    <3>4. QED
      BY <3>1, <3>2, <3>3 DEF Next
  <2>2. QED
    BY <2>1 DEF IntactHeld, Apply
<1>3. QED
  BY <1>1, <1>2, PTL DEF Spec

LEMMA RowStepOnLedger ==
    ASSUME IInv, IntactHeld, NEW r \in Rows, RowStep(r)
    PROVE  [Ledger!Next]_(Ledger!vars)
<1> USE DEF IInv
<1>0. /\ row \in [Rows -> RowRecords] /\ TypeOK /\ RowInv(r)
      /\ \A v \in {"none", "updated", "stale", "unconfirmed", "failed"} : v \in Outcomes
      /\ stopped \in BOOLEAN
  BY DEF TypeOK, RowRecords, Outcomes
<1>1. ASSUME NEW e \in Failures, Idle, Fail(r, e), row[r].pc \notin {"queued", "done"},
             UNCHANGED <<batch, others, cancelled>>, held' \in {held, held \cup {r}}
      PROVE  [Ledger!Next]_(Ledger!vars)
  <2>1. row[r].outcome = "none" /\ phase # "done"
    BY <1>0, <1>1 DEF RowInv, Idle
  <2>2. CASE row'[r].pc = "done" /\ row'[r].outcome = "failed"
    BY <1>0, <1>1, <2>1, <2>2, FailFacts, RowOnLedger
  <2>3. CASE row'[r].pc = "sleeping" /\ row'[r].outcome = row[r].outcome /\ stopped' = stopped
    BY <1>0, <1>1, <2>1, <2>3, FailFacts, RowOnLedger
  <2>4. QED
    BY <1>0, <1>1, <2>2, <2>3, FailFacts
<1>2. ASSUME Idle, Succeed(r), row[r].pc \notin {"queued", "done"},
             UNCHANGED <<batch, others, cancelled>>, held' \in {held, held \cup {r}},
             r \in held'
      PROVE  [Ledger!Next]_(Ledger!vars)
  <2>1. phase # "done"
    BY <1>2 DEF Idle
  <2>2. QED
    BY <1>0, <1>2, <2>1, SucceedFacts, RowOnLedger
<1>3. ASSUME NEW v \in {"stale", "unconfirmed", "failed"}, Idle, Settle(r, v, FALSE),
             row[r].pc \notin {"queued", "done"},
             UNCHANGED <<batch, others, cancelled, held>>,
             v = "stale" => r \notin held /\ batch[r].record \in others
      PROVE  [Ledger!Next]_(Ledger!vars)
  <2>1. phase # "done"
    BY <1>3 DEF Idle
  <2>2. v \in Outcomes
    BY <1>0, <1>3
  <2>3. /\ \A q \in Rows \ {r} : row'[q] = row[q]
        /\ row'[r].pc = "done" /\ row'[r].outcome = v
        /\ phase' # "done" /\ stopped' \in BOOLEAN /\ (stopped => stopped')
    BY <1>0, <1>3, <2>2, SettleFacts
  <2>4. QED
    BY <1>0, <1>3, <2>1, <2>2, <2>3, RowOnLedger
<1>4. ASSUME NEW pc \in Steps \ {"queued", "done"}, Idle, row[r].pc \notin {"queued", "done"},
             row' = [row EXCEPT ![r].pc = pc],
             UNCHANGED <<batch, others, cancelled, held, stopped, phase>>
      PROVE  [Ledger!Next]_(Ledger!vars)
  <2>1. row'[r].outcome = row[r].outcome /\ row'[r].pc # "queued"
    BY <1>0, <1>4 DEF RowRecords
  <2>2. row[r].outcome = "none" /\ phase # "done"
    BY <1>0, <1>4 DEF RowInv, Idle
  <2>3. QED
    BY <1>0, <1>4, <2>1, <2>2, RowOnLedger
<1>5. CASE TokenComes(r)
  BY <1>4, <1>5 DEF TokenComes, loop, server, Steps
<1>6. CASE NoTokenComes(r)
  BY <1>1, <1>6 DEF NoTokenComes, server, Failures
<1>7. CASE TokenRejected(r)
  BY <1>4, <1>7 DEF TokenRejected, loop, server, Steps
<1>8. CASE EditAnswered(r)
  BY <1>2, <1>8 DEF EditAnswered, Sending, Apply
<1>9. CASE EditRefused(r)
  BY <1>1, <1>9 DEF EditRefused, Sending, server
<1>10. CASE EditLost(r)
  BY <1>1, <1>10 DEF EditLost, Sending, Apply
<1>11. CASE EditStale(r)
  <2>1. Idle /\ Sending(r) /\ ~Accepted(r)
        /\ UNCHANGED <<batch, cancelled, others, held>>
    BY <1>11 DEF EditStale, server
  <2>2. CASE ~row[r].unknown /\ Settle(r, "stale", FALSE)
    <3>1. r \notin held /\ ~Unsendable(r)
      BY <1>0, <2>1, <2>2 DEF RowInv, Sending
    <3>2. batch[r].record \in others
      BY <2>1, <3>1, OnlyOwnEdit DEF Accepted
    <3>3. QED
      BY <1>3, <2>1, <2>2, <3>1, <3>2 DEF Sending
  <2>3. CASE Settle(r, "unconfirmed", FALSE)
    BY <1>3, <2>1, <2>3 DEF Sending
  <2>4. CASE /\ row' = [row EXCEPT ![r].pc = "rereading"]
             /\ UNCHANGED <<phase, stopped>>
    BY <1>4, <2>1, <2>4 DEF Sending, Steps
  <2>5. QED
    BY <1>11, <2>2, <2>3, <2>4 DEF EditStale
<1>12. CASE RereadConfirms(r)
  BY <1>2, <1>12 DEF RereadConfirms, server, IntactHeld
<1>13. CASE RereadFails(r)
  BY <1>3, <1>13 DEF RereadFails, server
<1>14. CASE Wake(r)
  <2>1. Idle /\ row[r].pc = "sleeping" /\ UNCHANGED <<batch, cancelled, others, held>>
    BY <1>14 DEF Wake, server
  <2>2. CASE Settle(r, "failed", FALSE)
    BY <1>3, <2>1, <2>2
  <2>3. CASE /\ row' = [row EXCEPT ![r].pc = "signing", ![r].attempt = @ + 1]
             /\ UNCHANGED <<phase, stopped>>
    <3>1. /\ row'[r].outcome = row[r].outcome /\ row'[r].pc # "queued"
          /\ \A q \in Rows \ {r} : row'[q] = row[q]
      BY <1>0, <2>3 DEF RowRecords
    <3>2. row[r].outcome = "none" /\ phase # "done"
      BY <1>0, <2>1 DEF RowInv, Idle
    <3>3. QED
      BY <1>0, <2>1, <2>3, <3>1, <3>2, RowOnLedger
  <2>4. QED
    BY <1>14, <2>2, <2>3 DEF Wake
<1>15. QED
  BY <1>5, <1>6, <1>7, <1>8, <1>9, <1>10, <1>11, <1>12, <1>13, <1>14 DEF RowStep

LEMMA StutterOnLedger ==
    ASSUME UNCHANGED <<batch, row, cancelled, stopped, others, held>>,
           phase' = "done" <=> phase = "done"
    PROVE  UNCHANGED Ledger!vars
<1>1. UNCHANGED {r \in Rows : row[r].pc # "queued"}
  OBVIOUS
<1>2. UNCHANGED [r \in Rows |-> row[r].outcome]
  OBVIOUS
<1>3. UNCHANGED {r \in Rows : batch[r].record \in others}
  OBVIOUS
<1>4. QED
  BY <1>1, <1>2, <1>3 DEF Ledger!vars

LEMMA LoopOnLedger ==
    ASSUME IInv, Loop
    PROVE  [Ledger!Next]_(Ledger!vars)
<1> USE DEF IInv
<1>0. row \in [Rows -> RowRecords]
  BY DEF TypeOK, RowRecords
<1>1. CASE Schedule
  <2> DEFINE unsent == {r \in Taken : Unsendable(r)}
             begun == {r \in Rows : row[r].pc # "queued"}
  <2>1. Taken \subseteq Rows /\ Taken \cap begun = {}
    <3>1. After \in next..(RowCount + 1)
      BY QueueMoves
    <3>2. next \in Nat \ {0}
      BY DEF TypeOK
    <3>3. \A r \in Taken : r \in Rows /\ r >= next
      BY <3>1, <3>2 DEF Taken, Rows
    <3>4. QED
      BY <3>3 DEF RowInv
  <2>2. \A r \in Rows :
          /\ r \notin Taken => row'[r] = row[r]
          /\ r \in Taken => row'[r].pc # "queued"
          /\ r \in unsent => row'[r].outcome = "skipped"
          /\ r \notin unsent => row'[r].outcome = row[r].outcome
    BY <1>0, <1>1 DEF Schedule, RowRecords
  <2>3. {r \in Rows : row[r].pc # "queued"}' = begun \cup Taken
    BY <2>1, <2>2
  <2>4. [r \in Rows |-> row[r].outcome]'
          = [r \in Rows |-> IF r \in unsent THEN "skipped"
                            ELSE [q \in Rows |-> row[q].outcome][r]]
    BY <2>2
  <2>5. /\ phase = "turn" /\ phase' # "done" /\ ~cancelled /\ ~stopped
        /\ UNCHANGED <<batch, cancelled, stopped, others, held>>
    BY <1>1 DEF Schedule, server
  <2>6. Taken \in SUBSET (Rows \ begun) /\ unsent \subseteq Taken
    BY <2>1
  <2>7. Ledger!Begin(Taken, unsent)
    BY <2>3, <2>4, <2>5, <2>6 DEF Ledger!Begin
  <2>8. Taken \in SUBSET Rows /\ unsent \in SUBSET Taken
    BY <2>1
  <2> HIDE DEF unsent
  <2>9. \E S \in SUBSET Rows : \E u \in SUBSET S : Ledger!Begin(S, u)
    BY <2>7, <2>8, Zenon DEF Ledger!Begin
  <2>10. QED
    BY <2>9, Zenon DEF Ledger!Next
<1>2. CASE Recheck \/ PauseEnds \/ LoopEnds
  BY <1>2, StutterOnLedger DEF Recheck, PauseEnds, LoopEnds, server
<1>3. CASE Report
  <2>1. \A r \in Rows : row[r].pc # "queued" => row[r].outcome # "none"
    BY <1>3 DEF Report, InFlight, RowInv
  <2>2. Ledger!Report
    BY <1>3, <2>1 DEF Report, server, Ledger!Report
  <2>3. QED
    BY <2>2 DEF Ledger!Next
<1>4. QED
  BY <1>1, <1>2, <1>3 DEF Loop

LEMMA WorldOnLedger ==
    ASSUME IInv
    PROVE  /\ \A r \in Rows : LateEdit(r) => [Ledger!Next]_(Ledger!vars)
           /\ \A rec \in Records : OtherEdit(rec) => [Ledger!Next]_(Ledger!vars)
           /\ Cancel => [Ledger!Next]_(Ledger!vars)
           /\ TimePasses => [Ledger!Next]_(Ledger!vars)
<1> USE DEF IInv
<1>1. ASSUME NEW r \in Rows, LateEdit(r) PROVE [Ledger!Next]_(Ledger!vars)
  <2>1. /\ lurking[r] > 0
        /\ UNCHANGED <<batch, phase, row, cancelled, stopped, others>>
    BY <1>1 DEF LateEdit, loop
  <2>2. CASE held' = held
    BY <2>1, <2>2, StutterOnLedger
  <2>3. CASE Apply(r)
    <3>1. row[r].pc # "queued" /\ row[r].outcome \notin {"stale", "skipped"}
      BY <2>1 DEF RowInv
    <3>2. Ledger!Take(r)
      BY <2>1, <2>3, <3>1 DEF Apply, Ledger!Take
    <3>3. QED
      BY <3>2 DEF Ledger!Next
  <2>4. QED
    BY <1>1, <2>2, <2>3 DEF LateEdit
<1>2. ASSUME NEW rec \in Records, OtherEdit(rec) PROVE [Ledger!Next]_(Ledger!vars)
  <2> DEFINE S == {r \in Rows : batch[r].record = rec}
  <2>1. {r \in Rows : batch[r].record \in others}'
          = {r \in Rows : batch[r].record \in others} \cup S
    BY <1>2 DEF OtherEdit
  <2>2. Ledger!Change(S)
    BY <1>2, <2>1 DEF OtherEdit, loop, Ledger!Change
  <2>3. S \in SUBSET Rows
    OBVIOUS
  <2> HIDE DEF S
  <2>4. \E changed \in SUBSET Rows : Ledger!Change(changed)
    BY <2>2, <2>3, Zenon DEF Ledger!Change
  <2>5. QED
    BY <2>4, Zenon DEF Ledger!Next
<1>3. ASSUME Cancel PROVE [Ledger!Next]_(Ledger!vars)
  <2>1. Ledger!Halt
    BY <1>3 DEF Cancel, Idle, loop, server, Ledger!Halt
  <2>2. QED
    BY <2>1 DEF Ledger!Next
<1>4. ASSUME TimePasses PROVE [Ledger!Next]_(Ledger!vars)
  BY <1>4, StutterOnLedger DEF TimePasses, loop, server
<1>5. QED
  BY <1>1, <1>2, <1>3, <1>4

\* The job implements its ledger: verdicts are final and true, a row is begun
\* once and not after a halt, and the result waits for every row that was begun
\* (batchService.ts: batchUpdate and updateOneWithRetry).
THEOREM LedgerKept == Spec => KeepsTheLedger
<1>1. Init => Ledger!Init
  BY DEF Init, Ledger!Init
<1>2. IInv /\ IntactHeld /\ [Next]_vars => [Ledger!Next]_(Ledger!vars)
  <2> SUFFICES ASSUME IInv, IntactHeld, [Next]_vars
               PROVE  [Ledger!Next]_(Ledger!vars)
    OBVIOUS
  <2>1. CASE UNCHANGED vars
    BY <2>1, StutterOnLedger DEF vars, server
  <2>2. CASE Next
    BY <2>2, LoopOnLedger, RowStepOnLedger, WorldOnLedger DEF Next
  <2>3. QED
    BY <2>1, <2>2
<1>3. QED
  BY <1>1, <1>2, Inductive, IntactAreHeld, PTL DEF Spec, KeepsTheLedger, Ledger!Spec
=============================================================================
