----------------------------- MODULE BatchUpdate -----------------------------
(***************************************************************************)
(* One batch update job: BatchService.batchUpdate and updateOneWithRetry   *)
(* (services/batchService.ts) over a FileMaker server whose answers may be *)
(* lost, late or bad, while other people edit the same records and the     *)
(* user may cancel.  A row goes through its attempts by itself; the loop   *)
(* that fills the slots runs at once when a row settles.                   *)
(*                                                                         *)
(* Not modelled: dry runs, the field check before the job, the values and  *)
(* the wording of results, progress and the job log.                       *)
(***************************************************************************)
EXTENDS CircuitBreaker, AdaptiveConcurrency, FiniteSets

CONSTANTS
    Records,       \* FileMaker records
    RowCount,      \* rows of the file, in its order
    Batches,       \* the files a job may be given
    MaxAttempts    \* attempts of one row; the code has 3

Rows == 1..RowCount

\* checked: the row has a modId and the user keeps the check.  kind: a row to
\* write, one with a NUL character, or one without editable values.
Entries == [record : Records, checked : BOOLEAN, kind : {"edit", "nul", "empty"}]

ASSUME BatchAssumption ==
    /\ RowCount \in Nat \ {0} /\ MaxAttempts \in Nat \ {0}
    /\ Batches \subseteq [Rows -> Entries]

VARIABLES
    batch,      \* the file of this job
    phase,      \* where the scheduling loop stands
    next,       \* first row still in the queue
    row,        \* per row: pc, attempts begun, outcomeUnknown, outcome
    cancelled,  \* job.isCancellationRequested()
    stopped,    \* stoppedReason is set
    breaker,
    adaptive,
    others,     \* records somebody else changed since the export
    held,       \* rows whose values their record has held
    intact,     \* rows whose values their record holds now
    lurking     \* lost edits per row that the server may still carry out

loop == <<phase, next>>
server == <<others, held, intact, lurking>>
vars == <<batch, phase, next, row, cancelled, stopped, breaker, adaptive, server>>

Outcomes == {"none", "updated", "skipped", "stale", "unconfirmed", "failed"}
Steps == {"queued", "signing", "sent", "renewing", "resent", "rereading",
          "sleeping", "done"}
Phases == {"turn", "checking", "waiting", "pausing", "draining", "done"}

TypeOK ==
    /\ batch \in Batches
    /\ phase \in Phases
    /\ next \in 1..(RowCount + 1)
    /\ row \in [Rows -> [pc : Steps, attempt : 0..MaxAttempts,
                         unknown : BOOLEAN, outcome : Outcomes]]
    /\ cancelled \in BOOLEAN /\ stopped \in BOOLEAN
    /\ breaker \in Breakers
    /\ adaptive \in Limits
    /\ others \in SUBSET Records
    /\ held \in SUBSET Rows /\ intact \in SUBSET Rows
    /\ lurking \in [Rows -> 0..MaxAttempts]

-----------------------------------------------------------------------------
(* The file and the rows *)

\* A row without editable values does not make a later one a duplicate.
Duplicate(r) ==
    /\ batch[r].kind # "empty"
    /\ \E q \in 1..(r - 1) :
         batch[q].kind # "empty" /\ batch[q].record = batch[r].record

\* Rows that settle without a request: duplicates and rows with NUL fail, rows
\* without editable values count as skipped.
Unsendable(r) == Duplicate(r) \/ batch[r].kind # "edit"

InFlight == {r \in Rows : row[r].pc \notin {"queued", "done"}}

\* No continuation of the loop is due: the host may deliver an event.
Idle == phase \in {"waiting", "pausing", "draining"}

-----------------------------------------------------------------------------
(* The scheduling loop *)

Init ==
    /\ batch \in Batches
    /\ phase = "turn" /\ next = 1
    /\ row = [r \in Rows |-> [pc |-> "queued", attempt |-> 0,
                              unknown |-> FALSE, outcome |-> "none"]]
    /\ cancelled = FALSE /\ stopped = FALSE
    /\ breaker = Closed
    /\ adaptive = InitialLimits
    /\ others = {} /\ held = {} /\ intact = {}
    /\ lurking = [r \in Rows |-> 0]

Room == adaptive.limit - Cardinality(InFlight)

\* The queue after scheduleNext: the breaker is asked only if there is a row and
\* room for it, and answers the same for every row of the turn.
After ==
    IF Room > 0 /\ CanRequest(breaker) THEN Least(next + Room, RowCount + 1) ELSE next

Taken == next..(After - 1)

LoopGoesOn == next <= RowCount \/ InFlight # {}

Schedule ==
    /\ phase = "turn"
    /\ LoopGoesOn
    /\ ~cancelled /\ ~stopped
    /\ breaker' = IF Room > 0 /\ next <= RowCount THEN Evaluated(breaker) ELSE breaker
    /\ next' = After
    /\ row' = [r \in Rows |->
                 IF r \notin Taken THEN row[r]
                 ELSE IF Unsendable(r)
                 THEN [row[r] EXCEPT !.pc = "done", !.outcome = "skipped"]
                 ELSE [row[r] EXCEPT !.pc = "signing", !.attempt = 1]]
    /\ phase' = IF InFlight \cup Taken = {} THEN "checking"
                ELSE IF \E r \in Taken : Unsendable(r) THEN "turn"
                ELSE "waiting"
    /\ UNCHANGED <<batch, cancelled, stopped, adaptive, server>>

\* Nothing is in flight: the loop asks the breaker a second time, and gives up
\* with rows still queued if its time ran out since scheduleNext asked.
Recheck ==
    /\ phase = "checking"
    /\ breaker' = Evaluated(breaker)
    /\ phase' = IF CanRequest(breaker) THEN "draining" ELSE "pausing"
    /\ UNCHANGED <<batch, next, row, cancelled, stopped, adaptive, server>>

PauseEnds ==
    /\ phase = "pausing"
    /\ phase' = "turn"
    /\ UNCHANGED <<batch, next, row, cancelled, stopped, breaker, adaptive, server>>

\* The while condition, or the break for a cancelled or stopped job.
LoopEnds ==
    /\ phase = "turn"
    /\ ~LoopGoesOn \/ cancelled \/ stopped
    /\ phase' = "draining"
    /\ UNCHANGED <<batch, next, row, cancelled, stopped, breaker, adaptive, server>>

\* await Promise.all(inFlight), then the result.
Report ==
    /\ phase = "draining"
    /\ InFlight = {}
    /\ phase' = "done"
    /\ UNCHANGED <<batch, next, row, cancelled, stopped, breaker, adaptive, server>>

-----------------------------------------------------------------------------
(* One row *)

(* The failures a request can meet; a sign-in can meet each of them too.
     dropped  no HTTP response, or one cut off
     gateway  HTTP 429 or 5xx without a FileMaker code
     final    no code and not retried: a change that timed out (and may have
              been carried out), a certificate, an unknown host, no password
     garbled  an answer that is not the Data API's, which has a code of its own
     busy     956 or 1701 with HTTP 429 or 5xx: the server takes no request
     full     the same with another status or none, such as the client's own
              pause after a 956
     locked   301 and its kin: the record is in use; a proxy out of reach
     refused  any other FileMaker code about this record
     barred   9, 205, 207 or a credentials code: the account cannot do this *)
Failures == {"dropped", "gateway", "final", "garbled", "busy", "full",
             "locked", "refused", "barred"}

\* The failure has a code and says that nothing was changed.
Coded(e) == e \in {"busy", "full", "locked", "refused", "barred"}
Retryable(e) == e \in {"dropped", "gateway", "busy", "full", "locked"}
ServerTrouble(e) == e \in {"dropped", "gateway", "final", "busy", "full"}
Hard(e) == e \in {"gateway", "busy"}
StopsTheJob(e) == e = "barred"

\* The row leaves inFlight, which wakes the loop if it waits for that.
Settle(r, outcome, stops) ==
    /\ row' = [row EXCEPT ![r].pc = "done", ![r].outcome = outcome]
    /\ stopped' = (stopped \/ stops)
    /\ phase' = IF phase = "waiting" THEN "turn" ELSE phase

\* A plausible bug: a lost answer is forgotten when the row is tried again.
FailForgetful(r, e) ==
    /\ breaker' = IF ServerTrouble(e) THEN AfterFailure(breaker) ELSE breaker
    /\ adaptive' = IF ServerTrouble(e) THEN Slower(adaptive, Hard(e)) ELSE adaptive
    /\ \/ /\ cancelled \/ ~Retryable(e) \/ row[r].attempt >= MaxAttempts
          /\ Settle(r, "failed", StopsTheJob(e))
       \/ /\ ~cancelled /\ Retryable(e) /\ row[r].attempt < MaxAttempts
          /\ row' = [row EXCEPT ![r].pc = "sleeping"]
          /\ UNCHANGED <<phase, stopped>>

\* The catch of updateOneWithRetry for an attempt that failed with e.
Fail(r, e) ==
    /\ breaker' = IF ServerTrouble(e) THEN AfterFailure(breaker) ELSE breaker
    /\ adaptive' = IF ServerTrouble(e) THEN Slower(adaptive, Hard(e)) ELSE adaptive
    /\ \/ /\ cancelled \/ ~Retryable(e) \/ row[r].attempt >= MaxAttempts
          /\ Settle(r, "failed", StopsTheJob(e))
       \/ /\ ~cancelled /\ Retryable(e) /\ row[r].attempt < MaxAttempts
          /\ row' = [row EXCEPT ![r].pc = "sleeping",
                                ![r].unknown = @ \/ ~Coded(e)]
          /\ UNCHANGED <<phase, stopped>>

Succeed(r) ==
    /\ breaker' = AfterSuccess(breaker)
    /\ \E latency \in Latencies : adaptive' = Quicker(adaptive, latency)
    /\ Settle(r, "updated", FALSE)

\* The record of r is still as exported: its modification id has not moved.
AsExported(r) ==
    /\ batch[r].record \notin others
    /\ \A q \in held : batch[q].record # batch[r].record

Accepted(r) == ~batch[r].checked \/ AsExported(r)

\* FileMaker writes the values of r into its record.
Apply(r) ==
    /\ held' = held \cup {r}
    /\ intact' = {q \in intact : batch[q].record # batch[r].record} \cup {r}

Sending(r) == row[r].pc \in {"sent", "resent"}

\* The token comes from the cache, a sign-in or the renewal after a 401: the
\* whole of FMSession is behind this step.
TokenComes(r) ==
    /\ Idle /\ row[r].pc \in {"signing", "renewing"}
    /\ row' = [row EXCEPT ![r].pc = IF @ = "signing" THEN "sent" ELSE "resent"]
    /\ UNCHANGED <<batch, loop, cancelled, stopped, breaker, adaptive, server>>

NoTokenComes(r) ==
    /\ Idle /\ row[r].pc \in {"signing", "renewing"}
    /\ \E e \in Failures : Fail(r, e)
    /\ UNCHANGED <<batch, next, cancelled, server>>

\* HTTP 401: the transport renews the token and sends the edit once more.
TokenRejected(r) ==
    /\ Idle /\ row[r].pc = "sent"
    /\ row' = [row EXCEPT ![r].pc = "renewing"]
    /\ UNCHANGED <<batch, loop, cancelled, stopped, breaker, adaptive, server>>

EditAnswered(r) ==
    /\ Idle /\ Sending(r)
    /\ Accepted(r)
    /\ Apply(r)
    /\ Succeed(r)
    /\ UNCHANGED <<batch, next, cancelled, others, lurking>>

\* FileMaker answers with an error and has changed nothing.
EditRefused(r) ==
    /\ Idle /\ Sending(r)
    /\ \E e \in {e \in Failures : Coded(e)} : Fail(r, e)
    /\ UNCHANGED <<batch, next, cancelled, server>>

\* The answer is lost.  The edit was carried out, will be later, or never.
EditLost(r) ==
    /\ Idle /\ Sending(r)
    /\ \E e \in {e \in Failures : ~Coded(e)} : Fail(r, e)
    /\ \/ Accepted(r) /\ Apply(r) /\ UNCHANGED lurking
       \/ lurking' = [lurking EXCEPT ![r] = @ + 1] /\ UNCHANGED <<held, intact>>
       \/ UNCHANGED <<held, intact, lurking>>
    /\ UNCHANGED <<batch, next, cancelled, others>>

\* Error 306.  After a lost answer it may be the row's own edit that moved the
\* modification id: the record is read again unless the job was cancelled.
EditStale(r) ==
    /\ Idle /\ Sending(r)
    /\ ~Accepted(r)
    /\ \/ ~row[r].unknown /\ Settle(r, "stale", FALSE)
       \/ row[r].unknown /\ cancelled /\ Settle(r, "unconfirmed", FALSE)
       \/ /\ row[r].unknown /\ ~cancelled
          /\ row' = [row EXCEPT ![r].pc = "rereading"]
          /\ UNCHANGED <<phase, stopped>>
    /\ UNCHANGED <<batch, next, cancelled, breaker, adaptive, server>>

RereadConfirms(r) ==
    /\ Idle /\ row[r].pc = "rereading"
    /\ r \in intact
    /\ Succeed(r)
    /\ UNCHANGED <<batch, next, cancelled, server>>

\* Other values, or the read itself failed.
RereadFails(r) ==
    /\ Idle /\ row[r].pc = "rereading"
    /\ Settle(r, "unconfirmed", FALSE)
    /\ UNCHANGED <<batch, next, cancelled, breaker, adaptive, server>>

\* A plausible bug: the cancellation is not looked at after the sleep.
WakeRegardless(r) ==
    /\ Idle /\ row[r].pc = "sleeping"
    /\ row' = [row EXCEPT ![r].pc = "signing", ![r].attempt = @ + 1]
    /\ UNCHANGED <<batch, loop, cancelled, stopped, breaker, adaptive, server>>

\* The backoff is over.  Neither the breaker nor stoppedReason is asked.
Wake(r) ==
    /\ Idle /\ row[r].pc = "sleeping"
    /\ \/ cancelled /\ Settle(r, "failed", FALSE)
       \/ /\ ~cancelled
          /\ row' = [row EXCEPT ![r].pc = "signing", ![r].attempt = @ + 1]
          /\ UNCHANGED <<phase, stopped>>
    /\ UNCHANGED <<batch, next, cancelled, breaker, adaptive, server>>

-----------------------------------------------------------------------------
(* The user, other people and the clock *)

Cancel ==
    /\ Idle /\ ~cancelled
    /\ cancelled' = TRUE
    /\ UNCHANGED <<batch, loop, row, stopped, breaker, adaptive, server>>

\* Somebody edits the record: the fields a row wrote, or other ones.
OtherEdit(rec) ==
    /\ others' = others \cup {rec}
    /\ \/ intact' = {q \in intact : batch[q].record # rec}
       \/ UNCHANGED intact
    /\ UNCHANGED <<batch, loop, row, cancelled, stopped, breaker, adaptive, held, lurking>>

LateEdit(r) ==
    /\ lurking[r] > 0
    /\ lurking' = [lurking EXCEPT ![r] = @ - 1]
    /\ \/ Accepted(r) /\ Apply(r)
       \/ ~Accepted(r) /\ UNCHANGED <<held, intact>>
    /\ UNCHANGED <<batch, loop, row, cancelled, stopped, breaker, adaptive, others>>

TimePasses ==
    /\ phase # "done"
    /\ breaker.state = "open" /\ breaker.openLeft > 0
    /\ breaker' = Tick(breaker)
    /\ UNCHANGED <<batch, loop, row, cancelled, stopped, adaptive, server>>

-----------------------------------------------------------------------------

Loop == Schedule \/ Recheck \/ PauseEnds \/ LoopEnds \/ Report

RowStep(r) ==
    \/ TokenComes(r) \/ NoTokenComes(r) \/ TokenRejected(r)
    \/ EditAnswered(r) \/ EditRefused(r) \/ EditLost(r) \/ EditStale(r)
    \/ RereadConfirms(r) \/ RereadFails(r)
    \/ Wake(r)

Next ==
    \/ Loop
    \/ \E r \in Rows : RowStep(r) \/ LateEdit(r)
    \/ \E rec \in Records : OtherEdit(rec)
    \/ Cancel
    \/ TimePasses

Spec == Init /\ [][Next]_vars

\* Continuations run, timers fire, requests are answered or time out (axios),
\* and the clock goes on.  Nobody has to cancel, edit a record or lose a token.
Fairness ==
    /\ WF_vars(Loop)
    /\ \A r \in Rows : WF_vars(RowStep(r))
    /\ WF_vars(TimePasses)

FairSpec == Spec /\ Fairness

-----------------------------------------------------------------------------
(* Properties *)

Ledger == INSTANCE UpdateLedger WITH
    begun <- {r \in Rows : row[r].pc # "queued"},
    verdict <- [r \in Rows |-> row[r].outcome],
    changed <- {r \in Rows : batch[r].record \in others},
    halted <- cancelled \/ stopped,
    reported <- phase = "done"

\* Through lost answers, retries, late edits and other people's edits each row
\* gets one verdict and a true one: "updated" only if the record has held its
\* values, "changed since the export" only if somebody else changed the record
\* and this row did not, nothing settles or begins after the result was handed
\* out, and no row begins once the job is cancelled or stopped
\* (batchService.ts: updateOneWithRetry, the 306 branch and the final await).
KeepsTheLedger == Ledger!Spec

\* Once the user has cancelled, no row is taken from the queue and no row begins
\* another attempt, whatever it was doing (the cancellation is looked at before
\* scheduling, in the catch and again after the backoff sleep).
NoAttemptAfterCancel ==
    [][cancelled => /\ next' = next
                    /\ \A r \in Rows : row'[r].attempt = row[r].attempt]_vars

\* A job comes to an end however the server behaves: no sequence of troubles
\* leaves it pausing before an open breaker or waiting for slots (the loop, the
\* pause of 300 ms and the breaker's way back to half-open).
JobEnds == <>(phase = "done")
=============================================================================
