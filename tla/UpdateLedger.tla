---------------------------- MODULE UpdateLedger -----------------------------
(***************************************************************************)
(* What a batch update promises about its rows, whatever its retries, its  *)
(* slots and its breaker do: a row is begun once, gets one verdict for     *)
(* good, and the verdict is true.  The verdicts are those of               *)
(* batchUpdate's result (services/batchService.ts).                        *)
(***************************************************************************)

CONSTANT Rows

VARIABLES
    begun,      \* rows taken from the file
    verdict,    \* what the result will say of each row
    held,       \* rows whose values their record has held
    changed,    \* rows whose record somebody else changed
    halted,     \* the user cancelled, or the account cannot do this
    reported    \* the result was handed out

vars == <<begun, verdict, held, changed, halted, reported>>

Init ==
    /\ begun = {} /\ held = {} /\ changed = {}
    /\ verdict = [r \in Rows |-> "none"]
    /\ halted = FALSE /\ reported = FALSE

\* Rows leave the queue; some can be told at once that they will not be sent.
Begin(S, unsent) ==
    /\ ~halted /\ ~reported
    /\ S \in SUBSET (Rows \ begun) /\ unsent \subseteq S
    /\ begun' = begun \cup S
    /\ verdict' = [r \in Rows |-> IF r \in unsent THEN "skipped" ELSE verdict[r]]
    /\ UNCHANGED <<held, changed, halted, reported>>

\* "updated" is said of a row whose values the record has held, "stale" of one
\* that was never written and whose record somebody else did change.
Settle(r) ==
    /\ ~reported
    /\ r \in begun /\ verdict[r] = "none"
    /\ held' \in {held, held \cup {r}}
    /\ \E v \in {"updated", "stale", "unconfirmed", "failed"} :
         /\ v = "updated" => r \in held'
         /\ v = "stale" => r \in changed /\ r \notin held'
         /\ verdict' = [verdict EXCEPT ![r] = v]
    /\ halted' \in {halted, TRUE}
    /\ UNCHANGED <<begun, changed, reported>>

\* The server writes the row, perhaps late: never one said to be unwritten.
Take(r) ==
    /\ r \in begun /\ verdict[r] \notin {"stale", "skipped"}
    /\ held' = held \cup {r}
    /\ UNCHANGED <<begun, verdict, changed, halted, reported>>

Change(S) ==
    /\ changed' = changed \cup S
    /\ UNCHANGED <<begun, verdict, held, halted, reported>>

Halt ==
    /\ ~reported
    /\ halted' = TRUE
    /\ UNCHANGED <<begun, verdict, held, changed, reported>>

Report ==
    /\ ~reported
    /\ \A r \in begun : verdict[r] # "none"
    /\ reported' = TRUE
    /\ UNCHANGED <<begun, verdict, held, changed, halted>>

Next ==
    \/ \E S \in SUBSET Rows : \E unsent \in SUBSET S : Begin(S, unsent)
    \/ \E r \in Rows : Settle(r) \/ Take(r)
    \/ \E S \in SUBSET Rows : Change(S)
    \/ Halt
    \/ Report

Spec == Init /\ [][Next]_vars
=============================================================================
