------------------------------ MODULE JobRunner ------------------------------
(***************************************************************************)
(* The job runner (services/jobRunner.ts): background tasks with a status, *)
(* a cancellation flag the task may look at, and the persisted list of     *)
(* recent jobs.  A module that EXTENDS this one is the task: it calls      *)
(* StartJob when the job starts and TaskReturns or TaskThrows when the     *)
(* task's promise settles.                                                 *)
(***************************************************************************)
EXTENDS Integers, Sequences, FiniteSets

CONSTANTS
    Jobs,          \* the jobs of one session of the window and their ids
    RecentLimit    \* filemaker.jobs.recentLimit: jobs kept in the list

ASSUME RecentLimitAssumption == RecentLimit \in Nat \ {0}

VARIABLES
    status,      \* state.status of every job; "none" before it starts, "gone" once the window was reloaded under it
    cancelled,   \* controller.cancelled
    details,     \* what the ended job says of itself: "noFile", "cancelled" or "plain"
    recent       \* the Memento filemaker.jobs.recent, newest first

jobVars == <<status, cancelled, details, recent>>

Live == {"running", "cancelling"}
Over == {"completed", "failed", "cancelled"}
Summary == [job : Jobs, status : Over]

InitJobs ==
    /\ status = [j \in Jobs |-> "none"]
    /\ cancelled = [j \in Jobs |-> FALSE]
    /\ details = [j \in Jobs |-> "plain"]
    /\ recent = <<>>

\* startJob calls runTask at once: "queued" is over before anyone else runs.
StartJob(j) ==
    /\ status[j] = "none"
    /\ status' = [status EXCEPT ![j] = "running"]
    /\ UNCHANGED <<cancelled, details, recent>>

CancelJob(j) ==
    /\ status[j] = "running"
    /\ status' = [status EXCEPT ![j] = "cancelling"]
    /\ cancelled' = [cancelled EXCEPT ![j] = TRUE]
    /\ UNCHANGED <<details, recent>>

(***************************************************************************)
(* persistSummary reads the list and calls Memento.update in one turn, and *)
(* the Memento answers with the new value from then on.                    *)
(***************************************************************************)
FirstOf(list, n) == SubSeq(list, 1, IF Len(list) < n THEN Len(list) ELSE n)

\* current.filter: a job is in the list at most once (RecentTypeOK), so one item goes or none.
Without(list, j) ==
    IF \E i \in 1..Len(list) : list[i].job = j
    THEN LET i == CHOOSE i \in 1..Len(list) : list[i].job = j
         IN  SubSeq(list, 1, i - 1) \o SubSeq(list, i + 1, Len(list))
    ELSE list

Persisted(j, verdict) ==
    FirstOf(<<[job |-> j, status |-> verdict]>> \o Without(recent, j), RecentLimit)

TaskEnds(j, verdict, says) ==
    /\ status[j] \in Live
    /\ status' = [status EXCEPT ![j] = verdict]
    /\ details' = [details EXCEPT ![j] = says]
    /\ recent' = Persisted(j, verdict)
    /\ UNCHANGED cancelled

\* says: what cancelledDetails makes of the task's result
TaskReturns(j, says) ==
    IF cancelled[j] THEN TaskEnds(j, "cancelled", says) ELSE TaskEnds(j, "completed", "plain")

TaskThrows(j) ==
    IF cancelled[j] THEN TaskEnds(j, "cancelled", "cancelled") ELSE TaskEnds(j, "failed", "plain")

\* The extension host restarts: running jobs are gone, the list stays.
JobsLost ==
    /\ status' = [j \in Jobs |-> IF status[j] \in Live THEN "gone" ELSE status[j]]
    /\ UNCHANGED <<cancelled, details, recent>>

StatesTypeOK ==
    /\ status \in [Jobs -> Live \cup Over \cup {"none", "gone"}]
    /\ cancelled \in [Jobs -> BOOLEAN]
    /\ details \in [Jobs -> {"noFile", "cancelled", "plain"}]
RecentTypeOK ==
    /\ recent \in Seq(Summary) /\ Len(recent) <= RecentLimit
    /\ \A m, n \in 1..Len(recent) : recent[m].job = recent[n].job => m = n
=============================================================================
