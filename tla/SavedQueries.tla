----------------------------- MODULE SavedQueries -----------------------------
(***************************************************************************)
(* Saved queries (services/savedQueriesStore.ts): two lists, one of the    *)
(* workspace and one of the user, each in a Memento.  The first operations *)
(* of a window migrate both from an older key, each on its own, one        *)
(* awaited update after the other; a reload may fall between any two.      *)
(* Removing a profile (profileStore.ts removeProfile, then                 *)
(* removeQueriesForProfile) goes through the old key and both lists.       *)
(*                                                                         *)
(* Every old query has an id here: one without is given a new id by every  *)
(* migration that reads it.                                                *)
(***************************************************************************)
EXTENDS Integers

CONSTANTS
    Ops,           \* calls of the store
    Queries,       \* saved queries by id
    Profiled,      \* those of the profile a call may remove
    NoScope,
    MaxRestarts    \* bound

VARIABLES
    memory,        \* what each Memento answers
    disk,          \* what it has stored: a restart reads this
    wish,          \* history: what each list should hold
    wishOnDisk,
    initialized,
    op,            \* per call: kind, list and query, where it waits, for which list's storage, and its locals
    overwritten,   \* history: removeQueriesForProfile wrote a list that had changed since it was read
    restarts

queryVars == <<memory, disk, wish, wishOnDisk, initialized, op, overwritten, restarts>>

Scopes == {"workspace", "global"}
Contents == {"none", "old", "new"}
Lists == [Queries -> Contents]
NotBegun == [kind |-> "list", scope |-> "workspace", query |-> CHOOSE q \in Queries : TRUE,
             place |-> "idle", at |-> "workspace", waits |-> NoScope, hadLegacy |-> FALSE,
             read |-> [q \in Queries |-> "none"]]

InitQueries ==
    /\ \E legacy \in [Scopes -> SUBSET Queries] :
         /\ memory = [s \in Scopes |->
              [data |-> [q \in Queries |-> "none"], version |-> 0, legacy |-> legacy[s]]]
         /\ wish = [s \in Scopes |-> [q \in Queries |-> IF q \in legacy[s] THEN "old" ELSE "none"]]
    /\ disk = memory /\ wishOnDisk = wish
    /\ initialized = FALSE
    /\ op = [o \in Ops |-> NotBegun]
    /\ overwritten = FALSE /\ restarts = 0

Ready(o, place) == op[o].place = place /\ op[o].waits = NoScope
Waits(o, place, scope) == op' = [op EXCEPT ![o].place = place, ![o].waits = scope]
Returns(o, scope) == op' = [op EXCEPT ![o] = [NotBegun EXCEPT !.place = "over", !.waits = scope]]

-----------------------------------------------------------------------------
(* A call begins.  A profile's removal first filters the old key. *)

First == IF initialized THEN "act" ELSE "check"

Begins(o) ==
    /\ op[o].place = "idle"
    /\ \/ op' = [op EXCEPT ![o].place = First]
       \/ \E k \in {"save", "remove"}, s \in Scopes, q \in Queries :
            op' = [op EXCEPT ![o].kind = k, ![o].scope = s, ![o].query = q, ![o].place = First]
    /\ UNCHANGED <<memory, disk, wish, wishOnDisk, initialized, overwritten, restarts>>

RemovesProfile(o) ==
    /\ op[o].place = "idle"
    /\ op' = [op EXCEPT ![o].kind = "removeProfile", ![o].place = "filtered", ![o].waits = "workspace"]
    /\ memory' = [memory EXCEPT !["workspace"].legacy = @ \ Profiled]
    /\ wish' = [wish EXCEPT !["workspace"] = [q \in Queries |->
          IF q \in Profiled THEN memory["workspace"].data[q] ELSE @[q]]]
    /\ UNCHANGED <<disk, wishOnDisk, initialized, overwritten, restarts>>

OldKeyFiltered(o) ==
    /\ Ready(o, "filtered")
    /\ op' = [op EXCEPT ![o].place = First]
    /\ UNCHANGED <<memory, disk, wish, wishOnDisk, initialized, overwritten, restarts>>

-----------------------------------------------------------------------------
(* ensureInitialized and migrateState *)

Merged(s) == [q \in Queries |-> IF q \in memory[s].legacy THEN "old" ELSE memory[s].data[q]]

\* The next list, or the end of ensureInitialized.
GoesOn(o) ==
    IF op[o].at = "workspace"
    THEN /\ op' = [op EXCEPT ![o].at = "global", ![o].place = "check"]
         /\ UNCHANGED initialized
    ELSE /\ op' = [op EXCEPT ![o].place = "act"]
         /\ initialized' = TRUE

\* Mutant: the store counts as initialized while the migration waits.
MigrationBeginsTrusted(o) ==
    LET s == op[o].at IN
    /\ Ready(o, "check") /\ memory[s].version = 0
    /\ memory' = [memory EXCEPT ![s].data = Merged(s)]
    /\ op' = [op EXCEPT ![o].place = "merged", ![o].waits = s,
                        ![o].hadLegacy = memory[s].legacy # {}]
    /\ initialized' = TRUE
    /\ UNCHANGED <<disk, wish, wishOnDisk, overwritten, restarts>>

MigrationBegins(o) ==
    LET s == op[o].at IN
    /\ Ready(o, "check") /\ memory[s].version = 0
    /\ memory' = [memory EXCEPT ![s].data = Merged(s)]
    /\ op' = [op EXCEPT ![o].place = "merged", ![o].waits = s,
                        ![o].hadLegacy = memory[s].legacy # {}]
    /\ UNCHANGED <<disk, wish, wishOnDisk, initialized, overwritten, restarts>>

MigratedBefore(o) ==
    /\ Ready(o, "check") /\ memory[op[o].at].version = 1
    /\ GoesOn(o)
    /\ UNCHANGED <<memory, disk, wish, wishOnDisk, overwritten, restarts>>

VersionWritten(o) ==
    /\ Ready(o, "merged")
    /\ memory' = [memory EXCEPT ![op[o].at].version = 1]
    /\ Waits(o, "versioned", op[o].at)
    /\ UNCHANGED <<disk, wish, wishOnDisk, initialized, overwritten, restarts>>

OldKeyRemoved(o) ==
    /\ Ready(o, "versioned") /\ op[o].hadLegacy
    /\ memory' = [memory EXCEPT ![op[o].at].legacy = {}]
    /\ Waits(o, "cleared", op[o].at)
    /\ UNCHANGED <<disk, wish, wishOnDisk, initialized, overwritten, restarts>>

Migrated(o) ==
    /\ Ready(o, "cleared") \/ (Ready(o, "versioned") /\ ~op[o].hadLegacy)
    /\ GoesOn(o)
    /\ UNCHANGED <<memory, disk, wish, wishOnDisk, overwritten, restarts>>

-----------------------------------------------------------------------------
(* What the calls do: each reads its list and updates it in one turn, but  *)
(* removeQueriesForProfile reads both lists before it awaits the first     *)
(* update.                                                                 *)

Without(list) == [q \in Queries |-> IF q \in Profiled THEN "none" ELSE list[q]]

Updates(o, s, list, wanted) ==
    /\ memory' = [memory EXCEPT ![s].data = list]
    /\ wish' = [wish EXCEPT ![s] = wanted]

Acts(o) ==
    LET s == op[o].scope
        content == IF op[o].kind = "save" THEN "new" ELSE "none"
    IN /\ Ready(o, "act") /\ op[o].kind \in {"save", "remove"}
       /\ Updates(o, s, [memory[s].data EXCEPT ![op[o].query] = content],
                 [wish[s] EXCEPT ![op[o].query] = content])
       /\ Returns(o, s)
       /\ UNCHANGED <<disk, wishOnDisk, initialized, overwritten, restarts>>

OnlyLists(o) ==
    /\ Ready(o, "act") /\ op[o].kind = "list"
    /\ Returns(o, NoScope)
    /\ UNCHANGED <<memory, disk, wish, wishOnDisk, initialized, overwritten, restarts>>

RemovesFromWorkspace(o) ==
    /\ Ready(o, "act") /\ op[o].kind = "removeProfile"
    /\ Updates(o, "workspace", Without(memory["workspace"].data), Without(wish["workspace"]))
    /\ op' = [op EXCEPT ![o].place = "half", ![o].waits = "workspace",
                        ![o].read = memory["global"].data]
    /\ UNCHANGED <<disk, wishOnDisk, initialized, overwritten, restarts>>

RemovesFromGlobal(o) ==
    /\ Ready(o, "half")
    /\ Updates(o, "global", Without(op[o].read), Without(wish["global"]))
    /\ overwritten' = (overwritten \/ op[o].read # memory["global"].data)
    /\ Returns(o, "global")
    /\ UNCHANGED <<disk, wishOnDisk, initialized, restarts>>

-----------------------------------------------------------------------------
(* The Memento stores its whole value and settles the updates that wait    *)
(* for it; a reload loses what is not stored and every call under way.     *)

Flush(s) ==
    /\ \E o \in Ops : op[o].waits = s
    /\ disk' = [disk EXCEPT ![s] = memory[s]]
    /\ wishOnDisk' = [wishOnDisk EXCEPT ![s] = wish[s]]
    /\ op' = [o \in Ops |-> IF op[o].waits = s THEN [op[o] EXCEPT !.waits = NoScope] ELSE op[o]]
    /\ UNCHANGED <<memory, wish, initialized, overwritten, restarts>>

Restart ==
    /\ restarts < MaxRestarts
    /\ restarts' = restarts + 1
    /\ memory' = disk /\ wish' = wishOnDisk /\ initialized' = FALSE
    /\ op' = [o \in Ops |-> IF op[o].place = "idle" THEN op[o] ELSE [NotBegun EXCEPT !.place = "over"]]
    /\ UNCHANGED <<disk, wishOnDisk, overwritten>>

QueriesNext ==
    \/ \E o \in Ops :
         \/ Begins(o) \/ RemovesProfile(o) \/ OldKeyFiltered(o)
         \/ MigrationBegins(o) \/ MigratedBefore(o) \/ VersionWritten(o) \/ OldKeyRemoved(o) \/ Migrated(o)
         \/ Acts(o) \/ OnlyLists(o) \/ RemovesFromWorkspace(o) \/ RemovesFromGlobal(o)
    \/ \E s \in Scopes : Flush(s)
    \/ Restart

QueriesSpec == InitQueries /\ [][QueriesNext]_queryVars

-----------------------------------------------------------------------------
(***************************************************************************)
(* However many calls migrate at once and wherever a reload interrupts     *)
(* them, a list that counts as migrated holds every old query nobody       *)
(* removed, holds what was saved and stored since, and brings back neither *)
(* a removed query nor the old copy of a saved one (migrateState,          *)
(* ensureInitialized).                                                     *)
(***************************************************************************)
KeepsItsWord ==
    ~overwritten => \A s \in Scopes :
        memory[s].version = 1 \/ initialized => memory[s].data = wish[s]
=============================================================================
