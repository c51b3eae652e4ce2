-------------------------- MODULE SavedQueriesProofs --------------------------
(***************************************************************************)
(* Proofs about SavedQueries: for any calls and any queries, a migrated    *)
(* list holds what it should.                                              *)
(***************************************************************************)
EXTENDS SavedQueries, TLAPS

OnceUnset == NotBegun.query
Memento == [data : Lists, version : {0, 1}, legacy : SUBSET Queries]
Call == [kind : {"list", "save", "remove", "removeProfile"}, scope : Scopes, query : Queries \cup {OnceUnset},
         place : {"idle", "filtered", "check", "merged", "versioned", "cleared", "act", "half", "over"},
         at : Scopes, waits : Scopes \cup {NoScope}, hadLegacy : BOOLEAN, read : Lists]

Typed ==
    /\ memory \in [Scopes -> Memento] /\ disk \in [Scopes -> Memento]
    /\ wish \in [Scopes -> Lists] /\ wishOnDisk \in [Scopes -> Lists]
    /\ op \in [Ops -> Call]

(***************************************************************************)
(* The inductive invariant.  A list that is not migrated yet is what it    *)
(* should be once the old key is merged into it; this holds in memory and, *)
(* for the restart, on disk.                                               *)
(***************************************************************************)
Holds(list, wanted) ==
    IF list.version = 1 THEN list.data = wanted
    ELSE \A q \in Queries : wanted[q] = (IF q \in list.legacy THEN "old" ELSE list.data[q])

ListsHold ==
    \A s \in Scopes : Holds(memory[s], wish[s]) /\ Holds(disk[s], wishOnDisk[s])

\* Between the merged list and the version that says so.
MergedHold == \A o \in Ops : op[o].place = "merged" => memory[op[o].at].data = wish[op[o].at]

Migrating == {"check", "merged", "versioned", "cleared"}
BothMigrated == \A s \in Scopes : memory[s].version = 1

\* How far the migration is when a call has come this far.
CallInv(o) ==
    /\ op[o].place \in {"idle", "filtered"} => op[o].at = "workspace"
    /\ op[o].place \in {"versioned", "cleared"} => memory[op[o].at].version = 1
    /\ op[o].place \in Migrating /\ op[o].at = "global" => memory["workspace"].version = 1
    /\ op[o].place \in {"act", "half"} => BothMigrated

IInv ==
    /\ Typed
    /\ ~overwritten => ListsHold /\ MergedHold
    /\ initialized => BothMigrated
    /\ \A o \in Ops : CallInv(o)

-----------------------------------------------------------------------------
LEMMA UnsetIsCall ==
  /\ NotBegun \in Call /\ NotBegun.at = "workspace"
  /\ \A w \in Scopes \cup {NoScope} : [NotBegun EXCEPT !.place = "over", !.waits = w] \in Call
  /\ [NotBegun EXCEPT !.place = "over"] \in Call
  BY DEF NotBegun, OnceUnset, Call, Scopes, Lists, Contents

LEMMA InvInit == ASSUME InitQueries PROVE IInv
<1>1. PICK legacy \in [Scopes -> SUBSET Queries] :
        /\ memory = [s \in Scopes |-> [data |-> [q \in Queries |-> "none"], version |-> 0, legacy |-> legacy[s]]]
        /\ wish = [s \in Scopes |-> [q \in Queries |-> IF q \in legacy[s] THEN "old" ELSE "none"]]
  BY DEF InitQueries
<1>2. disk = memory /\ wishOnDisk = wish /\ initialized = FALSE /\ op = [o \in Ops |-> NotBegun]
  BY DEF InitQueries
<1>3. memory \in [Scopes -> Memento] /\ wish \in [Scopes -> Lists]
  BY <1>1 DEF Memento, Lists, Contents
<1>4. ListsHold
  BY <1>1, <1>2 DEF ListsHold, Holds
<1>5. \A o \in Ops : op[o].place = "idle" /\ op[o].at = "workspace"
  BY <1>2 DEF NotBegun
<1> QED
  BY <1>2, <1>3, <1>4, <1>5, UnsetIsCall DEF IInv, Typed, MergedHold, CallInv, Migrating

\* Calls move and no list changes.
LEMMA CallsMove ==
  ASSUME IInv, UNCHANGED <<memory, disk, wish, wishOnDisk, overwritten>>, op' \in [Ops -> Call],
         initialized' => BothMigrated,
         \A o \in Ops : (op'[o].place = "merged" => op[o].place = "merged" /\ op'[o].at = op[o].at) /\ CallInv(o)'
  PROVE  IInv'
<1>1. ~overwritten => ListsHold' /\ MergedHold'
  BY DEF IInv, ListsHold, Holds, MergedHold
<1> QED
  BY <1>1 DEF IInv, Typed, BothMigrated

\* The list of one scope changes: what it holds now, and for which calls that counts.
LEMMA ListChanges ==
  ASSUME IInv, NEW o \in Ops, NEW s \in Scopes, UNCHANGED <<disk, wishOnDisk, initialized>>,
         memory' \in [Scopes -> Memento], wish' \in [Scopes -> Lists], op' \in [Ops -> Call],
         \A t \in Scopes : t # s => memory'[t] = memory[t] /\ wish'[t] = wish[t],
         \A p \in Ops : p # o => op'[p] = op[p],
         memory[s].version = 1 => memory'[s].version = 1,
         ~overwritten' => /\ ~overwritten
                          /\ Holds(memory'[s], wish'[s])
                          /\ memory[s].data = wish[s] => memory'[s].data = wish'[s],
         ~overwritten' /\ op'[o].place = "merged" => memory'[op'[o].at].data = wish'[op'[o].at],
         CallInv(o)'
  PROVE  IInv'
<1>1. \A t \in Scopes : memory[t].version = 1 => memory'[t].version = 1
  OBVIOUS
<1>2. \A p \in Ops : CallInv(p)'
  <2>1. ASSUME NEW p \in Ops, p # o PROVE CallInv(p)'
    <3>1. op'[p] = op[p] /\ CallInv(p) /\ op[p].at \in Scopes /\ "workspace" \in Scopes
      BY <2>1 DEF IInv, Typed, Call, Scopes
    <3> QED
      BY <1>1, <3>1 DEF CallInv, BothMigrated
  <2> QED
    BY <2>1
<1>3. initialized' => BothMigrated'
  BY <1>1 DEF IInv, BothMigrated
<1>4. ASSUME ~overwritten' PROVE ListsHold' /\ MergedHold'
  <2>1. ListsHold /\ MergedHold
    BY <1>4 DEF IInv
  <2>2. ListsHold'
    BY <1>4, <2>1 DEF ListsHold
  <2>3. ASSUME NEW p \in Ops, op'[p].place = "merged" PROVE memory'[op'[p].at].data = wish'[op'[p].at]
    <3>1. CASE p = o
      BY <1>4, <2>3, <3>1
    <3>2. CASE p # o
      <4>1. op'[p] = op[p] /\ op[p].at \in Scopes /\ memory[op[p].at].data = wish[op[p].at]
        BY <2>1, <2>3, <3>2 DEF IInv, Typed, Call, MergedHold
      <4> QED
        BY <1>4, <4>1
    <3> QED
      BY <3>1, <3>2
  <2> QED
    BY <2>2, <2>3 DEF MergedHold
<1> QED
  BY <1>2, <1>3, <1>4 DEF IInv, Typed

LEMMA InvNext == ASSUME IInv, [QueriesNext]_queryVars PROVE IInv'
<1>0. Typed /\ (~overwritten => ListsHold /\ MergedHold) /\ (initialized => BothMigrated) /\ \A o \in Ops : CallInv(o)
  BY DEF IInv
<1>1. \A o \in Ops : op[o] \in Call /\ op[o].at \in Scopes /\ op[o].scope \in Scopes /\ op[o].read \in Lists
  BY <1>0 DEF Typed, Call
<1>2. \A s \in Scopes : memory[s] \in Memento /\ memory[s].data \in Lists /\ memory[s].legacy \subseteq Queries
                        /\ wish[s] \in Lists
  BY <1>0 DEF Typed, Memento
<1>3. "workspace" \in Scopes /\ "global" \in Scopes /\ \A s \in Scopes : s = "workspace" \/ s = "global"
  BY DEF Scopes
\* A call goes to a place where no list is merged.
<1>4. ASSUME NEW o \in Ops, op' \in [Ops -> Call], \A p \in Ops : p # o => op'[p] = op[p],
             op'[o].place # "merged", CallInv(o)', UNCHANGED <<memory, disk, wish, wishOnDisk, overwritten>>,
             initialized' => BothMigrated
      PROVE  IInv'
  <2>1. ASSUME NEW p \in Ops
        PROVE  (op'[p].place = "merged" => op[p].place = "merged" /\ op'[p].at = op[p].at) /\ CallInv(p)'
    BY <1>0, <1>4 DEF CallInv, BothMigrated
  <2> QED
    BY <1>4, <2>1, CallsMove
<1>5. First \in {"act", "check"} /\ (First = "act" => BothMigrated)
  BY <1>0, Zenon DEF First
<1>6. ASSUME NEW o \in Ops, Begins(o) PROVE IInv'
  <2>1. op[o].place = "idle" /\ UNCHANGED <<memory, disk, wish, wishOnDisk, initialized, overwritten, restarts>>
    BY <1>6 DEF Begins
  <2>2. op' \in [Ops -> Call] /\ op'[o].place = First /\ op'[o].at = op[o].at /\ \A p \in Ops : p # o => op'[p] = op[p]
    <3>1. CASE op' = [op EXCEPT ![o].place = First]
      BY <1>0, <1>5, <3>1 DEF Typed, Call
    <3>2. CASE \E k \in {"save", "remove"}, s \in Scopes, q \in Queries :
                 op' = [op EXCEPT ![o].kind = k, ![o].scope = s, ![o].query = q, ![o].place = First]
      <4>1. PICK k \in {"save", "remove"}, s \in Scopes, q \in Queries :
                 op' = [op EXCEPT ![o].kind = k, ![o].scope = s, ![o].query = q, ![o].place = First]
        BY <3>2
      <4>2. op'[o] = [op[o] EXCEPT !.kind = k, !.scope = s, !.query = q, !.place = First]
        BY <1>0, <4>1 DEF Typed
      <4>3. op'[o] \in Call /\ op'[o].place = First /\ op'[o].at = op[o].at
        BY <1>1, <1>5, <4>2 DEF Call
      <4> QED
        BY <1>0, <4>1, <4>3 DEF Typed
    <3> QED
      BY <1>6, <3>1, <3>2 DEF Begins
  <2>3. CallInv(o)'
    BY <1>0, <1>5, <2>1, <2>2 DEF CallInv, Migrating, BothMigrated
  <2> QED
    BY <1>0, <1>4, <1>5, <2>1, <2>2, <2>3
<1>7. ASSUME NEW o \in Ops, RemovesProfile(o) PROVE IInv'
  <2> DEFINE w == [q \in Queries |-> IF q \in Profiled THEN memory["workspace"].data[q] ELSE wish["workspace"][q]]
  <2>1. /\ op[o].place = "idle"
        /\ op' = [op EXCEPT ![o].kind = "removeProfile", ![o].place = "filtered", ![o].waits = "workspace"]
        /\ memory' = [memory EXCEPT !["workspace"].legacy = @ \ Profiled]
        /\ wish' = [wish EXCEPT !["workspace"] = w]
        /\ UNCHANGED <<disk, wishOnDisk, initialized, overwritten, restarts>>
    BY <1>7 DEF RemovesProfile
  <2>2. op'[o] = [op[o] EXCEPT !.kind = "removeProfile", !.place = "filtered", !.waits = "workspace"]
    BY <1>0, <2>1 DEF Typed
  <2>3. op'[o] \in Call /\ op'[o].place = "filtered" /\ op'[o].at = op[o].at
    <3>1. "workspace" \in Scopes \cup {NoScope}
      BY <1>3
    <3> QED
      BY <1>1, <2>2, <3>1 DEF Call
  <2>4. op' \in [Ops -> Call] /\ \A p \in Ops : p # o => op'[p] = op[p]
    BY <1>0, <2>1, <2>3 DEF Typed
  <2>5. w \in Lists
    BY <1>2, <1>3 DEF Lists
  <2>6. /\ memory' \in [Scopes -> Memento] /\ wish' \in [Scopes -> Lists]
        /\ \A t \in Scopes : t # "workspace" => memory'[t] = memory[t] /\ wish'[t] = wish[t]
        /\ memory'["workspace"] = [memory["workspace"] EXCEPT !.legacy = @ \ Profiled]
        /\ wish'["workspace"] = w
    BY <1>0, <1>3, <2>1, <2>5, SMTT(30) DEF Typed, Memento
  <2>7. memory["workspace"].data = wish["workspace"] => w = wish["workspace"]
    BY <1>2, <1>3 DEF Lists
  <2>8. /\ memory'["workspace"].data = memory["workspace"].data /\ memory'["workspace"].version = memory["workspace"].version
        /\ memory'["workspace"].legacy = memory["workspace"].legacy \ Profiled
    BY <1>2, <1>3, <2>6 DEF Memento
  <2>9. ASSUME ~overwritten' PROVE Holds(memory'["workspace"], wish'["workspace"])
    <3>1. Holds(memory["workspace"], wish["workspace"])
      BY <1>0, <1>3, <2>1, <2>9 DEF ListsHold
    <3> QED
      BY <2>6, <2>7, <2>8, <3>1 DEF Holds
  <2>10. CallInv(o)'
    BY <1>0, <2>1, <2>3 DEF CallInv, Migrating
  <2> QED
    <3>1. ~overwritten' => /\ ~overwritten
                           /\ Holds(memory'["workspace"], wish'["workspace"])
                           /\ memory["workspace"].data = wish["workspace"] => memory'["workspace"].data = wish'["workspace"]
      BY <2>1, <2>6, <2>7, <2>8, <2>9
    <3>2. op'[o].place # "merged" /\ UNCHANGED <<disk, wishOnDisk, initialized>>
      BY <2>1, <2>3
    <3> QED
      BY <1>3, <2>4, <2>6, <2>8, <2>10, <3>1, <3>2, ListChanges, ZenonT(30)
<1>8. ASSUME NEW o \in Ops, OldKeyFiltered(o) PROVE IInv'
  <2>1. /\ op[o].place = "filtered" /\ op' = [op EXCEPT ![o].place = First]
        /\ UNCHANGED <<memory, disk, wish, wishOnDisk, initialized, overwritten, restarts>>
    BY <1>8 DEF OldKeyFiltered, Ready
  <2>2. op' \in [Ops -> Call] /\ op'[o].place = First /\ op'[o].at = op[o].at /\ \A p \in Ops : p # o => op'[p] = op[p]
    BY <1>0, <1>5, <2>1 DEF Typed, Call
  <2>3. CallInv(o)'
    BY <1>0, <1>5, <2>1, <2>2 DEF CallInv, Migrating, BothMigrated
  <2> QED
    BY <1>0, <1>4, <1>5, <2>1, <2>2, <2>3
<1>9. ASSUME NEW o \in Ops, MigrationBegins(o) PROVE IInv'
  <2> DEFINE s == op[o].at
  <2>1. /\ op[o].place = "check" /\ memory[s].version = 0
        /\ memory' = [memory EXCEPT ![s].data = Merged(s)]
        /\ op' = [op EXCEPT ![o].place = "merged", ![o].waits = s, ![o].hadLegacy = memory[s].legacy # {}]
        /\ UNCHANGED <<disk, wish, wishOnDisk, initialized, overwritten, restarts>>
    BY <1>9 DEF MigrationBegins, Ready
  <2>2. Merged(s) \in Lists
    BY <1>1, <1>2 DEF Merged, Lists, Contents
  <2>3. /\ memory' \in [Scopes -> Memento]
        /\ \A t \in Scopes : t # s => memory'[t] = memory[t]
        /\ memory'[s] = [memory[s] EXCEPT !.data = Merged(s)]
    BY <1>0, <1>1, <2>1, <2>2 DEF Typed, Memento
  <2>4. memory'[s].data = Merged(s) /\ memory'[s].version = 0 /\ memory'[s].legacy = memory[s].legacy
    BY <1>1, <1>2, <2>1, <2>3 DEF Memento
  <2>5. op'[o] = [op[o] EXCEPT !.place = "merged", !.waits = s, !.hadLegacy = memory[s].legacy # {}]
    BY <1>0, <2>1 DEF Typed
  <2>6. op'[o] \in Call /\ op'[o].place = "merged" /\ op'[o].at = s
    BY <1>1, <2>5 DEF Call
  <2>7. op' \in [Ops -> Call] /\ \A p \in Ops : p # o => op'[p] = op[p]
    BY <1>0, <2>1, <2>6 DEF Typed
  <2>8. ASSUME ~overwritten' PROVE Holds(memory'[s], wish'[s]) /\ memory'[s].data = wish'[s]
    <3>1. Holds(memory[s], wish[s])
      BY <1>0, <1>1, <2>1, <2>8 DEF ListsHold
    <3>2. memory'[s].data = wish'[s]
      <4>1. wish[s] = [q \in Queries |-> wish[s][q]]
        BY <1>1, <1>2 DEF Lists
      <4>2. \A q \in Queries : wish[s][q] = (IF q \in memory[s].legacy THEN "old" ELSE memory[s].data[q])
        BY <2>1, <3>1 DEF Holds
      <4>3. Merged(s) = [q \in Queries |-> wish[s][q]]
        BY <4>2 DEF Merged
      <4> QED
        BY <2>1, <2>4, <4>1, <4>3
    <3> QED
      BY <1>1, <1>2, <2>1, <2>4, <3>1, <3>2 DEF Holds, Merged
  <2>9. CallInv(o)'
    <3>1. s = "global" => memory["workspace"].version = 1
      BY <1>0, <2>1 DEF CallInv, Migrating
    <3> QED
      BY <1>3, <2>3, <2>6, <3>1 DEF CallInv
  <2> QED
    <3>1. ~overwritten' => /\ ~overwritten
                           /\ Holds(memory'[s], wish'[s])
                           /\ memory[s].data = wish[s] => memory'[s].data = wish'[s]
      BY <2>1, <2>8
    <3>2. ~overwritten' /\ op'[o].place = "merged" => memory'[op'[o].at].data = wish'[op'[o].at]
      BY <2>6, <2>8
    <3>3. wish' \in [Scopes -> Lists] /\ (\A t \in Scopes : t # s => memory'[t] = memory[t] /\ wish'[t] = wish[t])
      BY <1>0, <2>1, <2>3 DEF Typed
    <3>4. (memory[s].version = 1 => memory'[s].version = 1) /\ UNCHANGED <<disk, wishOnDisk, initialized>>
      BY <2>1
    <3> QED
      BY <1>1, <2>3, <2>7, <2>9, <3>1, <3>2, <3>3, <3>4, ListChanges
\* One list is migrated: on to the next, or to what the call is for.
<1>10. ASSUME NEW o \in Ops, GoesOn(o), memory[op[o].at].version = 1, op[o].place \in Migrating,
              UNCHANGED <<memory, disk, wish, wishOnDisk, overwritten>>
       PROVE  IInv'
  <2>1. CASE op[o].at = "workspace"
    <3>1. op' = [op EXCEPT ![o].at = "global", ![o].place = "check"] /\ initialized' = initialized
      BY <1>10, <2>1 DEF GoesOn
    <3>2. op'[o] = [op[o] EXCEPT !.at = "global", !.place = "check"]
      BY <1>0, <3>1 DEF Typed
    <3>3. op'[o] \in Call /\ op'[o].place = "check" /\ op'[o].at = "global"
      <4>1. op[o] \in Call /\ "global" \in Scopes
        BY <1>1, <1>3
      <4> QED
        BY <3>2, <4>1 DEF Call
    <3>4. op' \in [Ops -> Call] /\ \A p \in Ops : p # o => op'[p] = op[p]
      BY <1>0, <3>1, <3>3 DEF Typed
    <3>5. CallInv(o)'
      BY <1>10, <2>1, <3>3 DEF CallInv
    <3> QED
      BY <1>0, <1>4, <1>10, <3>1, <3>3, <3>4, <3>5
  <2>2. CASE op[o].at = "global"
    <3>1. op' = [op EXCEPT ![o].place = "act"]
      BY <1>10, <2>2 DEF GoesOn
    <3>2. op' \in [Ops -> Call] /\ op'[o].place = "act" /\ \A p \in Ops : p # o => op'[p] = op[p]
      BY <1>0, <3>1 DEF Typed, Call
    <3>3. BothMigrated
      BY <1>0, <1>3, <1>10, <2>2 DEF CallInv, BothMigrated
    <3>4. CallInv(o)'
      BY <1>10, <3>2, <3>3 DEF CallInv, BothMigrated, Migrating
    <3> QED
      BY <1>4, <1>10, <3>2, <3>3, <3>4
  <2> QED
    BY <1>1, <1>3, <2>1, <2>2
<1>11. ASSUME NEW o \in Ops, MigratedBefore(o) PROVE IInv'
  BY <1>10, <1>11 DEF MigratedBefore, Ready, Migrating
<1>12. ASSUME NEW o \in Ops, Migrated(o) PROVE IInv'
  <2>1. op[o].place \in {"versioned", "cleared"} /\ GoesOn(o)
        /\ UNCHANGED <<memory, disk, wish, wishOnDisk, overwritten, restarts>>
    BY <1>12 DEF Migrated, Ready
  <2> QED
    BY <1>0, <1>10, <2>1 DEF CallInv, Migrating
<1>13. ASSUME NEW o \in Ops, VersionWritten(o) PROVE IInv'
  <2> DEFINE s == op[o].at
  <2>1. /\ op[o].place = "merged" /\ memory' = [memory EXCEPT ![s].version = 1]
        /\ op' = [op EXCEPT ![o].place = "versioned", ![o].waits = s]
        /\ UNCHANGED <<disk, wish, wishOnDisk, initialized, overwritten, restarts>>
    BY <1>13 DEF VersionWritten, Ready, Waits
  <2>2. /\ memory' \in [Scopes -> Memento] /\ wish' \in [Scopes -> Lists]
        /\ \A t \in Scopes : t # s => memory'[t] = memory[t] /\ wish'[t] = wish[t]
        /\ memory'[s] = [memory[s] EXCEPT !.version = 1]
    BY <1>0, <1>1, <2>1, ZenonT(30) DEF Typed, Memento
  <2>3. memory'[s].data = memory[s].data /\ memory'[s].version = 1 /\ wish'[s] = wish[s]
    BY <1>0, <1>1, <1>2, <2>1, <2>2 DEF Memento, Typed
  <2>4. op'[o] = [op[o] EXCEPT !.place = "versioned", !.waits = s]
    BY <1>0, <2>1 DEF Typed
  <2>5. op'[o] \in Call /\ op'[o].place = "versioned" /\ op'[o].at = s
    BY <1>1, <2>4 DEF Call
  <2>6. op' \in [Ops -> Call] /\ \A p \in Ops : p # o => op'[p] = op[p]
    BY <1>0, <2>1, <2>5 DEF Typed
  <2>7. ~overwritten' => /\ ~overwritten
                         /\ Holds(memory'[s], wish'[s])
                         /\ memory[s].data = wish[s] => memory'[s].data = wish'[s]
    BY <1>0, <2>1, <2>3 DEF Holds, MergedHold
  <2>8. CallInv(o)'
    <3>1. s = "global" => memory["workspace"].version = 1
      BY <1>0, <2>1 DEF CallInv, Migrating
    <3> QED
      BY <1>3, <2>2, <2>3, <2>5, <3>1 DEF CallInv
  <2>9. op'[o].place # "merged" /\ UNCHANGED <<disk, wishOnDisk, initialized>>
    BY <2>1, <2>5
  <2> QED
    BY <1>1, <2>2, <2>3, <2>6, <2>7, <2>8, <2>9, ListChanges
<1>14. ASSUME NEW o \in Ops, OldKeyRemoved(o) PROVE IInv'
  <2> DEFINE s == op[o].at
  <2>1. /\ op[o].place = "versioned" /\ memory' = [memory EXCEPT ![s].legacy = {}]
        /\ op' = [op EXCEPT ![o].place = "cleared", ![o].waits = s]
        /\ UNCHANGED <<disk, wish, wishOnDisk, initialized, overwritten, restarts>>
    BY <1>14 DEF OldKeyRemoved, Ready, Waits
  <2>2. /\ memory' \in [Scopes -> Memento] /\ wish' \in [Scopes -> Lists]
        /\ \A t \in Scopes : t # s => memory'[t] = memory[t] /\ wish'[t] = wish[t]
        /\ memory'[s] = [memory[s] EXCEPT !.legacy = {}]
    BY <1>0, <1>1, <2>1, ZenonT(30) DEF Typed, Memento
  <2>3. memory[s].version = 1
    BY <1>0, <2>1 DEF CallInv
  <2>4. memory'[s].data = memory[s].data /\ memory'[s].version = 1 /\ wish'[s] = wish[s]
    BY <1>0, <1>1, <1>2, <2>1, <2>2, <2>3 DEF Memento, Typed
  <2>5. op'[o] = [op[o] EXCEPT !.place = "cleared", !.waits = s]
    BY <1>0, <2>1 DEF Typed
  <2>6. op'[o] \in Call /\ op'[o].place = "cleared" /\ op'[o].at = s
    BY <1>1, <2>5 DEF Call
  <2>7. op' \in [Ops -> Call] /\ \A p \in Ops : p # o => op'[p] = op[p]
    BY <1>0, <2>1, <2>6 DEF Typed
  <2>8. ~overwritten' => /\ ~overwritten
                         /\ Holds(memory'[s], wish'[s])
                         /\ memory[s].data = wish[s] => memory'[s].data = wish'[s]
    BY <1>0, <1>1, <2>1, <2>3, <2>4 DEF Holds, ListsHold
  <2>9. CallInv(o)'
    <3>1. s = "global" => memory["workspace"].version = 1
      BY <1>0, <2>1 DEF CallInv, Migrating
    <3> QED
      BY <1>3, <2>2, <2>4, <2>6, <3>1 DEF CallInv
  <2>10. op'[o].place # "merged" /\ UNCHANGED <<disk, wishOnDisk, initialized>>
    BY <2>1, <2>6
  <2> QED
    BY <1>1, <2>2, <2>3, <2>4, <2>7, <2>8, <2>9, <2>10, ListChanges
\* A call is over, whatever it waits for.
<1>15. ASSUME NEW o \in Ops, NEW w \in Scopes \cup {NoScope}, Returns(o, w)
       PROVE  /\ op' \in [Ops -> Call] /\ \A p \in Ops : p # o => op'[p] = op[p]
              /\ op'[o].place = "over" /\ CallInv(o)'
  <2>1. op' \in [Ops -> Call] /\ \A p \in Ops : p # o => op'[p] = op[p]
    BY <1>0, <1>15, UnsetIsCall DEF Returns, Typed
  <2>2. op'[o].place = "over"
    BY <1>0, <1>15 DEF Returns, Typed, NotBegun
  <2> QED
    BY <2>1, <2>2 DEF CallInv, Migrating
<1>16. ASSUME NEW o \in Ops, Acts(o) PROVE IInv'
  <2> DEFINE s == op[o].scope
             content == IF op[o].kind = "save" THEN "new" ELSE "none"
             list == [memory[s].data EXCEPT ![op[o].query] = content]
             wanted == [wish[s] EXCEPT ![op[o].query] = content]
  <2>1. /\ op[o].place = "act" /\ memory' = [memory EXCEPT ![s].data = list] /\ wish' = [wish EXCEPT ![s] = wanted]
        /\ Returns(o, s) /\ UNCHANGED <<disk, wishOnDisk, initialized, overwritten, restarts>>
    BY <1>16 DEF Acts, Ready, Updates
  <2>2. content \in Contents
    BY DEF Contents
  <2>3. list \in Lists /\ wanted \in Lists
    BY <1>1, <1>2, <2>2 DEF Lists
  <2>4. memory[s].data = wish[s] => list = wanted
    OBVIOUS
  <2>5. memory[s].version = 1
    BY <1>0, <1>1, <2>1 DEF CallInv, BothMigrated
  <2>6. ~overwritten => memory[s].data = wish[s]
    BY <1>0, <1>1, <2>5 DEF ListsHold, Holds
  <2> HIDE DEF list, wanted
  <2>7. /\ memory' \in [Scopes -> Memento] /\ wish' \in [Scopes -> Lists]
        /\ \A t \in Scopes : t # s => memory'[t] = memory[t] /\ wish'[t] = wish[t]
        /\ memory'[s] = [memory[s] EXCEPT !.data = list] /\ wish'[s] = wanted
    BY <1>0, <1>1, <2>1, <2>3, ZenonT(30) DEF Typed, Memento
  <2>8. memory'[s].data = list /\ memory'[s].version = 1
    BY <1>1, <1>2, <2>5, <2>7 DEF Memento
  <2>9. ~overwritten' => /\ ~overwritten
                         /\ Holds(memory'[s], wish'[s])
                         /\ memory[s].data = wish[s] => memory'[s].data = wish'[s]
    BY <2>1, <2>4, <2>6, <2>7, <2>8 DEF Holds
  <2>10. /\ op' \in [Ops -> Call] /\ \A p \in Ops : p # o => op'[p] = op[p]
         /\ op'[o].place = "over" /\ CallInv(o)'
    BY <1>1, <1>15, <2>1
  <2> QED
    BY <1>1, <2>1, <2>7, <2>8, <2>9, <2>10, ListChanges
<1>17. ASSUME NEW o \in Ops, OnlyLists(o) PROVE IInv'
  <2>1. Returns(o, NoScope) /\ UNCHANGED <<memory, disk, wish, wishOnDisk, initialized, overwritten, restarts>>
    BY <1>17 DEF OnlyLists
  <2> QED
    BY <1>0, <1>4, <1>15, <2>1
\* What removing a profile does to a list.
<1>18. \A list \in Lists : Without(list) \in Lists
  BY DEF Without, Lists, Contents
<1>19. ASSUME NEW o \in Ops, RemovesFromWorkspace(o) PROVE IInv'
  <2> DEFINE s == "workspace"
  <2>1. /\ op[o].place = "act"
        /\ memory' = [memory EXCEPT ![s].data = Without(memory[s].data)]
        /\ wish' = [wish EXCEPT ![s] = Without(wish[s])]
        /\ op' = [op EXCEPT ![o].place = "half", ![o].waits = s, ![o].read = memory["global"].data]
        /\ UNCHANGED <<disk, wishOnDisk, initialized, overwritten, restarts>>
    BY <1>19 DEF RemovesFromWorkspace, Ready, Updates
  <2>2. /\ memory' \in [Scopes -> Memento] /\ wish' \in [Scopes -> Lists]
        /\ \A t \in Scopes : t # s => memory'[t] = memory[t] /\ wish'[t] = wish[t]
        /\ memory'[s] = [memory[s] EXCEPT !.data = Without(memory[s].data)]
        /\ wish'[s] = Without(wish[s])
    BY <1>0, <1>2, <1>3, <1>18, <2>1 DEF Typed, Memento
  <2>3. BothMigrated
    BY <1>0, <2>1 DEF CallInv
  <2>4. memory'[s].data = Without(memory[s].data) /\ memory'[s].version = 1
    BY <1>2, <1>3, <2>2, <2>3 DEF Memento, BothMigrated
  <2>5. op'[o] = [op[o] EXCEPT !.place = "half", !.waits = s, !.read = memory["global"].data]
    BY <1>0, <2>1 DEF Typed
  <2>6. op'[o] \in Call /\ op'[o].place = "half" /\ op'[o].at = op[o].at
    <3>1. op[o] \in Call /\ s \in Scopes \cup {NoScope} /\ memory["global"].data \in Lists
      BY <1>1, <1>2, <1>3
    <3> QED
      BY <2>5, <3>1 DEF Call
  <2>7. op' \in [Ops -> Call] /\ \A p \in Ops : p # o => op'[p] = op[p]
    BY <1>0, <2>1, <2>6 DEF Typed
  <2>8. ~overwritten' => /\ ~overwritten
                         /\ Holds(memory'[s], wish'[s])
                         /\ memory[s].data = wish[s] => memory'[s].data = wish'[s]
    <3>1. ~overwritten => memory[s].data = wish[s]
      BY <1>0, <1>3, <2>3 DEF ListsHold, Holds, BothMigrated
    <3> QED
      BY <2>1, <2>2, <2>4, <3>1 DEF Holds
  <2>9. CallInv(o)'
    BY <1>3, <2>2, <2>3, <2>4, <2>6 DEF CallInv, BothMigrated, Migrating
  <2>10. op'[o].place # "merged" /\ UNCHANGED <<disk, wishOnDisk, initialized>>
    BY <2>1, <2>6
  <2> QED
    BY <1>3, <2>2, <2>4, <2>7, <2>8, <2>9, <2>10, ListChanges
<1>20. ASSUME NEW o \in Ops, RemovesFromGlobal(o) PROVE IInv'
  <2> DEFINE s == "global"
  <2>1. /\ op[o].place = "half"
        /\ memory' = [memory EXCEPT ![s].data = Without(op[o].read)]
        /\ wish' = [wish EXCEPT ![s] = Without(wish[s])]
        /\ Returns(o, s) /\ UNCHANGED <<disk, wishOnDisk, initialized, restarts>>
    BY <1>20 DEF RemovesFromGlobal, Ready, Updates
  <2>2. ~overwritten' => ~overwritten /\ op[o].read = memory[s].data
    BY <1>20, Zenon DEF RemovesFromGlobal
  <2>3. /\ memory' \in [Scopes -> Memento] /\ wish' \in [Scopes -> Lists]
        /\ \A t \in Scopes : t # s => memory'[t] = memory[t] /\ wish'[t] = wish[t]
        /\ memory'[s] = [memory[s] EXCEPT !.data = Without(op[o].read)]
        /\ wish'[s] = Without(wish[s])
    BY <1>0, <1>1, <1>2, <1>3, <1>18, <2>1 DEF Typed, Memento
  <2>4. memory[s].version = 1
    BY <1>0, <1>3, <2>1 DEF CallInv, BothMigrated
  <2>5. memory'[s].data = Without(op[o].read) /\ memory'[s].version = 1
    BY <1>2, <1>3, <2>3, <2>4 DEF Memento
  <2>6. ~overwritten' => /\ ~overwritten
                         /\ Holds(memory'[s], wish'[s])
                         /\ memory[s].data = wish[s] => memory'[s].data = wish'[s]
    <3>1. ~overwritten => memory[s].data = wish[s]
      BY <1>0, <1>3, <2>4 DEF ListsHold, Holds
    <3> QED
      BY <2>2, <2>3, <2>5, <3>1 DEF Holds
  <2> QED
    BY <1>3, <1>15, <2>1, <2>3, <2>5, <2>6, ListChanges
\* What a Memento answers becomes what it has stored.
<1>21. ASSUME NEW s \in Scopes, Flush(s) PROVE IInv'
  <2>1. /\ disk' = [disk EXCEPT ![s] = memory[s]] /\ wishOnDisk' = [wishOnDisk EXCEPT ![s] = wish[s]]
        /\ op' = [o \in Ops |-> IF op[o].waits = s THEN [op[o] EXCEPT !.waits = NoScope] ELSE op[o]]
        /\ UNCHANGED <<memory, wish, initialized, overwritten, restarts>>
    BY <1>21 DEF Flush
  <2>2. disk' \in [Scopes -> Memento] /\ wishOnDisk' \in [Scopes -> Lists]
    BY <1>0, <1>2, <2>1 DEF Typed
  <2>3. ASSUME NEW o \in Ops PROVE op'[o] \in Call /\ op'[o].place = op[o].place /\ op'[o].at = op[o].at
    <3>1. [op[o] EXCEPT !.waits = NoScope] \in Call
      BY <1>1 DEF Call
    <3>2. op'[o] = [op[o] EXCEPT !.waits = NoScope] \/ op'[o] = op[o]
      BY <2>1
    <3> QED
      BY <1>1, <3>1, <3>2 DEF Call
  <2>4. op' \in [Ops -> Call]
    BY <2>1, <2>3
  <2>5. \A o \in Ops : CallInv(o)'
    BY <1>0, <2>1, <2>3 DEF CallInv, BothMigrated
  <2>6. ASSUME ~overwritten' PROVE ListsHold' /\ MergedHold'
    <3>1. ListsHold /\ MergedHold
      BY <1>0, <2>1, <2>6
    <3>2. \A t \in Scopes : \/ disk'[t] = disk[t] /\ wishOnDisk'[t] = wishOnDisk[t]
                            \/ disk'[t] = memory[t] /\ wishOnDisk'[t] = wish[t]
      BY <1>0, <2>1 DEF Typed
    <3>3. \A t \in Scopes : Holds(memory[t], wish[t]) /\ Holds(disk'[t], wishOnDisk'[t])
      BY <3>1, <3>2 DEF ListsHold
    <3> QED
      BY <2>1, <2>3, <3>1, <3>3 DEF ListsHold, MergedHold
  <2> QED
    BY <1>0, <2>1, <2>2, <2>4, <2>5, <2>6 DEF IInv, Typed, BothMigrated
<1>22. ASSUME Restart PROVE IInv'
  <2>1. /\ memory' = disk /\ wish' = wishOnDisk /\ initialized' = FALSE
        /\ op' = [o \in Ops |-> IF op[o].place = "idle" THEN op[o] ELSE [NotBegun EXCEPT !.place = "over"]]
        /\ UNCHANGED <<disk, wishOnDisk, overwritten>>
    BY <1>22 DEF Restart
  <2>2. op' \in [Ops -> Call]
    BY <1>1, <2>1, UnsetIsCall
  <2>3. ASSUME NEW o \in Ops
        PROVE  op'[o].place = "over" \/ (op'[o] = op[o] /\ op[o].place = "idle")
    BY <2>1 DEF NotBegun
  <2>4. \A o \in Ops : CallInv(o)'
    BY <1>0, <2>3 DEF CallInv, Migrating
  <2>5. ~overwritten' => ListsHold' /\ MergedHold'
    BY <1>0, <2>1, <2>3 DEF ListsHold, MergedHold
  <2> QED
    BY <1>0, <2>1, <2>2, <2>4, <2>5 DEF IInv, Typed
<1>23. CASE UNCHANGED queryVars
  BY <1>0, <1>23 DEF queryVars, IInv, Typed, ListsHold, MergedHold, BothMigrated, CallInv
<1> QED
  BY <1>6, <1>7, <1>8, <1>9, <1>11, <1>12, <1>13, <1>14, <1>16, <1>17, <1>19, <1>20, <1>21, <1>22, <1>23 DEF QueriesNext

\* IInv is inductive, so every state the program reaches satisfies it.
LEMMA Invariance == QueriesSpec => []IInv
  BY InvInit, InvNext, PTL DEF QueriesSpec

-----------------------------------------------------------------------------
(***************************************************************************)
(* A list that counts as migrated is what it should be, however many calls *)
(* migrate at once and wherever a reload interrupts them: the merge, the   *)
(* version and the old key are written in this order, and a merge of what  *)
(* is merged already changes nothing (migrateState, ensureInitialized).    *)
(***************************************************************************)
THEOREM ListsKeepTheirWord == QueriesSpec => []KeepsItsWord
<1>1. IInv => KeepsItsWord
  BY DEF IInv, ListsHold, Holds, BothMigrated, KeepsItsWord
<1> QED
  BY <1>1, Invariance, PTL
=============================================================================
