-------------------------- MODULE BatchExportProofs --------------------------
(***************************************************************************)
(* Proofs about BatchExport: for any number of jobs, any found set, page   *)
(* size and maximum, the chosen file is never partial and what a job says  *)
(* of itself is true.  The list of recent jobs plays no part in that.      *)
(***************************************************************************)
EXTENDS BatchExport, SequenceTheorems, TLAPS

\* What a finished file holds.
Whole == IF found < MaxRecords THEN found ELSE MaxRecords

(***************************************************************************)
(* The inductive invariant, job by job: what is true at each place of the  *)
(* task, and what an end of the job leaves.                                *)
(***************************************************************************)
Reading(j) ==
    /\ exported[j] <= Whole
    /\ place[j] \in {"idle", "open", "metadata"} => exported[j] = 0 /\ temps[j] = {}
    /\ place[j] = "page" => exported[j] < MaxRecords
    /\ place[j] = "probe" => exported[j] = MaxRecords

Writing(j) ==
    /\ place[j] \in {"closing", "renamed"} =>
         /\ exported[j] = Whole
         /\ truncated[j] = TRUE \/ exported[j] = found
         /\ cancelled[j] = TRUE => j \in tooLate
    /\ place[j] = "renamed" => temps[j] = {} /\ j \in published
    /\ j \in published => place[j] \in {"renamed", "over"}
    /\ place[j] = "aborting" => failing[j] = TRUE \/ cancelled[j] = TRUE

Ended(j) ==
    /\ status[j] = "none" => place[j] = "idle"
    /\ place[j] # "over" => details[j] = "plain" /\ status[j] \notin Over
    /\ status[j] = "completed" => j \in published /\ (truncated[j] = TRUE \/ exported[j] = found)
    /\ status[j] = "failed" => j \notin published
    /\ status[j] \in Over => LeftByRefusal(j)
    /\ details[j] = "noFile" /\ j \in published => j \in tooLate

JobInv(j) == Reading(j) /\ Writing(j) /\ Ended(j)
Types == StatesTypeOK /\ ExportTypeOK
IInv == Types /\ TargetWhole /\ \A j \in Jobs : JobInv(j)

-----------------------------------------------------------------------------
\* The types of everything but the list of recent jobs.
LEMMA TypesInit == ASSUME Init PROVE Types
  BY ExportAssumption DEF Init, InitJobs, Types, StatesTypeOK, ExportTypeOK, Places, OldFile, Live, Over

LEMMA TypesNext == ASSUME Types, [Next]_vars PROVE Types'
<1> USE ExportAssumption DEF Types, StatesTypeOK, ExportTypeOK, Places, Live, Over, jobVars, history, Goes
<1>1. ASSUME NEW j \in Jobs, Start(j) PROVE Types'
  BY <1>1 DEF Start, StartJob
<1>2. ASSUME NEW j \in Jobs, OpenJsonl(j) PROVE Types'
  BY <1>2 DEF OpenJsonl, LoopTop, AfterLoop, Ending, Temporary
<1>3. ASSUME NEW j \in Jobs, OpenFails(j) PROVE Types'
  BY <1>3 DEF OpenFails, TaskThrows, TaskEnds
<1>4. ASSUME NEW j \in Jobs, MetadataSettles(j) PROVE Types'
  BY <1>4 DEF MetadataSettles, LoopTop, AfterLoop, Ending
<1>5. ASSUME NEW j \in Jobs, PageArrives(j) PROVE Types'
  BY <1>5 DEF PageArrives, PageRows, Limit, TempsWith, WriterNeeded, Temporary, LoopTop, AfterLoop, Ending
<1>6. ASSUME NEW j \in Jobs, PageFails(j) PROVE Types'
  BY <1>6 DEF PageFails, Fails, TempsWith, WriterNeeded, Temporary
<1>7. ASSUME NEW j \in Jobs, ProbeSettles(j) PROVE Types'
  BY <1>7 DEF ProbeSettles, Ending
<1>8. ASSUME NEW j \in Jobs, CsvStartsLate(j) PROVE Types'
  BY <1>8 DEF CsvStartsLate, Temporary
<1>9. ASSUME NEW j \in Jobs, RowsCopied(j) PROVE Types'
  BY <1>9 DEF RowsCopied
<1>10. ASSUME NEW j \in Jobs, Publish(j) PROVE Types'
  BY <1>10 DEF Publish
<1>20. ASSUME NEW j \in Jobs, NEW kept, NEW failed, kept \subseteq {"data", "rows"},
              failed \subseteq kept, Removed(j, kept, failed)
       PROVE  /\ temps' \in [Jobs -> SUBSET {"data", "rows"}]
              /\ refused' \in [Jobs -> SUBSET {"data", "rows"}]
  BY <1>20 DEF Removed
<1>21. \A files \in SUBSET {"data", "rows"} :
         /\ \A kept \in Leftovers(files) : kept \subseteq {"data", "rows"} /\ FirstRefused(kept) \subseteq kept
         /\ \A kept \in Retried(files) : kept \subseteq {"data", "rows"}
  <2>1. ASSUME NEW files, files \subseteq {"data", "rows"}, NEW kept \in Leftovers(files)
        PROVE  kept \subseteq {"data", "rows"} /\ FirstRefused(kept) \subseteq kept
    BY <2>1 DEF Leftovers, FirstRefused
  <2>2. ASSUME NEW files, files \subseteq {"data", "rows"}, NEW kept \in Retried(files)
        PROVE  kept \subseteq {"data", "rows"}
    BY <2>2 DEF Retried
  <2> QED
    BY <2>1, <2>2
<1>11. ASSUME NEW j \in Jobs, CloseFails(j) PROVE Types'
  <2>1. PICK kept \in Leftovers(temps[j]) : Removed(j, kept, FirstRefused(kept))
    BY <1>11 DEF CloseFails
  <2>2. /\ temps' \in [Jobs -> SUBSET {"data", "rows"}]
        /\ refused' \in [Jobs -> SUBSET {"data", "rows"}]
    BY <1>20, <1>21, <2>1
  <2> QED
    BY <1>11, <2>2 DEF CloseFails
<1>22. ASSUME NEW j \in Jobs, AbortedAgain(j) PROVE Types'
  <2>1. PICK kept \in Retried(temps[j]) : Removed(j, kept, kept)
    BY <1>22 DEF AbortedAgain
  <2>2. /\ temps' \in [Jobs -> SUBSET {"data", "rows"}]
        /\ refused' \in [Jobs -> SUBSET {"data", "rows"}]
    BY <1>20, <1>21, <2>1
  <2>3. StatesTypeOK'
    <3>1. TaskThrows(j)
      BY <1>22 DEF AbortedAgain
    <3> QED
      BY <3>1 DEF TaskThrows, TaskEnds
  <2>4. ExportTypeOK'
    BY <1>22, <2>2 DEF AbortedAgain
  <2> QED
    BY <2>3, <2>4
<1>23. ASSUME NEW j \in Jobs, WriterNotCreated(j) PROVE Types'
  <2>1. PICK kept \in Leftovers({"data"}) : Removed(j, kept, kept)
    BY <1>23 DEF WriterNotCreated
  <2>2. /\ temps' \in [Jobs -> SUBSET {"data", "rows"}]
        /\ refused' \in [Jobs -> SUBSET {"data", "rows"}]
    BY <1>20, <1>21, <2>1
  <2>3. StatesTypeOK'
    <3>1. TaskThrows(j)
      BY <1>23 DEF WriterNotCreated
    <3> QED
      BY <3>1 DEF TaskThrows, TaskEnds
  <2>4. ExportTypeOK'
    BY <1>23, <2>2 DEF WriterNotCreated
  <2> QED
    BY <2>3, <2>4
<1>24. ASSUME NEW j \in Jobs, LateRowsFail(j) PROVE Types'
  BY <1>24 DEF LateRowsFail, Fails
<1>12. ASSUME NEW j \in Jobs, Finished(j) PROVE Types'
  BY <1>12 DEF Finished, TaskReturns, TaskEnds
<1>13. ASSUME NEW j \in Jobs, Aborted(j) PROVE Types'
  <2>1. PICK kept \in Leftovers(temps[j]) :
          /\ Removed(j, kept, FirstRefused(kept))
          /\ IF failing[j] \/ kept # {} THEN TaskThrows(j) ELSE TaskReturns(j, "noFile")
    BY <1>13, Zenon DEF Aborted
  <2>2. /\ temps' \in [Jobs -> SUBSET {"data", "rows"}]
        /\ refused' \in [Jobs -> SUBSET {"data", "rows"}]
    BY <1>20, <1>21, <2>1
  <2>3. StatesTypeOK'
    <3>1. CASE TaskThrows(j)
      BY <3>1 DEF TaskThrows, TaskEnds
    <3>2. CASE TaskReturns(j, "noFile")
      BY <3>2 DEF TaskReturns, TaskEnds
    <3> QED
      BY <2>1, <3>1, <3>2
  <2>4. exported' \in [Jobs -> 0..MaxRecords] /\ truncated' \in [Jobs -> BOOLEAN]
    <3>1. CASE failing[j]
      BY <1>13, <3>1 DEF Aborted
    <3>2. CASE ~failing[j]
      <4>1. /\ exported' = [exported EXCEPT ![j] = 0]
            /\ truncated' = [truncated EXCEPT ![j] = FALSE]
        BY <1>13, <3>2 DEF Aborted
      <4> QED
        BY <4>1
    <3> QED
      BY <3>1, <3>2
  <2>5. /\ place' = [place EXCEPT ![j] = "over"]
        /\ UNCHANGED <<found, format, known, failing, target, published, tooLate>>
    BY <1>13 DEF Aborted
  <2>6. ExportTypeOK'
    BY <2>2, <2>4, <2>5
  <2> QED
    BY <2>3, <2>6
<1>14. ASSUME NEW j \in Jobs, Cancel(j) PROVE Types'
  BY <1>14 DEF Cancel, CancelJob
<1>15. CASE Reload
  BY <1>15 DEF Reload, JobsLost
<1>16. CASE UNCHANGED vars
  BY <1>16 DEF vars, exportVars
<1> QED
  BY <1>1, <1>2, <1>3, <1>4, <1>5, <1>6, <1>7, <1>8, <1>9, <1>10, <1>11, <1>12, <1>13, <1>14, <1>15, <1>16,
     <1>22, <1>23, <1>24
  DEF Next, TaskStep

-----------------------------------------------------------------------------
(***************************************************************************)
(* The list of recent jobs.  Taking a job out of a list that names it at   *)
(* most once leaves the others in their order and the job nowhere.         *)
(***************************************************************************)
Apart(list) == \A m, n \in 1..Len(list) : list[m].job = list[n].job => m = n

LEMMA OthersRemain ==
  ASSUME NEW list \in Seq(Summary), Apart(list), NEW j \in Jobs
  PROVE  /\ Without(list, j) \in Seq(Summary)
         /\ Len(Without(list, j)) <= Len(list)
         /\ Apart(Without(list, j))
         /\ \A n \in 1..Len(Without(list, j)) : Without(list, j)[n].job # j
<1>1. CASE ~ \E i \in 1..Len(list) : list[i].job = j
  BY <1>1 DEF Without
<1>2. CASE \E i \in 1..Len(list) : list[i].job = j
  <2> DEFINE i == CHOOSE i \in 1..Len(list) : list[i].job = j
             rest == SubSeq(list, 1, i - 1) \o SubSeq(list, i + 1, Len(list))
  <2>1. i \in 1..Len(list) /\ list[i].job = j
    BY <1>2
  <2>2. Without(list, j) = rest
    BY <1>2 DEF Without
  <2> HIDE DEF i
  <2> DEFINE front == SubSeq(list, 1, i - 1)
             back == SubSeq(list, i + 1, Len(list))
  <2>3. front \in Seq(Summary) /\ Len(front) = i - 1 /\ \A n \in 1..(i - 1) : front[n] = list[n]
    BY <2>1, SMTT(30)
  <2>4. back \in Seq(Summary) /\ Len(back) = Len(list) - i /\ \A n \in 1..(Len(list) - i) : back[n] = list[i + n]
    BY <2>1, SMTT(30)
  <2> HIDE DEF front, back
  <2>5. /\ front \o back \in Seq(Summary) /\ Len(front \o back) = Len(front) + Len(back)
        /\ \A n \in 1..(Len(front) + Len(back)) :
             (front \o back)[n] = IF n <= Len(front) THEN front[n] ELSE back[n - Len(front)]
    BY <2>3, <2>4, ConcatProperties, Zenon
  <2>6. rest = front \o back
    BY DEF front, back
  <2> HIDE DEF rest
  <2>7. rest \in Seq(Summary) /\ Len(rest) = Len(list) - 1
    <3>1. rest \in Seq(Summary) /\ Len(rest) = Len(front) + Len(back)
      BY <2>5, <2>6, Zenon
    <3>2. i \in Nat /\ Len(list) \in Nat
      BY <2>1, LenProperties
    <3> QED
      BY <3>1, <3>2, <2>3, <2>4
  <2>8. \A n \in 1..Len(rest) : rest[n] = list[IF n < i THEN n ELSE n + 1]
    <3> TAKE n \in 1..Len(rest)
    <3>1. rest[n] = IF n <= i - 1 THEN front[n] ELSE back[n - (i - 1)]
      BY <2>1, <2>3, <2>4, <2>5, <2>6, <2>7
    <3> QED
      BY <3>1, <2>1, <2>3, <2>4, <2>7
  <2> DEFINE from(n) == IF n < i THEN n ELSE n + 1
  <2>9. \A n \in 1..Len(rest) : from(n) \in 1..Len(list) /\ from(n) # i /\ rest[n] = list[from(n)]
    BY <2>1, <2>7, <2>8, LenProperties
  <2>10. \A m, n \in 1..Len(rest) : from(m) = from(n) => m = n
    BY <2>1, <2>7, LenProperties
  <2> HIDE DEF from
  <2>11. Apart(rest)
    BY <2>9, <2>10, ZenonT(30) DEF Apart
  <2>12. \A n \in 1..Len(rest) : rest[n].job # j
    BY <2>1, <2>9, Zenon DEF Apart
  <2> QED
    BY <2>2, <2>7, <2>11, <2>12
<1> QED
  BY <1>1, <1>2

\* persistSummary: the ended job comes first, the others after it, the oldest may fall off.
LEMMA SummaryKept ==
  ASSUME RecentTypeOK, NEW j \in Jobs, NEW verdict \in Over, recent' = Persisted(j, verdict)
  PROVE  RecentTypeOK'
<1> DEFINE others == Without(recent, j)
           long == <<[job |-> j, status |-> verdict]>> \o others
           n == IF Len(long) < RecentLimit THEN Len(long) ELSE RecentLimit
<1>1. /\ others \in Seq(Summary) /\ Apart(others)
      /\ \A k \in 1..Len(others) : others[k].job # j
  BY OthersRemain DEF RecentTypeOK, Apart
<1>2. recent' = SubSeq(long, 1, n)
  BY DEF Persisted, FirstOf
<1> HIDE DEF others
<1>3. [job |-> j, status |-> verdict] \in Summary
  BY DEF Summary
<1>4. /\ long \in Seq(Summary) /\ Len(long) = Len(others) + 1
      /\ long[1].job = j /\ \A k \in 2..Len(long) : long[k] = others[k - 1]
  BY <1>1, <1>3
<1>5. Apart(long)
  BY <1>1, <1>4 DEF Apart
<1> HIDE DEF long
<1>6. n \in 0..Len(long) /\ n <= RecentLimit
  BY <1>4, RecentLimitAssumption
<1> HIDE DEF n
<1>7. recent' \in Seq(Summary) /\ Len(recent') = n /\ \A k \in 1..n : recent'[k] = long[k]
  BY <1>2, <1>4, <1>6
<1> QED
  BY <1>5, <1>6, <1>7 DEF RecentTypeOK, Apart, Summary, Over

\* Every other step of a job leaves the list alone.
LEMMA RecentNext == ASSUME RecentTypeOK, [Next]_vars PROVE RecentTypeOK'
<1>1. ASSUME NEW j \in Jobs, TaskThrows(j) \/ \E says : TaskReturns(j, says) PROVE RecentTypeOK'
  BY <1>1, SummaryKept DEF TaskThrows, TaskReturns, TaskEnds, Over
<1>2. ASSUME UNCHANGED recent PROVE RecentTypeOK'
  BY <1>2 DEF RecentTypeOK, Summary, Over
<1>3. ASSUME NEW j \in Jobs, Start(j) \/ TaskStep(j) \/ Cancel(j) PROVE RecentTypeOK'
  <2>1. CASE OpenFails(j) \/ WriterNotCreated(j) \/ AbortedAgain(j) \/ Finished(j) \/ Aborted(j)
    BY <1>1, <2>1 DEF OpenFails, WriterNotCreated, AbortedAgain, Finished, Aborted
  <2>2. CASE ~(OpenFails(j) \/ WriterNotCreated(j) \/ AbortedAgain(j) \/ Finished(j) \/ Aborted(j))
    <3>1. UNCHANGED recent
      BY <1>3, <2>2 DEF Start, StartJob, TaskStep, OpenJsonl, MetadataSettles, PageArrives, PageFails, ProbeSettles,
                        CsvStartsLate, LateRowsFail, RowsCopied, Publish, CloseFails, Cancel, CancelJob, jobVars
    <3> QED
      BY <1>2, <3>1
  <2> QED
    BY <2>1, <2>2
<1>4. CASE Reload
  BY <1>2, <1>4 DEF Reload, JobsLost
<1>5. CASE UNCHANGED vars
  BY <1>2, <1>5 DEF vars, jobVars
<1> QED
  BY <1>3, <1>4, <1>5 DEF Next

(***************************************************************************)
(* Every variable keeps its type; the list of recent jobs names no job     *)
(* twice and never outgrows its limit.                                     *)
(***************************************************************************)
THEOREM ExportTypes == Spec => []TypeOK
<1>1. Init => TypeOK
  BY TypesInit, RecentLimitAssumption DEF Types, TypeOK, RecentTypeOK, Init, InitJobs
<1>2. TypeOK /\ [Next]_vars => TypeOK'
  BY TypesNext, RecentNext DEF Types, TypeOK
<1> QED
  BY <1>1, <1>2, PTL DEF Spec

-----------------------------------------------------------------------------
\* A job that a step leaves alone keeps what is true of it.
LEMMA Untouched ==
  ASSUME NEW j \in Jobs, JobInv(j),
         found' = found, place'[j] = place[j], exported'[j] = exported[j], temps'[j] = temps[j], refused'[j] = refused[j],
         truncated'[j] = truncated[j], failing'[j] = failing[j], cancelled'[j] = cancelled[j],
         status'[j] = status[j], details'[j] = details[j],
         j \in published' <=> j \in published, j \in tooLate' <=> j \in tooLate
  PROVE  JobInv(j)'
  BY DEF JobInv, Reading, Writing, Ended, Whole, LeftByRefusal

LEMMA InvInit == ASSUME Init PROVE IInv
<1>1. Types /\ TargetWhole
  BY TypesInit DEF Init, TargetWhole
<1>2. \A j \in Jobs : JobInv(j)
  BY ExportAssumption DEF Init, InitJobs, JobInv, Reading, Writing, Ended, Whole, Over
<1> QED
  BY <1>1, <1>2 DEF IInv

\* A round of removals that starts with the data file accounts for what it leaves.
LEMMA LeftByFirstRefusal ==
  ASSUME Types, NEW j \in Jobs, NEW kept \in Leftovers(temps[j]),
         Removed(j, kept, FirstRefused(kept))
  PROVE  LeftByRefusal(j)'
<1>1. temps'[j] = kept /\ refused'[j] = refused[j] \cup FirstRefused(kept)
  BY DEF Removed, Types, ExportTypeOK
<1>2. temps[j] \subseteq {"data", "rows"}
  BY DEF Types, ExportTypeOK
<1>3. kept \subseteq {"data", "rows"}
  BY <1>2 DEF Leftovers
<1> QED
  BY <1>1, <1>3 DEF FirstRefused, LeftByRefusal

\* So does the second round, after a close that failed.
LEMMA LeftAfterRetry ==
  ASSUME Types, NEW j \in Jobs, NEW kept \in Retried(temps[j]), Removed(j, kept, kept)
  PROVE  LeftByRefusal(j)'
<1>1. temps'[j] = kept /\ refused'[j] = refused[j] \cup kept
  BY DEF Removed, Types, ExportTypeOK
<1> QED
  BY <1>1 DEF LeftByRefusal

LEMMA InvNext == ASSUME IInv, [Next]_vars PROVE IInv'
<1> USE ExportAssumption DEF IInv, Types, StatesTypeOK, ExportTypeOK, Places, Live, Over, jobVars, history, Goes
<1>0. Types'
  BY TypesNext
<1> DEFINE Kept == TargetWhole' /\ \A k \in Jobs : JobInv(k)'
<1>1. ASSUME NEW j \in Jobs, Start(j) PROVE Kept
  <2>1. JobInv(j)'
    BY <1>1 DEF Start, StartJob, JobInv, Reading, Writing, Ended, Whole
  <2>2. ASSUME NEW k \in Jobs, k # j PROVE JobInv(k)'
    BY <1>1, <2>2, Untouched DEF Start, StartJob
  <2> QED
    BY <1>1, <2>1, <2>2 DEF Start, StartJob, TargetWhole
<1>2. ASSUME NEW j \in Jobs, OpenJsonl(j) PROVE Kept
  <2>1. JobInv(j)'
    BY <1>2 DEF OpenJsonl, LoopTop, AfterLoop, Ending, JobInv, Reading, Writing, Ended, Whole
  <2>2. ASSUME NEW k \in Jobs, k # j PROVE JobInv(k)'
    BY <1>2, <2>2, Untouched DEF OpenJsonl
  <2> QED
    BY <1>2, <2>1, <2>2 DEF OpenJsonl, TargetWhole
<1>3. ASSUME NEW j \in Jobs, OpenFails(j) PROVE Kept
  <2>1. JobInv(j)'
    BY <1>3 DEF OpenFails, TaskThrows, TaskEnds, JobInv, Reading, Writing, Ended, Whole, LeftByRefusal
  <2>2. ASSUME NEW k \in Jobs, k # j PROVE JobInv(k)'
    BY <1>3, <2>2, Untouched DEF OpenFails, TaskThrows, TaskEnds
  <2> QED
    BY <1>3, <2>1, <2>2 DEF OpenFails, TaskThrows, TaskEnds, TargetWhole
<1>4. ASSUME NEW j \in Jobs, MetadataSettles(j) PROVE Kept
  <2>1. JobInv(j)'
    BY <1>4 DEF MetadataSettles, LoopTop, AfterLoop, Ending, JobInv, Reading, Writing, Ended, Whole
  <2>2. ASSUME NEW k \in Jobs, k # j PROVE JobInv(k)'
    BY <1>4, <2>2, Untouched DEF MetadataSettles
  <2> QED
    BY <1>4, <2>1, <2>2 DEF MetadataSettles, TargetWhole
<1>5. ASSUME NEW j \in Jobs, PageArrives(j) PROVE Kept
  <2>1. JobInv(j)'
    <3> DEFINE rows == exported[j] + PageRows(j)
    <3>1. /\ rows \in Nat /\ rows <= Whole
          /\ PageRows(j) < Limit(j) => rows = found
          /\ PageRows(j) >= Limit(j) => rows < MaxRecords \/ rows = MaxRecords
      BY <1>5 DEF PageArrives, PageRows, Limit, Whole, JobInv, Reading
    <3>2. exported'[j] = rows
      BY <1>5 DEF PageArrives
    <3>3. place'[j] = IF PageRows(j) < Limit(j) THEN AfterLoop(j, rows) ELSE LoopTop(j, rows)
      BY <1>5 DEF PageArrives
    <3>4. UNCHANGED <<found, status, cancelled, details, truncated, failing, published, tooLate>>
      BY <1>5 DEF PageArrives
    <3>5. place[j] = "page"
      BY <1>5 DEF PageArrives
    <3> HIDE DEF rows
    <3>6. Reading(j)'
      BY <3>1, <3>2, <3>3, <3>4 DEF Reading, Whole, LoopTop, AfterLoop, Ending
    <3>7. Writing(j)'
      BY <3>1, <3>2, <3>3, <3>4, <3>5 DEF JobInv, Writing, Whole, LoopTop, AfterLoop, Ending
    <3>8. Ended(j)'
      BY <3>3, <3>4, <3>5 DEF JobInv, Ended, Writing, LoopTop, AfterLoop, Ending
    <3> QED
      BY <3>6, <3>7, <3>8 DEF JobInv
  <2>2. ASSUME NEW k \in Jobs, k # j PROVE JobInv(k)'
    BY <1>5, <2>2, Untouched DEF PageArrives
  <2> QED
    BY <1>5, <2>1, <2>2 DEF PageArrives, TargetWhole
<1>6. ASSUME NEW j \in Jobs, PageFails(j) PROVE Kept
  <2>1. JobInv(j)'
    BY <1>6 DEF PageFails, Fails, JobInv, Reading, Writing, Ended, Whole
  <2>2. ASSUME NEW k \in Jobs, k # j PROVE JobInv(k)'
    BY <1>6, <2>2, Untouched, ZenonT(30) DEF PageFails, Fails
  <2> QED
    BY <1>6, <2>1, <2>2 DEF PageFails, TargetWhole
<1>7. ASSUME NEW j \in Jobs, ProbeSettles(j) PROVE Kept
  <2>1. JobInv(j)'
    <3>1. PICK more \in BOOLEAN : truncated' = [truncated EXCEPT ![j] = more] /\ (more = TRUE \/ found <= exported[j])
      <4>1. PICK answered \in BOOLEAN : truncated' = [truncated EXCEPT ![j] = (answered => found > exported[j])]
        BY <1>7, Zenon DEF ProbeSettles
      <4>2. CASE answered /\ ~(found > exported[j])
        <5>1. (answered => found > exported[j]) = FALSE
          BY <4>2, Zenon
        <5>2. truncated' = [truncated EXCEPT ![j] = FALSE]
          BY <4>1, <5>1, Zenon
        <5>3. found <= exported[j]
          BY <4>2
        <5> QED
          BY <5>2, <5>3
      <4>3. CASE ~(answered /\ ~(found > exported[j]))
        <5>1. truncated' = [truncated EXCEPT ![j] = TRUE]
          BY <4>1, <4>3
        <5> QED
          BY <5>1
      <4> QED
        BY <4>2, <4>3
    <3>2. /\ place[j] = "probe" /\ place'[j] = Ending(j)
          /\ UNCHANGED <<found, status, cancelled, details, exported, temps, failing, published, tooLate>>
      BY <1>7 DEF ProbeSettles
    <3>3. exported[j] = MaxRecords /\ exported[j] = Whole /\ (more = TRUE \/ exported[j] = found)
      BY <3>1, <3>2 DEF JobInv, Reading, Whole
    <3>4. Reading(j)'
      BY <3>2, <3>3 DEF Reading, Whole, Ending
    <3>5. Writing(j)'
      BY <3>1, <3>2, <3>3 DEF JobInv, Writing, Whole, Ending
    <3>6. Ended(j)'
      BY <3>1, <3>2 DEF JobInv, Ended, Writing, Ending
    <3> QED
      BY <3>4, <3>5, <3>6 DEF JobInv
  <2>2. ASSUME NEW k \in Jobs, k # j PROVE JobInv(k)'
    BY <1>7, <2>2, Untouched DEF ProbeSettles
  <2> QED
    BY <1>7, <2>1, <2>2 DEF ProbeSettles, TargetWhole
<1>8. ASSUME NEW j \in Jobs, CsvStartsLate(j) PROVE Kept
  <2>1. JobInv(j)'
    BY <1>8 DEF CsvStartsLate, JobInv, Reading, Writing, Ended, Whole
  <2>2. ASSUME NEW k \in Jobs, k # j PROVE JobInv(k)'
    BY <1>8, <2>2, Untouched DEF CsvStartsLate
  <2> QED
    BY <1>8, <2>1, <2>2 DEF CsvStartsLate, TargetWhole
<1>9. ASSUME NEW j \in Jobs, RowsCopied(j) PROVE Kept
  <2>1. JobInv(j)'
    BY <1>9 DEF RowsCopied, JobInv, Reading, Writing, Ended, Whole
  <2>2. ASSUME NEW k \in Jobs, k # j PROVE JobInv(k)'
    BY <1>9, <2>2, Untouched DEF RowsCopied
  <2> QED
    BY <1>9, <2>1, <2>2 DEF RowsCopied, TargetWhole
<1>10. ASSUME NEW j \in Jobs, Publish(j) PROVE Kept
  <2>1. JobInv(j)'
    BY <1>10 DEF Publish, JobInv, Reading, Writing, Ended, Whole
  <2>2. ASSUME NEW k \in Jobs, k # j PROVE JobInv(k)'
    BY <1>10, <2>2, Untouched DEF Publish
  <2>3. TargetWhole'
    BY <1>10 DEF Publish, TargetWhole, JobInv, Writing, Whole
  <2> QED
    BY <2>1, <2>2, <2>3
<1>11. ASSUME NEW j \in Jobs, CloseFails(j) PROVE Kept
  <2>1. JobInv(j)'
    <3>3. /\ place[j] = "closing" /\ place' = [place EXCEPT ![j] = "unclosed"]
          /\ failing' = [failing EXCEPT ![j] = TRUE]
          /\ UNCHANGED <<found, status, cancelled, details, exported, truncated, published, tooLate>>
      BY <1>11 DEF CloseFails
    <3> QED
      BY <3>3 DEF JobInv, Reading, Writing, Ended, Whole
  <2>2. ASSUME NEW k \in Jobs, k # j PROVE JobInv(k)'
    <3>1. temps'[k] = temps[k] /\ refused'[k] = refused[k]
      BY <1>11, <2>2 DEF CloseFails, Removed
    <3>2. /\ place'[k] = place[k] /\ failing'[k] = failing[k]
          /\ UNCHANGED <<found, status, cancelled, details, exported, truncated, published, tooLate>>
      BY <1>11, <2>2 DEF CloseFails
    <3> QED
      BY <3>1, <3>2, Untouched
  <2> QED
    BY <1>11, <2>1, <2>2 DEF CloseFails, TargetWhole
<1>12. ASSUME NEW j \in Jobs, Finished(j) PROVE Kept
  <2>1. JobInv(j)'
    BY <1>12 DEF Finished, TaskReturns, TaskEnds, JobInv, Reading, Writing, Ended, Whole, LeftByRefusal
  <2>2. ASSUME NEW k \in Jobs, k # j PROVE JobInv(k)'
    BY <1>12, <2>2, Untouched DEF Finished, TaskReturns, TaskEnds
  <2> QED
    BY <1>12, <2>1, <2>2 DEF Finished, TargetWhole
<1>13. ASSUME NEW j \in Jobs, Aborted(j) PROVE Kept
  <2>1. PICK kept \in Leftovers(temps[j]) :
          /\ Removed(j, kept, FirstRefused(kept))
          /\ IF failing[j] \/ kept # {} THEN TaskThrows(j) ELSE TaskReturns(j, "noFile")
    BY <1>13 DEF Aborted
  <2>2. /\ place[j] = "aborting" /\ place' = [place EXCEPT ![j] = "over"]
        /\ UNCHANGED <<found, failing, target, published, tooLate>>
        /\ exported'[j] = exported[j] \/ exported'[j] = 0
        /\ \A k \in Jobs : k # j => exported'[k] = exported[k] /\ truncated'[k] = truncated[k]
    BY <1>13 DEF Aborted
  <2>3. LeftByRefusal(j)'
    BY <2>1, LeftByFirstRefusal
  <2>4. j \notin published
    BY <2>2 DEF JobInv, Writing
  <2>5. /\ cancelled' = cancelled
        /\ \E v \in Over, says \in {"noFile", "cancelled", "plain"} :
             /\ status' = [status EXCEPT ![j] = v] /\ details' = [details EXCEPT ![j] = says]
             /\ v # "completed"
    <3>1. CASE TaskThrows(j)
      BY <3>1 DEF TaskThrows, TaskEnds
    <3>2. CASE TaskReturns(j, "noFile") /\ ~failing[j]
      <4>1. cancelled[j]
        BY <2>2, <3>2 DEF JobInv, Writing
      <4> QED
        BY <3>2, <4>1 DEF TaskReturns, TaskEnds
    <3> QED
      BY <2>1, <3>1, <3>2
  <2>6. JobInv(j)'
    BY <2>2, <2>3, <2>4, <2>5 DEF JobInv, Reading, Writing, Ended, Whole
  <2>7. ASSUME NEW k \in Jobs, k # j PROVE JobInv(k)'
    <3>1. temps'[k] = temps[k] /\ refused'[k] = refused[k]
      BY <2>1, <2>7 DEF Removed
    <3>2. status'[k] = status[k] /\ details'[k] = details[k] /\ cancelled'[k] = cancelled[k]
      BY <2>5, <2>7
    <3> QED
      BY <2>2, <2>7, <3>1, <3>2, Untouched
  <2> QED
    BY <2>2, <2>6, <2>7 DEF TargetWhole
<1>22. ASSUME NEW j \in Jobs, AbortedAgain(j) PROVE Kept
  <2>1. PICK kept \in Retried(temps[j]) : Removed(j, kept, kept)
    BY <1>22 DEF AbortedAgain
  <2>2. /\ place[j] = "unclosed" /\ TaskThrows(j) /\ place' = [place EXCEPT ![j] = "over"]
        /\ UNCHANGED <<found, failing, target, exported, truncated, published, tooLate>>
    BY <1>22 DEF AbortedAgain
  <2>3. LeftByRefusal(j)'
    BY <2>1, LeftAfterRetry
  <2>4. JobInv(j)'
    BY <2>2, <2>3 DEF TaskThrows, TaskEnds, JobInv, Reading, Writing, Ended, Whole
  <2>5. ASSUME NEW k \in Jobs, k # j PROVE JobInv(k)'
    <3>1. temps'[k] = temps[k] /\ refused'[k] = refused[k]
      BY <2>1, <2>5 DEF Removed
    <3>2. status'[k] = status[k] /\ details'[k] = details[k] /\ cancelled'[k] = cancelled[k]
      BY <2>2, <2>5 DEF TaskThrows, TaskEnds
    <3> QED
      BY <2>2, <2>5, <3>1, <3>2, Untouched
  <2> QED
    BY <2>2, <2>4, <2>5 DEF TargetWhole
<1>23. ASSUME NEW j \in Jobs, WriterNotCreated(j) PROVE Kept
  <2>1. PICK kept \in Leftovers({"data"}) : Removed(j, kept, kept)
    BY <1>23 DEF WriterNotCreated
  <2>2. /\ place[j] \in {"page", "closing"} /\ TaskThrows(j) /\ place' = [place EXCEPT ![j] = "over"]
        /\ UNCHANGED <<found, failing, target, exported, truncated, published, tooLate>>
    BY <1>23 DEF WriterNotCreated
  <2>3. LeftByRefusal(j)'
    BY <2>1 DEF Leftovers, Removed, LeftByRefusal
  <2>4. JobInv(j)'
    BY <2>2, <2>3 DEF TaskThrows, TaskEnds, JobInv, Reading, Writing, Ended, Whole
  <2>5. ASSUME NEW k \in Jobs, k # j PROVE JobInv(k)'
    <3>1. temps'[k] = temps[k] /\ refused'[k] = refused[k]
      BY <2>1, <2>5 DEF Removed
    <3>2. status'[k] = status[k] /\ details'[k] = details[k] /\ cancelled'[k] = cancelled[k]
      BY <2>2, <2>5 DEF TaskThrows, TaskEnds
    <3> QED
      BY <2>2, <2>5, <3>1, <3>2, Untouched
  <2> QED
    BY <2>2, <2>4, <2>5 DEF TargetWhole
<1>24. ASSUME NEW j \in Jobs, LateRowsFail(j) PROVE Kept
  <2>1. JobInv(j)'
    BY <1>24 DEF LateRowsFail, Fails, JobInv, Reading, Writing, Ended, Whole
  <2>2. ASSUME NEW k \in Jobs, k # j PROVE JobInv(k)'
    BY <1>24, <2>2, Untouched, ZenonT(30) DEF LateRowsFail, Fails
  <2> QED
    BY <1>24, <2>1, <2>2 DEF LateRowsFail, TargetWhole
<1>14. ASSUME NEW j \in Jobs, Cancel(j) PROVE Kept
  <2>1. JobInv(j)'
    BY <1>14 DEF Cancel, CancelJob, JobInv, Reading, Writing, Ended, Whole
  <2>2. ASSUME NEW k \in Jobs, k # j PROVE JobInv(k)'
    BY <1>14, <2>2, Untouched DEF Cancel, CancelJob
  <2> QED
    BY <1>14, <2>1, <2>2 DEF Cancel, TargetWhole
<1>15. ASSUME Reload PROVE Kept
  <2>1. ASSUME NEW j \in Jobs PROVE JobInv(j)'
    BY <1>15, <2>1 DEF Reload, JobsLost, JobInv, Reading, Writing, Ended, Whole, LeftByRefusal
  <2>2. TargetWhole'
    BY <1>15 DEF Reload, TargetWhole
  <2> QED
    BY <2>1, <2>2
<1>16. ASSUME UNCHANGED vars PROVE Kept
  BY <1>16 DEF vars, exportVars, TargetWhole, JobInv, Reading, Writing, Ended, Whole, LeftByRefusal
<1>17. Kept
  BY <1>1, <1>2, <1>3, <1>4, <1>5, <1>6, <1>7, <1>8, <1>9, <1>10, <1>11, <1>12, <1>13, <1>14, <1>15, <1>16, <1>22, <1>23, <1>24
  DEF Next, TaskStep
<1> QED
  BY <1>0, <1>17

\* IInv is inductive, so every state the program reaches satisfies it.
LEMMA Invariance == Spec => []IInv
  BY InvInit, InvNext, PTL DEF Spec

-----------------------------------------------------------------------------
(***************************************************************************)
(* The chosen file is the old one or a whole export, at any moment.        *)
(***************************************************************************)
THEOREM NoPartialFile == Spec => []TargetWhole
<1>1. IInv => TargetWhole
  BY DEF IInv
<1> QED
  BY Invariance, <1>1, PTL

(***************************************************************************)
(* A completed export replaced the file and says so if it left records     *)
(* out; a failed one did not replace it.                                   *)
(***************************************************************************)
THEOREM VerdictsTrue == Spec => []VerdictTrue
<1>1. IInv => VerdictTrue
  BY DEF IInv, Types, ExportTypeOK, JobInv, Ended, VerdictTrue
<1> QED
  BY Invariance, <1>1, PTL

(***************************************************************************)
(* A job that ended has left a temporary file only if a removal failed,    *)
(* whatever else failed and whenever it was cancelled.                      *)
(***************************************************************************)
THEOREM LeftOnlyByRefusal == Spec => []TempsLeftByRefusalOnly
<1>1. IInv => TempsLeftByRefusalOnly
  BY DEF IInv, JobInv, Ended, TempsLeftByRefusalOnly
<1> QED
  BY Invariance, <1>1, PTL

(***************************************************************************)
(* "Cancelled; no file was written" is true of every job cancelled before  *)
(* it decided to close its files.                                          *)
(***************************************************************************)
THEOREM CancelledMeansNoFile == Spec => []CancelledWithoutFile
<1>1. IInv => CancelledWithoutFile
  BY DEF IInv, JobInv, Ended, CancelledWithoutFile
<1> QED
  BY Invariance, <1>1, PTL

(***************************************************************************)
(* Once cancelled, a job requests no page and no probe any more.           *)
(***************************************************************************)
LEMMA SilentOnceCancelled ==
  ASSUME IInv, [Next]_vars, NEW j \in Jobs, cancelled[j] PROVE ~Asks(j)
<1> USE DEF IInv, Types, StatesTypeOK, ExportTypeOK, Asks, Goes
<1>1. ASSUME NEW i \in Jobs, OpenJsonl(i) \/ MetadataSettles(i) \/ PageArrives(i) PROVE ~Asks(j)
  BY <1>1 DEF OpenJsonl, MetadataSettles, PageArrives, LoopTop, AfterLoop, Ending
<1>2. ASSUME NEW i \in Jobs, Start(i) \/ OpenFails(i) \/ PageFails(i) \/ WriterNotCreated(i) \/ ProbeSettles(i)
      PROVE  ~Asks(j)
  BY <1>2 DEF Start, OpenFails, PageFails, WriterNotCreated, Fails, ProbeSettles, Ending
<1>3. ASSUME NEW i \in Jobs, CsvStartsLate(i) \/ LateRowsFail(i) \/ RowsCopied(i) \/ Publish(i) \/ CloseFails(i) \/ Finished(i)
      PROVE  ~Asks(j)
  BY <1>3 DEF CsvStartsLate, LateRowsFail, RowsCopied, Publish, CloseFails, Fails, Finished
<1>4. ASSUME NEW i \in Jobs, Aborted(i) \/ AbortedAgain(i) \/ Cancel(i) PROVE ~Asks(j)
  BY <1>4 DEF Aborted, AbortedAgain, Cancel
<1>5. CASE Reload \/ UNCHANGED vars
  BY <1>5 DEF Reload, vars, exportVars
<1> QED
  BY <1>1, <1>2, <1>3, <1>4, <1>5 DEF Next, TaskStep

(***************************************************************************)
(* Once the user cancels, no job asks the server for another page or probe *)
(* (batchService.ts looks at the cancellation before every request).       *)
(***************************************************************************)
THEOREM SilentAfterCancel == Spec => NoRequestAfterCancel
<1>1. IInv /\ [Next]_vars => [\A j \in Jobs : cancelled[j] => ~Asks(j)]_vars
  BY SilentOnceCancelled
<1> QED
  BY Invariance, <1>1, PTL DEF Spec, NoRequestAfterCancel
=============================================================================
