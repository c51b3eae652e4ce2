----------------------------- MODULE BatchExport -----------------------------
(***************************************************************************)
(* Batch export (services/batchService.ts batchExportFind) as the task of  *)
(* a job, with its writers (utils/atomicExport.ts, csvStreamWriter.ts,     *)
(* jsonlWriter.ts): the found set is read page by page into files beside   *)
(* the chosen one, and one rename puts them in its place.  All jobs write  *)
(* to the same path.  The found set does not change during a run: paging   *)
(* by offset promises nothing about records others add or delete.          *)
(***************************************************************************)
EXTENDS JobRunner

CONSTANTS
    MaxFound,      \* bound: records in the found set
    MaxRecords,    \* options.maxRecords
    PageSize,      \* normalizePageSize(...)
    SampleSize     \* 100 in the code: records a CSV export collects for its columns when there is no metadata

ASSUME ExportAssumption ==
    MaxFound \in Nat /\ MaxRecords \in Nat \ {0} /\ PageSize \in Nat \ {0} /\ SampleSize \in Nat \ {0}

VARIABLES
    found,       \* records the find matches
    place,       \* where each task waits
    format,      \* "jsonl" or "csv"
    known,       \* csv: the layout's fields are known
    exported,    \* records read so far; request.offset + exported is the next offset
    truncated,   \* the result says that more records exist
    failing,     \* the task is in its catch block
    temps,       \* temporary files of the job beside the target
    target,      \* the file the user chose
    published,   \* history: the jobs that replaced the target
    tooLate,     \* history: the jobs cancelled after they had decided to close their files
    refused      \* history: the temporary files of each job whose removal failed

history == <<published, tooLate, refused>>
exportVars == <<found, place, format, known, exported, truncated, failing, temps, target, history>>
vars == <<jobVars, exportVars>>

OldFile == [by |-> "before", rows |-> 0]
Temporary(fmt) == IF fmt = "csv" THEN {"data", "rows"} ELSE {"data"}
Places == {"idle", "open", "metadata", "page", "probe", "closing", "unclosed", "renamed", "aborting", "over"}

Init ==
    /\ InitJobs
    /\ found \in 0..MaxFound
    /\ place = [j \in Jobs |-> "idle"]
    /\ format \in [Jobs -> {"jsonl", "csv"}]
    /\ known = [j \in Jobs |-> FALSE]
    /\ exported = [j \in Jobs |-> 0]
    /\ truncated = [j \in Jobs |-> FALSE]
    /\ failing = [j \in Jobs |-> FALSE]
    /\ temps = [j \in Jobs |-> {}]
    /\ target = OldFile
    /\ published = {} /\ tooLate = {}
    /\ refused = [j \in Jobs |-> {}]

Goes(j, where) == place' = [place EXCEPT ![j] = where]
\* Mutant: the last page is as long as any.
LimitWhole(j) == PageSize
Limit(j) == IF MaxRecords - exported[j] < PageSize THEN MaxRecords - exported[j] ELSE PageSize
PageRows(j) == IF found - exported[j] < Limit(j) THEN found - exported[j] ELSE Limit(j)

(***************************************************************************)
(* What follows a page.  The cancellation is looked at before every page,  *)
(* before the probe for a further record, and once more when the task      *)
(* decides between abort and close.                                        *)
(***************************************************************************)
\* Mutant: a cancelled job closes its files like any other.
EndingRegardless(j) == "closing"
Ending(j) == IF cancelled[j] THEN "aborting" ELSE "closing"
AfterLoop(j, rows) == IF rows >= MaxRecords /\ ~cancelled[j] THEN "probe" ELSE Ending(j)
\* Mutant: the loop looks at the count only.
LoopTopRegardless(j, rows) == IF rows < MaxRecords THEN "page" ELSE AfterLoop(j, rows)
LoopTop(j, rows) == IF rows < MaxRecords /\ ~cancelled[j] THEN "page" ELSE AfterLoop(j, rows)

\* A CSV writer is created once its columns are known.
WriterNeeded(j, rows) == format[j] = "csv" /\ (known[j] \/ rows >= SampleSize)
TempsWith(j, rows) == IF WriterNeeded(j, rows) THEN Temporary("csv") ELSE temps[j]

Start(j) ==
    /\ StartJob(j)
    /\ Goes(j, IF format[j] = "jsonl" THEN "open" ELSE "metadata")
    /\ UNCHANGED <<found, format, known, exported, truncated, failing, temps, target, history>>

OpenJsonl(j) ==
    /\ place[j] = "open"
    /\ temps' = [temps EXCEPT ![j] = Temporary("jsonl")]
    /\ Goes(j, LoopTop(j, 0))
    /\ UNCHANGED <<jobVars, found, format, known, exported, truncated, failing, target, history>>

\* createJsonlWriter stands before the try block.
OpenFails(j) ==
    /\ place[j] = "open"
    /\ TaskThrows(j)
    /\ Goes(j, "over")
    /\ UNCHANGED <<found, format, known, exported, truncated, failing, temps, target, history>>

MetadataSettles(j) ==
    /\ place[j] = "metadata"
    /\ \E ok \in BOOLEAN : known' = [known EXCEPT ![j] = ok]
    /\ Goes(j, LoopTop(j, 0))
    /\ UNCHANGED <<jobVars, found, format, exported, truncated, failing, temps, target, history>>

\* A page arrives and is appended; the loop goes on from there.
PageArrives(j) ==
    /\ place[j] = "page"
    /\ LET rows == exported[j] + PageRows(j) IN
       /\ exported' = [exported EXCEPT ![j] = rows]
       /\ temps' = [temps EXCEPT ![j] = TempsWith(j, rows)]
       /\ Goes(j, IF PageRows(j) < Limit(j) THEN AfterLoop(j, rows) ELSE LoopTop(j, rows))
    /\ UNCHANGED <<jobVars, found, format, known, truncated, failing, target, history>>

(***************************************************************************)
(* Removing the temporary files: the data file first, then the rows.  Each *)
(* removal may fail, and when the first does the second is not tried       *)
(* (csvStreamWriter's abort and the catch block of its close).             *)
(***************************************************************************)
Leftovers(files) == {{}, files} \cup (IF "rows" \in files THEN {{"rows"}} ELSE {})
FirstRefused(kept) == IF "data" \in kept THEN {"data"} ELSE kept

\* Mutant: the writer of the rows is not aborted.
RemovedPartly(j, kept, failed) ==
    /\ temps' = [temps EXCEPT ![j] = @ \ {"data"}]
    /\ UNCHANGED refused
Removed(j, kept, failed) ==
    /\ temps' = [temps EXCEPT ![j] = kept]
    /\ refused' = [refused EXCEPT ![j] = @ \cup failed]

Fails(j) ==
    /\ Goes(j, "aborting")
    /\ failing' = [failing EXCEPT ![j] = TRUE]

\* createCsvStreamWriter fails: it removes what it had opened, and the catch
\* block of batchExportFind has no writer to abort.
WriterNotCreated(j) ==
    /\ format[j] = "csv" /\ temps[j] = {}
    /\ \/ place[j] = "page" /\ WriterNeeded(j, exported[j] + PageRows(j))
       \/ place[j] = "closing"
    /\ \E kept \in Leftovers({"data"}) : Removed(j, kept, kept)
    /\ TaskThrows(j)
    /\ Goes(j, "over")
    /\ UNCHANGED <<found, format, known, exported, truncated, failing, target, published, tooLate>>

\* A request or an append fails.
PageFails(j) ==
    /\ place[j] = "page"
    /\ Fails(j)
    /\ \E left \in {temps[j], TempsWith(j, exported[j] + PageRows(j))} : temps' = [temps EXCEPT ![j] = left]
    /\ UNCHANGED <<jobVars, found, format, known, exported, truncated, target, history>>

\* Mutant: a probe that fails counts as "there is no more".
ProbeSettlesHopeful(j) ==
    /\ place[j] = "probe"
    /\ \E answered \in BOOLEAN :
         truncated' = [truncated EXCEPT ![j] = answered /\ found > exported[j]]
    /\ Goes(j, Ending(j))
    /\ UNCHANGED <<jobVars, found, format, known, exported, failing, temps, target, history>>

\* A probe that fails counts as "there may be more".
ProbeSettles(j) ==
    /\ place[j] = "probe"
    /\ \E answered \in BOOLEAN :
         truncated' = [truncated EXCEPT ![j] = (answered => found > exported[j])]
    /\ Goes(j, Ending(j))
    /\ UNCHANGED <<jobVars, found, format, known, exported, failing, temps, target, history>>

\* A CSV export with few records or none creates its writer only now.
CsvStartsLate(j) ==
    /\ place[j] = "closing" /\ temps[j] = {}
    /\ temps' = [temps EXCEPT ![j] = Temporary("csv")]
    /\ UNCHANGED <<jobVars, found, place, format, known, exported, truncated, failing, target, history>>

\* csvStreamWriter.close copies the rows under the header and deletes their file.
RowsCopied(j) ==
    /\ place[j] = "closing" /\ "rows" \in temps[j]
    /\ temps' = [temps EXCEPT ![j] = @ \ {"rows"}]
    /\ UNCHANGED <<jobVars, found, place, format, known, exported, truncated, failing, target, history>>

\* atomicExport.close: renameReplacing
Publish(j) ==
    /\ place[j] = "closing" /\ temps[j] = {"data"}
    /\ target' = [by |-> j, rows |-> exported[j]]
    /\ published' = published \cup {j} /\ UNCHANGED <<tooLate, refused>>
    /\ temps' = [temps EXCEPT ![j] = {}]
    /\ Goes(j, "renamed")
    /\ UNCHANGED <<jobVars, found, format, known, exported, truncated, failing>>

\* The records a CSV export kept back are appended to its late writer; that fails.
LateRowsFail(j) ==
    /\ place[j] = "closing" /\ temps[j] = Temporary("csv") /\ ~WriterNeeded(j, exported[j])
    /\ Fails(j)
    /\ UNCHANGED <<jobVars, found, format, known, exported, truncated, temps, target, history>>

\* close fails and removes the files in its own catch block.
CloseFails(j) ==
    /\ place[j] = "closing" /\ temps[j] # {}
    /\ \E kept \in Leftovers(temps[j]) : Removed(j, kept, FirstRefused(kept))
    /\ Goes(j, "unclosed")
    /\ failing' = [failing EXCEPT ![j] = TRUE]
    /\ UNCHANGED <<jobVars, found, format, known, exported, truncated, target, published, tooLate>>

\* The catch block of batchExportFind aborts the writer once more: the rows are
\* tried again, the data file only when there were none (finished, atomicExport).
Retried(files) == IF "rows" \in files THEN {files, files \ {"rows"}} ELSE {{}, files}
AbortedAgain(j) ==
    /\ place[j] = "unclosed"
    /\ \E kept \in Retried(temps[j]) : Removed(j, kept, kept)
    /\ TaskThrows(j)
    /\ Goes(j, "over")
    /\ UNCHANGED <<found, format, known, exported, truncated, failing, target, published, tooLate>>

Finished(j) ==
    /\ place[j] = "renamed"
    /\ TaskReturns(j, "noFile")
    /\ Goes(j, "over")
    /\ UNCHANGED <<found, format, known, exported, truncated, failing, temps, target, history>>

\* Mutant: the abort waits for the end of a stream that may never have been opened.
AbortedWaiting(j) ==
    /\ place[j] = "aborting" /\ temps[j] # {}
    /\ Removed(j, {}, {})
    /\ IF failing[j] THEN TaskThrows(j) ELSE TaskReturns(j, "noFile")
    /\ Goes(j, "over")
    /\ UNCHANGED <<found, format, known, exported, truncated, failing, target, published, tooLate>>

\* abort of both writers, after a cancellation or in the catch block.  An abort
\* that fails is thrown; after a cancellation the catch block aborts again, which
\* does nothing more (closed, finished).
Aborted(j) ==
    /\ place[j] = "aborting"
    /\ \E kept \in Leftovers(temps[j]) :
         /\ Removed(j, kept, FirstRefused(kept))
         /\ IF failing[j] \/ kept # {} THEN TaskThrows(j) ELSE TaskReturns(j, "noFile")
    /\ IF failing[j] THEN UNCHANGED <<exported, truncated>>
                     ELSE /\ exported' = [exported EXCEPT ![j] = 0]
                          /\ truncated' = [truncated EXCEPT ![j] = FALSE]
    /\ Goes(j, "over")
    /\ UNCHANGED <<found, format, known, failing, target, published, tooLate>>

\* The user cancels a job from the Jobs view.
Cancel(j) ==
    /\ CancelJob(j)
    /\ tooLate' = IF place[j] \in {"closing", "renamed"} THEN tooLate \cup {j} ELSE tooLate
    /\ UNCHANGED <<found, place, format, known, exported, truncated, failing, temps, target, published, refused>>

\* The window reloads: tasks stop where they are and their files stay.
Reload ==
    /\ \E j \in Jobs : status[j] \in Live
    /\ JobsLost
    /\ place' = [j \in Jobs |-> IF status[j] \in Live THEN "over" ELSE place[j]]
    /\ UNCHANGED <<found, format, known, exported, truncated, failing, temps, target, history>>

TaskStep(j) ==
    \/ OpenJsonl(j) \/ OpenFails(j) \/ MetadataSettles(j)
    \/ PageArrives(j) \/ PageFails(j) \/ WriterNotCreated(j) \/ ProbeSettles(j)
    \/ CsvStartsLate(j) \/ LateRowsFail(j) \/ RowsCopied(j) \/ Publish(j)
    \/ CloseFails(j) \/ AbortedAgain(j) \/ Finished(j) \/ Aborted(j)

Next ==
    \/ \E j \in Jobs : Start(j) \/ TaskStep(j) \/ Cancel(j)
    \/ Reload

Spec == Init /\ [][Next]_vars

\* Requests end (HTTP timeouts), file operations end, continuations run.
Fairness == \A j \in Jobs : WF_vars(TaskStep(j))
FairSpec == Spec /\ Fairness

-----------------------------------------------------------------------------
ExportTypeOK ==
    /\ found \in 0..MaxFound
    /\ place \in [Jobs -> Places]
    /\ format \in [Jobs -> {"jsonl", "csv"}]
    /\ known \in [Jobs -> BOOLEAN]
    /\ exported \in [Jobs -> 0..MaxRecords]
    /\ truncated \in [Jobs -> BOOLEAN]
    /\ failing \in [Jobs -> BOOLEAN]
    /\ temps \in [Jobs -> SUBSET {"data", "rows"}]
    /\ target \in {OldFile} \cup [by : Jobs, rows : 0..MaxRecords]
    /\ published \subseteq Jobs /\ tooLate \subseteq Jobs
    /\ refused \in [Jobs -> SUBSET {"data", "rows"}]

TypeOK == StatesTypeOK /\ RecentTypeOK /\ ExportTypeOK

(***************************************************************************)
(* The chosen file is at any moment, also after a crash, the old one or a  *)
(* whole export: every record of the found set up to the maximum           *)
(* (batchExportFind and atomicExport: no partial file is kept).            *)
(***************************************************************************)
TargetWhole ==
    target = OldFile \/ target.rows = (IF found < MaxRecords THEN found ELSE MaxRecords)

(***************************************************************************)
(* What an ended job says agrees with what happened: a completed export    *)
(* replaced the file and hides no record it left out, a failed one did not *)
(* replace it (the result of batchExportFind, runTask).                    *)
(***************************************************************************)
VerdictTrue ==
    \A j \in Jobs :
      /\ status[j] = "completed" => j \in published /\ (truncated[j] \/ exported[j] = found)
      /\ status[j] = "failed" => j \notin published

(***************************************************************************)
(* A job that ended, whatever failed and whenever it was cancelled, leaves *)
(* a temporary file only if a removal failed: the data file if its own     *)
(* did, the file of rows if its own or that of the data file did, which    *)
(* skips it.  A reload in the middle may leave both (the abort paths of    *)
(* the writers: batchService, csvStreamWriter, atomicExport).              *)
(***************************************************************************)
LeftByRefusal(j) ==
    /\ "data" \in temps[j] => "data" \in refused[j]
    /\ "rows" \in temps[j] => refused[j] # {}
TempsLeftByRefusalOnly == \A j \in Jobs : status[j] \in Over => LeftByRefusal(j)

(***************************************************************************)
(* Once the user cancelled, no page and no probe is requested any more     *)
(* (isCancellationRequested in batchExportFind).                           *)
(***************************************************************************)
Asks(j) == place'[j] \in {"page", "probe"} /\ (place'[j] # place[j] \/ exported'[j] # exported[j])
NoRequestAfterCancel == [][\A j \in Jobs : cancelled[j] => ~Asks(j)]_vars

(***************************************************************************)
(* Every job that starts ends, cancelled or not, unless the window is      *)
(* reloaded.                                                               *)
(***************************************************************************)
ExportEnds == \A j \in Jobs : status[j] \in Live ~> status[j] \notin Live

(***************************************************************************)
(* A job shown as "Cancelled; no file was written" wrote none, if it was   *)
(* cancelled before the task decided to close its files (cancelledDetails, *)
(* the abort branch of batchExportFind).                                   *)
(***************************************************************************)
CancelledWithoutFile ==
    \A j \in Jobs : details[j] = "noFile" /\ j \in published => j \in tooLate
=============================================================================
