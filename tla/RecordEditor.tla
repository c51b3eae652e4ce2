----------------------------- MODULE RecordEditor -----------------------------
(***************************************************************************)
(* The record editor: its page (webviews/recordEditor/ui/index.js), which  *)
(* shows a record and the user's draft, and its host                       *)
(* (webviews/recordEditor/index.ts), which keeps the loaded record whose   *)
(* modification id a save is checked against.  They talk by messages, and  *)
(* the host runs every message's handler on its own.                       *)
(***************************************************************************)
EXTENDS Integers, Sequences

CONSTANTS
    Records,       \* record ids of one layout
    None,          \* no value
    MaxVersion,    \* bound: modification ids of a record
    MaxErrors      \* bound: errors other requests of the page report to it

VARIABLES
    shown,       \* page: the record the form and its draft come from
    input,       \* page: the record id in the input box
    busy,        \* page: state.busy
    toHost, toPage,
    loaded,      \* host: loadedRecord
    saving,      \* host
    run,         \* host: the handler of every request key, where it waits and its locals
    version,     \* server: modification id of every record
    written,     \* history: the last edit the server accepted
    errors,      \* history: errors of other requests the page was told of
    astray       \* history: such an error ended the page's wait for something else

page == <<shown, input, busy>>
server == <<version, written>>
history == <<errors, astray>>
vars == <<page, toHost, toPage, loaded, saving, run, server, history>>

Write == "write"                       \* the request key of a save; a load's is its record

ASSUME EditorAssumption == Write \notin Records /\ MaxVersion \in Nat /\ MaxErrors \in Nat

Keys == Records \cup {Write}
Versions == Nat \ {0}
Copies == [record : Records, version : Versions]
Maybe == Copies \cup {None}
Copy(r) == [record |-> r, version |-> version[r]]
Idle == [at |-> "idle", target |-> None, base |-> None, modId |-> None, got |-> None]

Init ==
    /\ shown = None /\ input \in Records /\ busy = FALSE
    /\ toHost = <<>> /\ toPage = <<>>
    /\ loaded = None /\ saving = FALSE
    /\ run = [k \in Keys |-> Idle]
    /\ version = [r \in Records |-> 1]
    /\ written = None /\ errors = 0 /\ astray = FALSE

(***************************************************************************)
(* The page                                                                *)
(***************************************************************************)
TypesId(r) ==
    /\ input' = r /\ input # r
    /\ UNCHANGED <<shown, busy, toHost, toPage, loaded, saving, run, server, history>>

Posts(message) ==
    /\ ~busy /\ busy' = TRUE
    /\ toHost' = Append(toHost, message)
    /\ UNCHANGED <<shown, input, toPage, loaded, saving, run, server, history>>

ClicksLoad == Posts([key |-> input, target |-> input, base |-> None])
ClicksSave == shown # None /\ Posts([key |-> Write, target |-> input, base |-> shown])

\* Every answer ends the wait, an error whatever request it is about.
Receives ==
    /\ toPage # <<>>
    /\ LET message == Head(toPage) IN
       /\ busy' = FALSE
       /\ shown' = IF message.type \in {"recordLoaded", "recordSaved"} THEN message.copy ELSE shown
       /\ astray' = (astray \/ (message.of = "other" /\ busy))
    /\ toPage' = Tail(toPage)
    /\ UNCHANGED <<input, toHost, loaded, saving, run, server, errors>>

(***************************************************************************)
(* The host: what every handler does                                       *)
(***************************************************************************)
Moves(k, where) == run' = [run EXCEPT ![k].at = where]
Finishes(k) == run' = [run EXCEPT ![k] = Idle]
Says(type, copy) == toPage' = Append(toPage, [type |-> type, copy |-> copy, of |-> "request"])
PostsError == Says("error", None)

\* handleMessage: a request whose key is in flight is dropped without an answer,
\* any other is refused while a save runs.
Dispatch ==
    /\ toHost # <<>>
    /\ LET message == Head(toHost)
           k == message.key
           request == [Idle EXCEPT !.at = "profile", !.target = message.target, !.base = message.base]
       IN \/ /\ run[k].at # "idle"
             /\ UNCHANGED <<run, toPage>>
          \/ /\ run[k].at = "idle" /\ saving
             /\ PostsError /\ UNCHANGED run
          \/ /\ run[k].at = "idle" /\ ~saving
             /\ run' = [run EXCEPT ![k] = request] /\ UNCHANGED toPage
    /\ toHost' = Tail(toHost)
    /\ UNCHANGED <<page, loaded, saving, server, history>>

(***************************************************************************)
(* loadRecord                                                              *)
(***************************************************************************)
\* Mutant: the host's copy changes before the fields are there.
RecordReadEarly(r) ==
    /\ run[r].at = "profile"
    /\ run' = [run EXCEPT ![r].at = "fields", ![r].got = Copy(r)]
    /\ loaded' = Copy(r)
    /\ UNCHANGED <<page, toHost, toPage, saving, server, history>>

\* The server reads the record; the fields of the layout are asked for next.
RecordRead(r) ==
    /\ run[r].at = "profile"
    /\ run' = [run EXCEPT ![r].at = "fields", ![r].got = Copy(r)]
    /\ UNCHANGED <<page, toHost, toPage, loaded, saving, server, history>>

\* Mutant: the host keeps the whole request in place of the record.
RecordLoadedWhole(r) ==
    /\ run[r].at = "fields"
    /\ loaded' = run[r]
    /\ Says("recordLoaded", run[r].got) /\ Finishes(r)
    /\ UNCHANGED <<page, toHost, saving, server, history>>

\* The fields are there: the host's copy and the page's change together.
RecordLoaded(r) ==
    /\ run[r].at = "fields"
    /\ loaded' = run[r].got
    /\ Says("recordLoaded", run[r].got) /\ Finishes(r)
    /\ UNCHANGED <<page, toHost, saving, server, history>>

LoadFails(r) ==
    /\ run[r].at \in {"profile", "fields"}
    /\ PostsError /\ Finishes(r)
    /\ UNCHANGED <<page, toHost, loaded, saving, server, history>>

(***************************************************************************)
(* saveRecord                                                              *)
(***************************************************************************)
save == run[Write]

\* Mutant: any loaded record will do.
SaveChecksNothing ==
    /\ save.at = "profile"
    /\ loaded # None
    /\ run' = [run EXCEPT ![Write].at = "dialog", ![Write].modId = loaded.version]
    /\ UNCHANGED <<page, toHost, toPage, loaded, saving, server, history>>

\* The draft's record is the loaded one: its modification id is kept and the
\* user is asked.
SaveChecks ==
    /\ save.at = "profile"
    /\ loaded # None /\ loaded.record = save.target
    /\ run' = [run EXCEPT ![Write].at = "dialog", ![Write].modId = loaded.version]
    /\ UNCHANGED <<page, toHost, toPage, loaded, saving, server, history>>

\* Not the loaded record, no such profile, or no change.
SaveRefused ==
    /\ save.at = "profile"
    /\ PostsError /\ Finishes(Write)
    /\ UNCHANGED <<page, toHost, loaded, saving, server, history>>

UserCancels ==
    /\ save.at = "dialog"
    /\ Says("saveCancelled", None) /\ Finishes(Write)
    /\ UNCHANGED <<page, toHost, loaded, saving, server, history>>

UserConfirms ==
    /\ save.at = "dialog"
    /\ saving' = TRUE /\ Moves(Write, "edit")
    /\ UNCHANGED <<page, toHost, toPage, loaded, server, history>>

\* The server edits the record unless somebody else changed it (error 306).
Matches == save.modId = version[save.target]
Edited ==
    /\ version[save.target] < MaxVersion
    /\ version' = [version EXCEPT ![save.target] = @ + 1]
    /\ written' = [target |-> save.target, base |-> save.base, over |-> version[save.target]]

EditAccepted ==
    /\ save.at = "edit" /\ Matches
    /\ Edited /\ Moves(Write, "reread")
    /\ UNCHANGED <<page, toHost, toPage, loaded, saving, history>>

EditRefused ==
    /\ save.at = "edit" /\ ~Matches
    /\ Moves(Write, "conflict")
    /\ UNCHANGED <<page, toHost, toPage, loaded, saving, server, history>>

\* The edit fails, or is carried out and its answer lost.
EditFails ==
    /\ save.at = "edit"
    /\ PostsError /\ Finishes(Write) /\ saving' = FALSE
    /\ UNCHANGED server \/ (Matches /\ Edited)
    /\ UNCHANGED <<page, toHost, loaded, history>>

ConflictReported ==
    /\ save.at = "conflict"
    /\ Says("saveConflict", None) /\ Finishes(Write) /\ saving' = FALSE
    /\ UNCHANGED <<page, toHost, loaded, server, history>>

Reread ==
    /\ save.at = "reread"
    /\ run' = [run EXCEPT ![Write].at = "refresh", ![Write].got = Copy(save.target)]
    /\ UNCHANGED <<page, toHost, toPage, loaded, saving, server, history>>

Refreshed ==
    /\ save.at = "refresh"
    /\ loaded' = save.got /\ saving' = FALSE
    /\ Says("recordSaved", save.got) /\ Finishes(Write)
    /\ UNCHANGED <<page, toHost, server, history>>

\* Mutant: the handler ends without a word to the page.
RereadFailsSilently ==
    /\ save.at = "reread"
    /\ loaded' = None /\ saving' = FALSE
    /\ Finishes(Write)
    /\ UNCHANGED <<page, toHost, toPage, server, history>>

\* The edit went through, but the record could not be read again.
RereadFails ==
    /\ save.at = "reread"
    /\ loaded' = None /\ saving' = FALSE
    /\ PostsError /\ Finishes(Write)
    /\ UNCHANGED <<page, toHost, server, history>>

(***************************************************************************)
(* Others: somebody edits a record; another request of the page (layouts,  *)
(* a copied request) fails and postError says so.                          *)
(***************************************************************************)
OtherEdit(r) ==
    /\ version[r] < MaxVersion
    /\ version' = [version EXCEPT ![r] = @ + 1]
    /\ UNCHANGED <<page, toHost, toPage, loaded, saving, run, written, history>>

OtherRequestFails ==
    /\ errors < MaxErrors
    /\ errors' = errors + 1
    /\ toPage' = Append(toPage, [type |-> "error", copy |-> None, of |-> "other"])
    /\ UNCHANGED <<page, toHost, loaded, saving, run, server, astray>>

SaveStep ==
    \/ SaveChecks \/ SaveRefused \/ UserCancels \/ UserConfirms \/ EditAccepted \/ EditRefused
    \/ EditFails \/ ConflictReported \/ Reread \/ Refreshed \/ RereadFails
LoadStep(r) == RecordRead(r) \/ RecordLoaded(r) \/ LoadFails(r)

Next ==
    \/ \E r \in Records : TypesId(r) \/ LoadStep(r) \/ OtherEdit(r)
    \/ ClicksLoad \/ ClicksSave \/ Receives \/ Dispatch \/ SaveStep \/ OtherRequestFails

Spec == Init /\ [][Next]_vars

\* Messages arrive, requests end (HTTP timeouts), the user answers a dialog.
Fairness ==
    /\ WF_vars(Receives) /\ WF_vars(Dispatch) /\ WF_vars(SaveStep)
    /\ \A r \in Records : WF_vars(LoadStep(r))

FairSpec == Spec /\ Fairness

-----------------------------------------------------------------------------
Places == {"idle", "profile", "fields", "dialog", "edit", "conflict", "reread", "refresh"}
Answers == {"recordLoaded", "recordSaved", "saveCancelled", "saveConflict", "error"}
MaybeRecord == Records \cup {None}

TypeOK ==
    /\ shown \in Maybe /\ input \in Records /\ busy \in BOOLEAN
    /\ toHost \in Seq([key : Keys, target : Records, base : Maybe])
    /\ toPage \in Seq([type : Answers, copy : Maybe, of : {"request", "other"}])
    /\ loaded \in Maybe /\ saving \in BOOLEAN
    /\ run \in [Keys -> [at : Places, target : MaybeRecord, base : Maybe,
                         modId : Versions \cup {None}, got : Maybe]]
    /\ version \in [Records -> Versions]
    /\ written \in [target : Records, base : Copies, over : Versions] \cup {None}
    /\ errors \in Nat /\ astray \in BOOLEAN

(***************************************************************************)
(* A save never overwrites what the user has not seen: the edit the server *)
(* accepts was made from the very version of the very record it replaces   *)
(* ("Only now, once nothing more can fail, does the host's copy change",   *)
(* loadRecord).                                                            *)
(***************************************************************************)
NoLostUpdate ==
    written # None =>
      written.base = [record |-> written.target, version |-> written.over]

(***************************************************************************)
(* It holds as long as the page waits for the answers of its own requests. *)
(***************************************************************************)
NoLostUpdateWhileWaiting == ~astray => NoLostUpdate

(***************************************************************************)
(* When the page waits for nothing, the copy its form shows is the copy    *)
(* the host checks a save against, unless the host dropped its own         *)
(* (loadRecord, saveRecord, applyRecord, applySaved).                      *)
(***************************************************************************)
PageAndHostAgree ==
    ~busy /\ ~astray /\ loaded # None => shown = loaded

(***************************************************************************)
(* The page never stays busy and the host never stays saving: every click  *)
(* is answered, however its handler ends (dispatch, handleMessage,         *)
(* saveRecord's finally).                                                  *)
(***************************************************************************)
EveryRequestEnds == (busy ~> ~busy) /\ (saving ~> ~saving)
=============================================================================
