---------------------------- MODULE AiMcpController ----------------------------
(***************************************************************************)
(* The AI server for external tools (ai/mcp/aiMcpController.ts) of every   *)
(* VS Code window: the setting that permits it, the permission epoch and   *)
(* the last state of the setting that was seen (globalState, shared by the *)
(* windows), the flag with which a workspace remembers that the user       *)
(* started the server (workspaceState, kept while its window is closed),   *)
(* and the tasks of a window: the start/stop command, the start on         *)
(* activation and one handler per change of the setting.                   *)
(***************************************************************************)
EXTENDS Integers, FiniteSets

CONSTANTS
    Windows,     \* workspaces, each in a window of its own
    Slots,       \* bound: handlers of setting changes that run at once in a window
    None,        \* undefined
    MaxEpoch,    \* bound: times the epoch is advanced
    MaxChanges   \* bound: times the user changes the setting by hand

ASSUME ControllerAssumption ==
    /\ MaxEpoch \in Nat /\ MaxChanges \in Nat
    /\ IsFiniteSet(Slots) /\ {"command", "auto"} \cap Slots = {}
    /\ None \notin Nat

VARIABLES
    setting,     \* filemaker.ai.externalServer.enabled in the user's settings
    view,        \* the setting as every open window knows it
    epoch, seen,
    flag,        \* startedHere: the epoch of the start, or None
    open,        \* windows that are open
    server,      \* windows whose this.server is set
    attempt,     \* where doStart() waits
    listening,   \* how many sockets listen in a window
    task,        \* where every task of a window waits, and the setting it read
    changes,     \* history: changes of the setting by hand
    invited,     \* history: windows in which the user wants the server
    crossed      \* history: tasks overlapped that the code does not keep apart

memory == <<epoch, seen, flag>>
sockets == <<server, attempt, listening>>
vars == <<setting, view, memory, open, sockets, task, changes, invited, crossed>>

Tasks == {"command", "auto"} \cup Slots
IdleTask == [at |-> "idle", enabled |-> FALSE]

Init ==
    /\ setting \in BOOLEAN
    /\ view = [w \in Windows |-> FALSE]
    /\ epoch = 0 /\ seen = None
    /\ flag = [w \in Windows |-> None]
    /\ open = {} /\ server = {}
    /\ attempt = [w \in Windows |-> "none"]
    /\ listening = [w \in Windows |-> 0]
    /\ task = [w \in Windows |-> [t \in Tasks |-> IdleTask]]
    /\ changes = 0 /\ invited = {} /\ crossed = FALSE

At(w, t, place) == w \in open /\ task[w][t].at = place
Goes(w, t, place) == task' = [task EXCEPT ![w][t].at = place]
Ends(w, t) == task' = [task EXCEPT ![w][t] = IdleTask]

\* Tasks that overlap and that the code does not keep apart: a start, and a
\* setting seen off that is being dealt with; the setting changes before its
\* last change has been dealt with.
Handling == \E w \in open : view[w] # setting \/ \E t \in Slots \cup {"auto"} : task[w][t].at # "idle"
StartUnderWay == \E w \in open : attempt[w] # "none" \/ task[w]["command"].at = "turnedOn"
OffUnderWay ==
    \E w \in open :
      \/ view[w] /\ ~setting
      \/ \E t \in Tasks : task[w][t].at \in {"bumped", "noted"} /\ ~task[w][t].enabled
Overlap == StartUnderWay /\ OffUnderWay
Observes == crossed' = (crossed \/ Overlap' \/ (setting' # setting /\ Handling))
ObservesStart == crossed' = (crossed \/ Overlap' \/ OffUnderWay)

(***************************************************************************)
(* doStart and start: the callers of start() share one attempt             *)
(***************************************************************************)
\* Mutant: every caller makes an attempt of its own.
MayBeginUnshared(w) == w \notin server /\ view[w]

\* doStart goes on only if no server runs here and the setting permits one.
MayBegin(w) == attempt[w] = "none" /\ w \notin server /\ view[w]

\* start() as a step of a task that then waits for the attempt.
CallsStart(w, t) ==
    IF MayBegin(w)
    THEN /\ attempt' = [attempt EXCEPT ![w] = "asked"]
         /\ Goes(w, t, "starting") /\ UNCHANGED flag
    ELSE IF attempt[w] # "none"
    THEN Goes(w, t, "starting") /\ UNCHANGED <<attempt, flag>>
    ELSE \* this.server is set, or the setting does not permit a start
         /\ flag' = IF t = "command" /\ w \in server THEN [flag EXCEPT ![w] = epoch] ELSE flag
         /\ Ends(w, t) /\ UNCHANGED attempt

AttemptListens(w) ==
    /\ attempt[w] = "asked"
    /\ attempt' = [attempt EXCEPT ![w] = "listening"]
    /\ listening' = [listening EXCEPT ![w] = @ + 1]
    /\ UNCHANGED <<setting, view, memory, open, server, task, changes, invited>>
    /\ Observes

\* Everyone who waits for the attempt goes on; startHere remembers the start.
Waiting(w) == {t \in Tasks : task[w][t].at = "starting"}
Released(w) == [t \in Tasks |-> IF t \in Waiting(w) THEN IdleTask ELSE task[w][t]]

AttemptSucceeds(w) ==
    /\ attempt[w] = "listening"
    /\ attempt' = [attempt EXCEPT ![w] = "none"]
    /\ server' = server \cup {w}
    /\ task' = [task EXCEPT ![w] = Released(w)]
    /\ flag' = IF "command" \in Waiting(w) THEN [flag EXCEPT ![w] = epoch] ELSE flag
    /\ UNCHANGED <<setting, view, epoch, seen, open, listening, changes, invited>>
    /\ Observes

\* Mutant: a socket is closed also when none was opened.
ClosedAlways(w) == 1

\* The process start time, the socket or the discovery file is not to be had;
\* a socket that listens is closed.
Closed(w) == IF attempt[w] = "listening" THEN 1 ELSE 0

AttemptFails(w) ==
    /\ attempt[w] # "none"
    /\ attempt' = [attempt EXCEPT ![w] = "none"]
    /\ listening' = [listening EXCEPT ![w] = @ - Closed(w)]
    /\ task' = [task EXCEPT ![w] = Released(w)]
    /\ UNCHANGED <<setting, view, memory, open, server, changes, invited>>
    /\ Observes

(***************************************************************************)
(* stopHere and stop                                                       *)
(***************************************************************************)
\* Mutant: the flag outlives the stop.
ForgetNot(w) == flag' = flag

Forget(w) == flag' = [flag EXCEPT ![w] = None]

\* stopHere clears the flag and then stops.
StopsHere(w, t) == Forget(w) /\ Goes(w, t, "stopping")

MayStop(w) == attempt[w] = "none"

\* stop waits for the attempt under way and takes this.server.
StopTakesServer(w, t) ==
    /\ At(w, t, "stopping") /\ MayStop(w)
    /\ server' = server \ {w}
    /\ IF w \in server THEN Goes(w, t, "closing") ELSE Ends(w, t)
    /\ UNCHANGED <<setting, view, memory, open, attempt, listening, changes, invited>>
    /\ Observes

StopCloses(w, t) ==
    /\ At(w, t, "closing")
    /\ listening' = [listening EXCEPT ![w] = @ - 1]
    /\ Ends(w, t)
    /\ UNCHANGED <<setting, view, memory, open, server, attempt, changes, invited>>
    /\ Observes

(***************************************************************************)
(* reconcilePermission: a setting seen off for the first time advances the *)
(* epoch, which ends every workspace's memory; then what was seen is noted *)
(***************************************************************************)
\* Mutant: the setting counts as turned off only when it was never seen before.
SeenOffOnce(enabled) == ~enabled /\ seen = None

SeenOff(enabled) == ~enabled /\ seen # FALSE

\* The first part runs at once, in the step that calls it.
Reconciles(w, t, enabled) ==
    /\ IF SeenOff(enabled)
       THEN /\ epoch < MaxEpoch /\ epoch' = epoch + 1
            /\ invited' = {}
            /\ UNCHANGED seen
       ELSE seen' = enabled /\ UNCHANGED <<epoch, invited>>
    /\ task' = [task EXCEPT ![w][t] =
                  [at |-> IF SeenOff(enabled) THEN "bumped" ELSE "noted", enabled |-> enabled]]

NotesSeen(w, t) ==
    /\ At(w, t, "bumped")
    /\ seen' = task[w][t].enabled
    /\ Goes(w, t, "noted")
    /\ UNCHANGED <<setting, view, epoch, flag, open, sockets, changes, invited>>
    /\ Observes

(***************************************************************************)
(* handleSettingChange                                                     *)
(***************************************************************************)
\* A window learns of the setting's new value: its handler starts.
SettingArrives(w) ==
    /\ w \in open /\ view[w] # setting
    /\ view' = [view EXCEPT ![w] = setting]
    /\ \E s \in Slots : task[w][s].at = "idle" /\ Reconciles(w, s, setting)
    /\ UNCHANGED <<setting, flag, open, sockets, changes>>
    /\ Observes

HandlerStops(w, s) ==
    /\ At(w, s, "noted") /\ s \in Slots
    /\ ~view[w] /\ (w \in server \/ flag[w] # None)
    /\ StopsHere(w, s)
    /\ UNCHANGED <<setting, view, epoch, seen, open, sockets, changes, invited>>
    /\ Observes

HandlerEnds(w, s) ==
    /\ At(w, s, "noted") /\ s \in Slots
    /\ view[w] \/ (w \notin server /\ flag[w] = None)
    /\ Ends(w, s)
    /\ UNCHANGED <<setting, view, memory, open, sockets, changes, invited>>
    /\ Observes

(***************************************************************************)
(* autostart, when a window opens                                          *)
(***************************************************************************)
Opens(w) ==
    /\ w \notin open
    /\ open' = open \cup {w}
    /\ view' = [view EXCEPT ![w] = setting]
    /\ Reconciles(w, "auto", setting)
    /\ UNCHANGED <<setting, flag, sockets, changes>>
    /\ Observes

Remembers(w) == flag[w] = epoch

AutostartDecides(w) ==
    /\ At(w, "auto", "noted")
    /\ \/ view[w] /\ Remembers(w) /\ CallsStart(w, "auto")
       \/ ~(view[w] /\ Remembers(w)) /\ Ends(w, "auto") /\ UNCHANGED <<flag, attempt>>
    /\ UNCHANGED <<setting, view, epoch, seen, open, server, listening, changes, invited>>
    /\ Observes

\* The window closes or its process dies: only what is stored survives.
Closes(w) ==
    /\ w \in open
    /\ open' = open \ {w} /\ server' = server \ {w}
    /\ attempt' = [attempt EXCEPT ![w] = "none"]
    /\ listening' = [listening EXCEPT ![w] = 0]
    /\ task' = [task EXCEPT ![w] = [t \in Tasks |-> IdleTask]]
    /\ view' = [view EXCEPT ![w] = FALSE]
    /\ UNCHANGED <<setting, memory, changes, invited>>
    /\ Observes

(***************************************************************************)
(* What the user does: the start/stop command, the setting                 *)
(***************************************************************************)
Toggles(w) ==
    /\ At(w, "command", "idle")
    /\ IF w \in server
       THEN StopsHere(w, "command") /\ invited' = invited \ {w}
       ELSE Goes(w, "command", "dialog") /\ UNCHANGED <<flag, invited>>
    /\ UNCHANGED <<setting, view, epoch, seen, open, sockets, changes>>
    /\ Observes

Declines(w) ==
    /\ At(w, "command", "dialog")
    /\ Ends(w, "command")
    /\ UNCHANGED <<setting, view, memory, open, sockets, changes, invited>>
    /\ Observes

\* "Start Here": the setting was on.
Confirms(w) ==
    /\ At(w, "command", "dialog") /\ view[w]
    /\ CallsStart(w, "command")
    /\ invited' = invited \cup {w}
    /\ UNCHANGED <<setting, view, epoch, seen, open, server, listening, changes>>
    /\ ObservesStart

\* "Turn On and Start": the setting is written first; its handlers follow.
TurnsOnAndStarts(w) ==
    /\ At(w, "command", "dialog") /\ ~view[w]
    /\ setting' = TRUE
    /\ Goes(w, "command", "turnedOn")
    /\ invited' = invited \cup {w}
    /\ UNCHANGED <<view, memory, open, sockets, changes>>
    /\ Observes

StartsAfterTurnOn(w) ==
    /\ At(w, "command", "turnedOn") /\ view[w] = setting
    /\ CallsStart(w, "command")
    /\ UNCHANGED <<setting, view, epoch, seen, open, server, listening, changes, invited>>
    /\ ObservesStart

ChangesSetting ==
    /\ changes < MaxChanges /\ changes' = changes + 1
    /\ setting' = ~setting
    /\ UNCHANGED <<view, memory, open, sockets, task, invited>>
    /\ Observes

TaskStep(w, t) ==
    \/ StopTakesServer(w, t) \/ StopCloses(w, t) \/ NotesSeen(w, t)
    \/ HandlerStops(w, t) \/ HandlerEnds(w, t)

Next ==
    \/ \E w \in Windows :
         \/ AttemptListens(w) \/ AttemptSucceeds(w) \/ AttemptFails(w)
         \/ SettingArrives(w) \/ Opens(w) \/ AutostartDecides(w) \/ Closes(w)
         \/ Toggles(w) \/ Declines(w) \/ Confirms(w) \/ TurnsOnAndStarts(w) \/ StartsAfterTurnOn(w)
         \/ \E t \in Tasks : TaskStep(w, t)
    \/ ChangesSetting

Spec == Init /\ [][Next]_vars

-----------------------------------------------------------------------------
Places == {"idle", "dialog", "turnedOn", "starting", "stopping", "closing", "bumped", "noted"}
MaybeEpoch == 0..MaxEpoch \cup {None}

TypeOK ==
    /\ setting \in BOOLEAN /\ view \in [Windows -> BOOLEAN]
    /\ epoch \in 0..MaxEpoch /\ seen \in BOOLEAN \cup {None}
    /\ flag \in [Windows -> MaybeEpoch]
    /\ open \subseteq Windows /\ server \subseteq open
    /\ attempt \in [Windows -> {"none", "asked", "listening"}]
    /\ listening \in [Windows -> Nat]
    /\ task \in [Windows -> [Tasks -> [at : Places, enabled : BOOLEAN]]]
    /\ changes \in 0..MaxChanges /\ invited \subseteq Windows /\ crossed \in BOOLEAN

(***************************************************************************)
(* Every socket that listens is the window's server, the attempt's or one  *)
(* a stop is closing: whatever overlaps, no server is left that nobody     *)
(* could stop ("Two callers at once get the same attempt, not two          *)
(* servers", start).                                                       *)
(***************************************************************************)
Closing(w) == {t \in Tasks : task[w][t].at = "closing"}
NoServerLeaked ==
    \A w \in Windows :
      listening[w] = Cardinality({w} \cap server) + Cardinality(Closing(w))
                       + (IF attempt[w] = "listening" THEN 1 ELSE 0)

Busy(w) == {t \in Tasks : task[w][t].at \notin {"idle", "dialog"}}
Quiet == ~Handling /\ \A w \in open : Busy(w) = {} /\ attempt[w] = "none"

(***************************************************************************)
(* Once every window has dealt with it, a setting that is off means no     *)
(* server anywhere and no workspace, open or closed, whose memory would    *)
(* start one when the setting is turned on again (handleSettingChange,     *)
(* reconcilePermission, autostart).                                        *)
(***************************************************************************)
SettingOffEnds ==
    Quiet /\ ~setting /\ open # {} =>
      server = {} /\ \A w \in Windows : flag[w] # epoch

(***************************************************************************)
(* It holds unless the setting changes while its last change is being      *)
(* dealt with, or a start is under way while a window deals with a setting *)
(* it saw off. Tasks of a window may overlap otherwise.                    *)
(***************************************************************************)
SettingOffEndsAlone == ~crossed => SettingOffEnds

(***************************************************************************)
(* A server runs only where the user's last word was to start it: a stop   *)
(* persists over restarts and crashes, and what was started under a        *)
(* permission that has ended does not come back (stopHere, autostart).     *)
(***************************************************************************)
RunsByInvitation == Quiet /\ ~crossed => server \subseteq invited
=============================================================================
