------------------------ MODULE AiMcpControllerProofs ------------------------
(***************************************************************************)
(* Proofs about AiMcpController: for any windows, handlers and changes of  *)
(* the setting, every socket that listens belongs to the window's server,  *)
(* to the attempt under way or to a stop that is closing it (IInv); and    *)
(* while nothing was crossed, a setting that is off ends every server and  *)
(* a server runs only where the user wants it (WordInv).                   *)
(***************************************************************************)
EXTENDS AiMcpController, FiniteSetTheorems, TLAPS

TaskState == [at : Places, enabled : BOOLEAN]

\* A closed window has no task and no attempt.
ShutIsIdle ==
    \A w \in Windows \ open : attempt[w] = "none" /\ \A t \in Tasks : task[w][t].at = "idle"

\* An attempt is made only where no server runs.
NoneBesidesAttempt == \A w \in Windows : attempt[w] # "none" => w \notin server

Typed == TypeOK /\ ShutIsIdle /\ NoneBesidesAttempt
IInv == Typed /\ NoServerLeaked

-----------------------------------------------------------------------------
LEMMA ClosingIsFinite ==
  ASSUME NEW w \in Windows
  PROVE  IsFiniteSet(Closing(w)) /\ Cardinality(Closing(w)) \in Nat
<1>1. IsFiniteSet(Tasks)
  <2>1. IsFiniteSet({"command"}) /\ IsFiniteSet({"auto"})
    BY FS_Singleton
  <2>2. Tasks = ({"command"} \cup {"auto"}) \cup Slots
    BY DEF Tasks
  <2> QED
    BY <2>1, <2>2, ControllerAssumption, FS_Union
<1>2. Closing(w) \in SUBSET Tasks
  BY DEF Closing
<1> QED
  BY <1>1, <1>2, FS_Subset, FS_CardinalityType

LEMMA OneOrNone == \A S, x : Cardinality({x} \cap S) = IF x \in S THEN 1 ELSE 0
<1>1. ASSUME NEW S, NEW x, x \in S PROVE Cardinality({x} \cap S) = 1
  <2>1. {x} \cap S = {x}
    BY <1>1
  <2> QED
    BY <2>1, FS_Singleton
<1>2. ASSUME NEW S, NEW x, x \notin S PROVE Cardinality({x} \cap S) = 0
  <2>1. {x} \cap S = {}
    BY <1>2
  <2> QED
    BY <2>1, FS_EmptySet
<1> QED
  BY <1>1, <1>2

\* NoServerLeaked, window by window and with the cardinality of the server spelled out.
Kept(w) ==
    listening[w] = (IF w \in server THEN 1 ELSE 0) + Cardinality(Closing(w))
                     + (IF attempt[w] = "listening" THEN 1 ELSE 0)

LEMMA LeakedByWindow == NoServerLeaked <=> \A w \in Windows : Kept(w)
  BY OneOrNone DEF NoServerLeaked, Kept

LEMMA LeakedByWindowNext == NoServerLeaked' <=> \A w \in Windows : Kept(w)'
  BY OneOrNone DEF NoServerLeaked, Kept

\* What a step leaves of a window's sockets.
LEMMA Neutral ==
  ASSUME NEW v \in Windows, Kept(v), listening'[v] = listening[v], v \in server' <=> v \in server,
         attempt'[v] = "listening" <=> attempt[v] = "listening",
         \A t \in Tasks : task'[v][t].at = "closing" <=> task[v][t].at = "closing"
  PROVE  Kept(v)'
<1>1. Closing(v)' = Closing(v)
  BY DEF Closing
<1> QED
  BY <1>1 DEF Kept

\* A step of one task.
LEMMA Going ==
  ASSUME Typed, NEW w \in Windows, NEW t \in Tasks, NEW place \in Places, Goes(w, t, place)
  PROVE  \E state \in TaskState : state.at = place /\ task' = [task EXCEPT ![w][t] = state]
<1> DEFINE state == [task[w][t] EXCEPT !.at = place]
<1>1. state \in TaskState /\ state.at = place /\ task' = [task EXCEPT ![w][t] = state]
  BY DEF Typed, TypeOK, TaskState, Goes
<1> QED
  BY <1>1

LEMMA Ending ==
  ASSUME Typed, NEW w \in Windows, NEW t \in Tasks, Ends(w, t)
  PROVE  IdleTask \in TaskState /\ IdleTask.at = "idle" /\ task' = [task EXCEPT ![w][t] = IdleTask]
  BY DEF Ends, IdleTask, TaskState, Places

LEMMA ObservesType == Observes \/ ObservesStart => crossed' \in BOOLEAN
  BY DEF Observes, ObservesStart

\* A step of one task of an open window that opens and closes no socket.
LEMMA QuietTask ==
  ASSUME IInv, NEW w \in open, NEW t \in Tasks, NEW state \in TaskState, task' = [task EXCEPT ![w][t] = state],
         state.at # "closing", task[w][t].at # "closing",
         UNCHANGED <<open, server, listening>>,
         UNCHANGED attempt \/ (attempt[w] = "none" /\ w \notin server /\ attempt' = [attempt EXCEPT ![w] = "asked"]),
         setting' \in BOOLEAN, view' \in [Windows -> BOOLEAN], epoch' \in 0..MaxEpoch, seen' \in BOOLEAN \cup {None},
         flag' \in [Windows -> MaybeEpoch], changes' \in 0..MaxChanges, invited' \subseteq Windows, crossed' \in BOOLEAN
  PROVE  IInv'
<1>0. w \in Windows /\ Typed
  BY DEF IInv, Typed, TypeOK
<1>1. /\ task' \in [Windows -> [Tasks -> TaskState]] /\ task'[w][t] = state
      /\ \A v \in Windows, u \in Tasks : v # w \/ u # t => task'[v][u] = task[v][u]
  BY <1>0 DEF Typed, TypeOK, TaskState
<1>2. /\ attempt' \in [Windows -> {"none", "asked", "listening"}]
      /\ \A v \in Windows : attempt'[v] = "listening" <=> attempt[v] = "listening"
      /\ \A v \in Windows : attempt'[v] # attempt[v] => v = w /\ w \notin server
  BY <1>0 DEF Typed, TypeOK
<1>3. TypeOK'
  BY <1>0, <1>1, <1>2 DEF Typed, TypeOK, TaskState
<1>4. ShutIsIdle'
  BY <1>0, <1>1, <1>2 DEF Typed, ShutIsIdle
<1>5. NoneBesidesAttempt'
  BY <1>0, <1>2 DEF Typed, NoneBesidesAttempt
<1>6. ASSUME NEW v \in Windows PROVE Kept(v)'
  BY <1>1, <1>2, <1>6, LeakedByWindow, Neutral DEF IInv
<1> QED
  BY <1>3, <1>4, <1>5, <1>6, LeakedByWindowNext DEF IInv, Typed

-----------------------------------------------------------------------------
LEMMA InvInit == ASSUME Init PROVE IInv
<1> USE DEF Init
<1>0. IdleTask \in TaskState /\ 0 \in 0..MaxEpoch /\ 0 \in 0..MaxChanges
  BY ControllerAssumption DEF IdleTask, TaskState, Places
<1>1. TypeOK
  BY <1>0 DEF TypeOK, TaskState, MaybeEpoch
<1>2. ShutIsIdle /\ NoneBesidesAttempt
  BY DEF ShutIsIdle, NoneBesidesAttempt, IdleTask
<1>3. ASSUME NEW w \in Windows PROVE Kept(w)
  <2>1. Closing(w) = {}
    BY DEF Closing, IdleTask
  <2> QED
    BY <2>1, FS_EmptySet DEF Kept
<1> QED
  BY <1>1, <1>2, <1>3, LeakedByWindow DEF IInv, Typed

LEMMA Starting ==
  ASSUME IInv, NEW w \in open, NEW t \in Tasks, CallsStart(w, t), task[w][t].at # "closing",
         UNCHANGED <<setting, view, epoch, seen, open, server, listening, changes>>,
         invited' \subseteq Windows, crossed' \in BOOLEAN
  PROVE  IInv'
<1>0. w \in Windows /\ Typed /\ epoch \in MaybeEpoch
  BY DEF IInv, Typed, TypeOK, MaybeEpoch
<1>1. CASE MayBegin(w)
  <2>1. PICK state \in TaskState : state.at = "starting" /\ task' = [task EXCEPT ![w][t] = state]
    BY <1>0, <1>1, Going DEF CallsStart, Places
  <2>2. attempt[w] = "none" /\ w \notin server /\ attempt' = [attempt EXCEPT ![w] = "asked"] /\ flag' = flag
    BY <1>1 DEF CallsStart, MayBegin
  <2> QED
    BY <1>0, <2>1, <2>2, QuietTask DEF IInv, Typed, TypeOK
<1>2. CASE ~MayBegin(w) /\ attempt[w] # "none"
  <2>1. PICK state \in TaskState : state.at = "starting" /\ task' = [task EXCEPT ![w][t] = state]
    BY <1>0, <1>2, Going DEF CallsStart, Places
  <2> QED
    BY <1>0, <1>2, <2>1, QuietTask DEF CallsStart, IInv, Typed, TypeOK
<1>3. CASE ~MayBegin(w) /\ attempt[w] = "none"
  <2>1. /\ IdleTask \in TaskState /\ IdleTask.at = "idle" /\ task' = [task EXCEPT ![w][t] = IdleTask]
        /\ UNCHANGED attempt
    BY <1>0, <1>3, Ending DEF CallsStart
  <2>2. flag' \in [Windows -> MaybeEpoch]
    BY <1>0, <1>3 DEF CallsStart, IInv, Typed, TypeOK
  <2> QED
    BY <1>0, <2>1, <2>2, QuietTask DEF IInv, Typed, TypeOK
<1> QED
  BY <1>1, <1>2, <1>3

\* The steps of a task that touch no socket.
LEMMA QuietSteps ==
  ASSUME IInv, NEW w \in Windows, NEW t \in Tasks,
         NotesSeen(w, t) \/ HandlerStops(w, t) \/ HandlerEnds(w, t)
  PROVE  IInv'
<1> USE ObservesType DEF At, memory, sockets
<1>0. Typed
  BY DEF IInv
<1>1. CASE NotesSeen(w, t)
  <2>1. PICK state \in TaskState : state.at = "noted" /\ task' = [task EXCEPT ![w][t] = state]
    BY <1>0, <1>1, Going DEF NotesSeen, Places
  <2>2. seen' \in BOOLEAN
    BY <1>0, <1>1 DEF NotesSeen, Typed, TypeOK
  <2> QED
    BY <1>1, <2>1, <2>2, QuietTask DEF NotesSeen, IInv, Typed, TypeOK
<1>2. CASE HandlerStops(w, t)
  <2>1. PICK state \in TaskState : state.at = "stopping" /\ task' = [task EXCEPT ![w][t] = state]
    BY <1>0, <1>2, Going DEF HandlerStops, StopsHere, Places
  <2>2. flag' \in [Windows -> MaybeEpoch]
    BY <1>0, <1>2 DEF HandlerStops, StopsHere, Forget, Typed, TypeOK, MaybeEpoch
  <2> QED
    BY <1>2, <2>1, <2>2, QuietTask DEF HandlerStops, IInv, Typed, TypeOK
<1>3. CASE HandlerEnds(w, t)
  <2>1. IdleTask \in TaskState /\ IdleTask.at = "idle" /\ task' = [task EXCEPT ![w][t] = IdleTask]
    BY <1>0, <1>3, Ending DEF HandlerEnds
  <2> QED
    BY <1>3, <2>1, QuietTask DEF HandlerEnds, IInv, Typed, TypeOK
<1> QED
  BY <1>1, <1>2, <1>3

\* What the user does with the command, and the setting.
LEMMA UserSteps ==
  ASSUME IInv, NEW w \in Windows, Toggles(w) \/ Declines(w) \/ TurnsOnAndStarts(w)
  PROVE  IInv'
<1> USE ObservesType DEF At, memory, sockets
<1>0. Typed /\ "command" \in Tasks
  BY DEF IInv, Tasks
<1>1. CASE Toggles(w)
  <2>1. PICK place \in {"stopping", "dialog"} : Goes(w, "command", place)
    BY <1>1 DEF Toggles, StopsHere
  <2>2. PICK state \in TaskState : state.at = place /\ task' = [task EXCEPT ![w]["command"] = state]
    BY <1>0, <2>1, Going DEF Places
  <2>3. flag' \in [Windows -> MaybeEpoch] /\ invited' \subseteq Windows
    BY <1>0, <1>1 DEF Toggles, StopsHere, Forget, Typed, TypeOK, MaybeEpoch
  <2> QED
    BY <1>0, <1>1, <2>2, <2>3, QuietTask DEF Toggles, IInv, Typed, TypeOK
<1>2. CASE Declines(w)
  <2>1. IdleTask \in TaskState /\ IdleTask.at = "idle" /\ task' = [task EXCEPT ![w]["command"] = IdleTask]
    BY <1>0, <1>2, Ending DEF Declines
  <2> QED
    BY <1>0, <1>2, <2>1, QuietTask DEF Declines, IInv, Typed, TypeOK
<1>3. CASE TurnsOnAndStarts(w)
  <2>1. PICK state \in TaskState : state.at = "turnedOn" /\ task' = [task EXCEPT ![w]["command"] = state]
    BY <1>0, <1>3, Going DEF TurnsOnAndStarts, Places
  <2> QED
    BY <1>0, <1>3, <2>1, QuietTask DEF TurnsOnAndStarts, IInv, Typed, TypeOK
<1> QED
  BY <1>1, <1>2, <1>3

LEMMA StartSteps ==
  ASSUME IInv, NEW w \in Windows, Confirms(w) \/ StartsAfterTurnOn(w) \/ AutostartDecides(w)
  PROVE  IInv'
<1> USE ObservesType DEF At, memory, sockets
<1>0. Typed /\ {"command", "auto"} \subseteq Tasks
  BY DEF IInv, Tasks
<1>1. CASE Confirms(w)
  BY <1>0, <1>1, Starting DEF Confirms, Typed, TypeOK
<1>2. CASE StartsAfterTurnOn(w)
  BY <1>0, <1>2, Starting DEF StartsAfterTurnOn, Typed, TypeOK
<1>3. CASE AutostartDecides(w) /\ CallsStart(w, "auto")
  BY <1>0, <1>3, Starting DEF AutostartDecides, Typed, TypeOK
<1>4. CASE AutostartDecides(w) /\ ~(view[w] /\ Remembers(w)) /\ Ends(w, "auto") /\ UNCHANGED <<flag, attempt>>
  <2>1. IdleTask \in TaskState /\ IdleTask.at = "idle" /\ task' = [task EXCEPT ![w]["auto"] = IdleTask]
    BY <1>0, <1>4, Ending
  <2> QED
    BY <1>0, <1>4, <2>1, QuietTask DEF AutostartDecides, IInv, Typed, TypeOK
<1> QED
  BY <1>1, <1>2, <1>3, <1>4 DEF AutostartDecides

\* A setting that arrives, at its handler or at a window that opens.
LEMMA Reconciling ==
  ASSUME IInv, NEW w \in Windows, NEW t \in Tasks, NEW enabled \in BOOLEAN, Reconciles(w, t, enabled)
  PROVE  /\ \E state \in TaskState : state.at \in {"bumped", "noted"} /\ task' = [task EXCEPT ![w][t] = state]
         /\ epoch' \in 0..MaxEpoch /\ seen' \in BOOLEAN \cup {None} /\ invited' \subseteq Windows
<1> DEFINE state == [at |-> IF SeenOff(enabled) THEN "bumped" ELSE "noted", enabled |-> enabled]
<1>1. state \in TaskState /\ state.at \in {"bumped", "noted"}
  BY DEF TaskState, Places
<1>2. task' = [task EXCEPT ![w][t] = state]
  BY DEF Reconciles
<1>3. epoch' \in 0..MaxEpoch /\ seen' \in BOOLEAN \cup {None} /\ invited' \subseteq Windows
  BY ControllerAssumption DEF IInv, Typed, TypeOK, Reconciles
<1> HIDE DEF state
<1> QED
  BY <1>1, <1>2, <1>3

LEMMA Arrival == ASSUME IInv, NEW w \in Windows, SettingArrives(w) PROVE IInv'
<1> USE ObservesType DEF memory, sockets
<1>1. PICK s \in Slots : task[w][s].at = "idle" /\ Reconciles(w, s, setting)
  BY DEF SettingArrives
<1>2. s \in Tasks /\ setting \in BOOLEAN
  BY DEF Tasks, IInv, Typed, TypeOK
<1>3. PICK state \in TaskState : state.at \in {"bumped", "noted"} /\ task' = [task EXCEPT ![w][s] = state]
  BY <1>1, <1>2, Reconciling
<1>4. epoch' \in 0..MaxEpoch /\ seen' \in BOOLEAN \cup {None} /\ invited' \subseteq Windows
  BY <1>1, <1>2, Reconciling
<1>5. view' \in [Windows -> BOOLEAN]
  BY <1>2 DEF SettingArrives, IInv, Typed, TypeOK
<1> QED
  BY <1>1, <1>2, <1>3, <1>4, <1>5, QuietTask DEF SettingArrives, IInv, Typed, TypeOK

LEMMA Opening == ASSUME IInv, NEW w \in Windows, Opens(w) PROVE IInv'
<1> USE ObservesType DEF memory, sockets
<1>1. "auto" \in Tasks /\ setting \in BOOLEAN /\ Typed
  BY DEF Tasks, IInv, Typed, TypeOK
<1>2. PICK state \in TaskState : state.at \in {"bumped", "noted"} /\ task' = [task EXCEPT ![w]["auto"] = state]
  BY <1>1, Reconciling DEF Opens
<1>3. epoch' \in 0..MaxEpoch /\ seen' \in BOOLEAN \cup {None} /\ invited' \subseteq Windows
  BY <1>1, Reconciling DEF Opens
<1>4. /\ task' \in [Windows -> [Tasks -> TaskState]] /\ task'[w]["auto"] = state
      /\ \A v \in Windows, u \in Tasks : v # w \/ u # "auto" => task'[v][u] = task[v][u]
  BY <1>1, <1>2 DEF Typed, TypeOK, TaskState
<1>5. w \notin open /\ open' = open \cup {w} /\ task[w]["auto"].at = "idle"
  BY <1>1 DEF Opens, Typed, ShutIsIdle
<1>6. TypeOK'
  BY <1>1, <1>3, <1>4, <1>5 DEF Opens, Typed, TypeOK, TaskState
<1>7. ShutIsIdle' /\ NoneBesidesAttempt'
  BY <1>1, <1>4, <1>5 DEF Opens, Typed, ShutIsIdle, NoneBesidesAttempt
<1>8. ASSUME NEW v \in Windows PROVE Kept(v)'
  <2>1. UNCHANGED <<listening, server, attempt>>
    BY DEF Opens
  <2>2. \A t \in Tasks : task'[v][t].at = "closing" <=> task[v][t].at = "closing"
    BY <1>2, <1>4, <1>5
  <2> QED
    BY <2>1, <2>2, LeakedByWindow, Neutral DEF IInv
<1> QED
  BY <1>6, <1>7, <1>8, LeakedByWindowNext DEF IInv, Typed

-----------------------------------------------------------------------------
\* Sockets that open and close.
LEMMA Listening == ASSUME IInv, NEW w \in Windows, AttemptListens(w) PROVE IInv'
<1> USE ObservesType DEF memory
<1>1. /\ attempt[w] = "asked" /\ attempt' = [attempt EXCEPT ![w] = "listening"]
      /\ listening' = [listening EXCEPT ![w] = @ + 1]
      /\ UNCHANGED <<setting, view, epoch, seen, flag, open, server, task, changes, invited>> /\ crossed' \in BOOLEAN
  BY DEF AttemptListens
<1>2. Typed'
  BY <1>1 DEF IInv, Typed, TypeOK, ShutIsIdle, NoneBesidesAttempt
<1>3. ASSUME NEW v \in Windows PROVE Kept(v)'
  <2>1. Closing(v)' = Closing(v) /\ Cardinality(Closing(v)) \in Nat
    BY <1>1, ClosingIsFinite DEF Closing
  <2>2. Kept(v)
    BY LeakedByWindow DEF IInv
  <2> QED
    BY <1>1, <2>1, <2>2 DEF Kept, IInv, Typed, TypeOK
<1> QED
  BY <1>2, <1>3, LeakedByWindowNext DEF IInv

\* Everyone who waited for an attempt is released; nobody else moves.
LEMMA Releasing ==
  ASSUME Typed, NEW w \in Windows, task' = [task EXCEPT ![w] = Released(w)]
  PROVE  /\ task' \in [Windows -> [Tasks -> TaskState]]
         /\ \A v \in Windows, t \in Tasks : task'[v][t].at \in {task[v][t].at, "idle"}
         /\ \A v \in Windows, t \in Tasks : task'[v][t].at = "closing" <=> task[v][t].at = "closing"
<1>1. Released(w) \in [Tasks -> TaskState]
  BY DEF Released, IdleTask, Typed, TypeOK, TaskState, Places
<1>2. \A t \in Tasks : Released(w)[t] = task[w][t] \/ (Released(w)[t] = IdleTask /\ task[w][t].at = "starting")
  BY DEF Released, Waiting
<1>3. task \in [Windows -> [Tasks -> TaskState]] /\ IdleTask.at = "idle"
  BY DEF Typed, TypeOK, TaskState, IdleTask
<1>4. \A v \in Windows, t \in Tasks : task'[v][t] = task[v][t] \/ (task'[v][t] = IdleTask /\ task[v][t].at = "starting")
  BY <1>2, <1>3
<1> QED
  BY <1>1, <1>3, <1>4

LEMMA Success == ASSUME IInv, NEW w \in Windows, AttemptSucceeds(w) PROVE IInv'
<1> USE ObservesType
<1>0. Typed
  BY DEF IInv
<1>1. /\ attempt[w] = "listening" /\ attempt' = [attempt EXCEPT ![w] = "none"]
      /\ server' = server \cup {w} /\ task' = [task EXCEPT ![w] = Released(w)]
      /\ UNCHANGED <<setting, view, epoch, seen, open, listening, changes, invited>> /\ crossed' \in BOOLEAN
  BY DEF AttemptSucceeds
<1>2. /\ task' \in [Windows -> [Tasks -> TaskState]]
      /\ \A v \in Windows, t \in Tasks : task'[v][t].at \in {task[v][t].at, "idle"}
      /\ \A v \in Windows, t \in Tasks : task'[v][t].at = "closing" <=> task[v][t].at = "closing"
  BY <1>0, <1>1, Releasing
<1>3. flag' \in [Windows -> MaybeEpoch]
  BY <1>0 DEF AttemptSucceeds, Typed, TypeOK, MaybeEpoch
<1>4. w \in open /\ w \notin server
  BY <1>0, <1>1 DEF Typed, ShutIsIdle, NoneBesidesAttempt
<1>5. Typed'
  BY <1>0, <1>1, <1>2, <1>3, <1>4 DEF Typed, TypeOK, ShutIsIdle, NoneBesidesAttempt, TaskState
<1>6. ASSUME NEW v \in Windows PROVE Kept(v)'
  <2>1. Closing(v)' = Closing(v) /\ Cardinality(Closing(v)) \in Nat
    BY <1>2, ClosingIsFinite DEF Closing
  <2>2. Kept(v)
    BY LeakedByWindow DEF IInv
  <2> QED
    BY <1>0, <1>1, <1>4, <2>1, <2>2 DEF Kept, Typed, TypeOK
<1> QED
  BY <1>5, <1>6, LeakedByWindowNext DEF IInv

LEMMA Failure == ASSUME IInv, NEW w \in Windows, AttemptFails(w) PROVE IInv'
<1> USE ObservesType DEF memory
<1>0. Typed
  BY DEF IInv
<1>1. /\ attempt[w] # "none" /\ attempt' = [attempt EXCEPT ![w] = "none"]
      /\ listening' = [listening EXCEPT ![w] = @ - Closed(w)] /\ task' = [task EXCEPT ![w] = Released(w)]
      /\ UNCHANGED <<setting, view, epoch, seen, flag, open, server, changes, invited>> /\ crossed' \in BOOLEAN
  BY DEF AttemptFails
<1>2. /\ task' \in [Windows -> [Tasks -> TaskState]]
      /\ \A v \in Windows, t \in Tasks : task'[v][t].at \in {task[v][t].at, "idle"}
      /\ \A v \in Windows, t \in Tasks : task'[v][t].at = "closing" <=> task[v][t].at = "closing"
  BY <1>0, <1>1, Releasing
<1>3. \A v \in Windows : Kept(v) /\ Cardinality(Closing(v)) \in Nat
  BY LeakedByWindow, ClosingIsFinite DEF IInv
<1>4. listening' \in [Windows -> Nat]
  BY <1>0, <1>1, <1>3 DEF Kept, Closed, Typed, TypeOK
<1>5. Typed'
  BY <1>0, <1>1, <1>2, <1>4 DEF Typed, TypeOK, ShutIsIdle, NoneBesidesAttempt, TaskState
<1>6. ASSUME NEW v \in Windows PROVE Kept(v)'
  <2>1. Closing(v)' = Closing(v)
    BY <1>2 DEF Closing
  <2> QED
    BY <1>0, <1>1, <1>3, <2>1 DEF Kept, Closed, Typed, TypeOK
<1> QED
  BY <1>5, <1>6, LeakedByWindowNext DEF IInv

LEMMA Taking == ASSUME IInv, NEW w \in Windows, NEW t \in Tasks, StopTakesServer(w, t) PROVE IInv'
<1> USE ObservesType DEF memory
<1>0. Typed
  BY DEF IInv
<1>1. /\ w \in open /\ task[w][t].at = "stopping" /\ attempt[w] = "none" /\ server' = server \ {w}
      /\ UNCHANGED <<setting, view, epoch, seen, flag, open, attempt, listening, changes, invited>>
      /\ crossed' \in BOOLEAN
  BY DEF StopTakesServer, At, MayStop
<1>2. CASE w \notin server
  <2>1. IdleTask \in TaskState /\ IdleTask.at = "idle" /\ task' = [task EXCEPT ![w][t] = IdleTask]
    BY <1>0, <1>2, Ending DEF StopTakesServer
  <2>2. server' = server
    BY <1>1, <1>2
  <2> QED
    BY <1>1, <2>1, <2>2, QuietTask DEF IInv, Typed, TypeOK
<1>3. CASE w \in server
  <2>1. PICK state \in TaskState : state.at = "closing" /\ task' = [task EXCEPT ![w][t] = state]
    BY <1>0, <1>3, Going DEF StopTakesServer, Places
  <2>2. /\ task' \in [Windows -> [Tasks -> TaskState]] /\ task'[w][t] = state
        /\ \A v \in Windows, u \in Tasks : v # w \/ u # t => task'[v][u] = task[v][u]
    BY <1>0, <2>1 DEF Typed, TypeOK, TaskState
  <2>3. Typed'
    <3>1. TypeOK'
      BY <1>0, <1>1, <2>2 DEF Typed, TypeOK, TaskState
    <3>2. ShutIsIdle'
      BY <1>0, <1>1, <2>2 DEF Typed, ShutIsIdle
    <3>3. NoneBesidesAttempt'
      BY <1>0, <1>1 DEF Typed, NoneBesidesAttempt
    <3> QED
      BY <3>1, <3>2, <3>3 DEF Typed
  <2>4. ASSUME NEW v \in Windows PROVE Kept(v)'
    <3>1. Kept(v) /\ IsFiniteSet(Closing(v)) /\ Cardinality(Closing(v)) \in Nat
      BY LeakedByWindow, ClosingIsFinite DEF IInv
    <3>2. CASE v # w
      <4>1. Closing(v)' = Closing(v)
        BY <2>2, <3>2 DEF Closing
      <4> QED
        BY <1>0, <1>1, <3>1, <3>2, <4>1 DEF Kept, Typed, TypeOK
    <3>3. CASE v = w
      <4>1. Closing(w)' = Closing(w) \cup {t} /\ t \notin Closing(w)
        BY <1>1, <2>1, <2>2 DEF Closing
      <4>2. Cardinality(Closing(w)') = Cardinality(Closing(w)) + 1
        BY <3>1, <3>3, <4>1, FS_AddElement
      <4> QED
        BY <1>0, <1>1, <1>3, <3>1, <3>3, <4>2 DEF Kept, Typed, TypeOK
    <3> QED
      BY <3>2, <3>3
  <2> QED
    BY <2>3, <2>4, LeakedByWindowNext DEF IInv
<1> QED
  BY <1>2, <1>3

LEMMA Ceasing == ASSUME IInv, NEW w \in Windows, NEW t \in Tasks, StopCloses(w, t) PROVE IInv'
<1> USE ObservesType DEF memory
<1>0. Typed
  BY DEF IInv
<1>1. /\ w \in open /\ task[w][t].at = "closing" /\ listening' = [listening EXCEPT ![w] = @ - 1]
      /\ UNCHANGED <<setting, view, epoch, seen, flag, open, server, attempt, changes, invited>>
      /\ crossed' \in BOOLEAN
  BY DEF StopCloses, At
<1>2. IdleTask \in TaskState /\ IdleTask.at = "idle" /\ task' = [task EXCEPT ![w][t] = IdleTask]
  BY <1>0, Ending DEF StopCloses
<1>3. /\ task' \in [Windows -> [Tasks -> TaskState]] /\ task'[w][t] = IdleTask
      /\ \A v \in Windows, u \in Tasks : v # w \/ u # t => task'[v][u] = task[v][u]
  BY <1>0, <1>2 DEF Typed, TypeOK, TaskState
<1>4. \A v \in Windows : Kept(v) /\ IsFiniteSet(Closing(v)) /\ Cardinality(Closing(v)) \in Nat
  BY LeakedByWindow, ClosingIsFinite DEF IInv
<1>5. Closing(w)' = Closing(w) \ {t} /\ t \in Closing(w)
  BY <1>1, <1>2, <1>3 DEF Closing
<1>6. Cardinality(Closing(w)') = Cardinality(Closing(w)) - 1 /\ Cardinality(Closing(w)) > 0
  BY <1>4, <1>5, FS_RemoveElement, FS_EmptySet
<1>7. listening' \in [Windows -> Nat]
  <2>1. listening[w] \in Nat /\ listening[w] >= 1
    BY <1>0, <1>4, <1>6, SMTT(30) DEF Kept, Typed, TypeOK
  <2> QED
    BY <1>0, <1>1, <2>1 DEF Typed, TypeOK
<1>8. Typed'
  BY <1>0, <1>1, <1>2, <1>3, <1>7 DEF Typed, TypeOK, ShutIsIdle, NoneBesidesAttempt, TaskState
<1>9. ASSUME NEW v \in Windows PROVE Kept(v)'
  <2>1. CASE v # w
    <3>1. Closing(v)' = Closing(v)
      BY <1>3, <2>1 DEF Closing
    <3> QED
      BY <1>0, <1>1, <1>4, <2>1, <3>1 DEF Kept, Typed, TypeOK
  <2>2. CASE v = w
    BY <1>0, <1>1, <1>4, <1>6, <2>2 DEF Kept, Typed, TypeOK
  <2> QED
    BY <2>1, <2>2
<1> QED
  BY <1>8, <1>9, LeakedByWindowNext DEF IInv

LEMMA Shutting == ASSUME IInv, NEW w \in Windows, Closes(w) PROVE IInv'
<1> USE ObservesType DEF memory
<1>0. Typed
  BY DEF IInv
<1>1. /\ open' = open \ {w} /\ server' = server \ {w} /\ attempt' = [attempt EXCEPT ![w] = "none"]
      /\ listening' = [listening EXCEPT ![w] = 0] /\ view' = [view EXCEPT ![w] = FALSE]
      /\ task' = [task EXCEPT ![w] = [t \in Tasks |-> IdleTask]]
      /\ UNCHANGED <<setting, epoch, seen, flag, changes, invited>> /\ crossed' \in BOOLEAN
  BY DEF Closes
<1>2. IdleTask \in TaskState /\ IdleTask.at = "idle"
  BY DEF IdleTask, TaskState, Places
<1>3. /\ task' \in [Windows -> [Tasks -> TaskState]] /\ \A t \in Tasks : task'[w][t] = IdleTask
      /\ \A v \in Windows : v # w => task'[v] = task[v]
  BY <1>0, <1>1, <1>2 DEF Typed, TypeOK, TaskState
<1>4. Typed'
  BY <1>0, <1>1, <1>2, <1>3 DEF Typed, TypeOK, ShutIsIdle, NoneBesidesAttempt, TaskState
<1>5. ASSUME NEW v \in Windows PROVE Kept(v)'
  <2>1. CASE v # w
    <3>1. Closing(v)' = Closing(v) /\ Kept(v)
      BY <1>3, <2>1, LeakedByWindow DEF Closing, IInv
    <3> QED
      BY <1>0, <1>1, <2>1, <3>1 DEF Kept, Typed, TypeOK
  <2>2. CASE v = w
    <3>1. Closing(w)' = {}
      BY <1>2, <1>3 DEF Closing
    <3> QED
      BY <1>0, <1>1, <2>2, <3>1, FS_EmptySet DEF Kept, Typed, TypeOK
  <2> QED
    BY <2>1, <2>2
<1> QED
  BY <1>4, <1>5, LeakedByWindowNext DEF IInv

-----------------------------------------------------------------------------
LEMMA InvNext == ASSUME IInv, [Next]_vars PROVE IInv'
<1>1. CASE ChangesSetting \/ UNCHANGED vars
  <2>1. /\ setting' \in BOOLEAN /\ changes' \in 0..MaxChanges /\ crossed' \in BOOLEAN
        /\ UNCHANGED <<view, epoch, seen, flag, open, server, attempt, listening, task, invited>>
    <3>1. CASE ChangesSetting
      <4>1. changes' \in 0..MaxChanges
        BY <3>1, ControllerAssumption DEF ChangesSetting, IInv, Typed, TypeOK
      <4>2. crossed' \in BOOLEAN
        BY <3>1, ObservesType DEF ChangesSetting
      <4>3. setting' \in BOOLEAN
        BY <3>1, Zenon DEF ChangesSetting, IInv, Typed, TypeOK
      <4> QED
        BY <3>1, <4>1, <4>2, <4>3 DEF ChangesSetting, memory, sockets
    <3>2. CASE UNCHANGED vars
      BY <3>2 DEF vars, memory, sockets, IInv, Typed, TypeOK
    <3> QED
      BY <1>1, <3>1, <3>2
  <2>2. Typed'
    BY <2>1 DEF IInv, Typed, TypeOK, ShutIsIdle, NoneBesidesAttempt
  <2>3. NoServerLeaked'
    BY <2>1 DEF IInv, NoServerLeaked, Closing
  <2> QED
    BY <2>2, <2>3 DEF IInv
<1>2. ASSUME NEW w \in Windows, NEW t \in Tasks, TaskStep(w, t) PROVE IInv'
  BY <1>2, QuietSteps, Taking, Ceasing DEF TaskStep
<1> QED
  BY <1>1, <1>2, StartSteps, UserSteps, Arrival, Opening, Listening, Success, Failure, Shutting DEF Next

\* IInv is inductive, so every state the program reaches satisfies it.
LEMMA Invariance == Spec => []IInv
  BY InvInit, InvNext, PTL DEF Spec

(***************************************************************************)
(* The types, for any windows and handlers.                                *)
(***************************************************************************)
THEOREM ControllerTypes == Spec => []TypeOK
<1>1. IInv => TypeOK
  BY DEF IInv, Typed
<1> QED
  BY Invariance, <1>1, PTL

(***************************************************************************)
(* Whatever starts, stops and changes of the setting overlap, no socket is *)
(* left listening that nobody could stop.                                  *)
(***************************************************************************)
THEOREM EverySocketIsKnown == Spec => []NoServerLeaked
<1>1. IInv => NoServerLeaked
  BY DEF IInv
<1> QED
  BY Invariance, <1>1, PTL

-----------------------------------------------------------------------------
(***************************************************************************)
(* What the user asked for. WordInv relates the setting, what was seen of  *)
(* it, the epoch, the memory of the workspaces and the tasks, for as long  *)
(* as nothing was crossed.                                                 *)
(***************************************************************************)
Handlers == Slots \cup {"auto"}

\* Whatever overlaps: only handlers deal with a setting, and an epoch is
\* advanced for a setting that was off; who waits, waits for an attempt; a
\* flag holds an epoch there has been.
HandlersRead ==
    \A w \in Windows, t \in Tasks :
      /\ task[w][t].at = "bumped" => t \in Handlers /\ ~task[w][t].enabled
      /\ task[w][t].at = "noted" => t \in Handlers
FlagsKnown == \A w \in Windows : flag[w] # None => flag[w] \in 0..epoch
Always == HandlersRead /\ FlagsKnown

\* The rest holds while nothing was crossed. A window that has yet to learn of
\* the setting deals with nothing else, so every handler read what the setting is.
HandledFirst == \A w \in open, t \in Handlers : view[w] # setting => task[w][t].at = "idle"
ReadSetting ==
    \A w \in Windows, t \in Tasks : task[w][t].at \in {"bumped", "noted"} => task[w][t].enabled = setting

\* What was seen: off, once a window knows of it or is about to note it, and then
\* no workspace remembers a start under the permission; on, while a window knows it.
SeenOffOrBumped == seen = FALSE \/ \E w \in Windows, t \in Tasks : task[w][t].at = "bumped"
OffForgets == SeenOffOrBumped => \A w \in Windows : flag[w] # epoch
OffIsSeen ==
    \A w \in open : ~setting /\ ~view[w] => seen = FALSE \/ \E t \in Tasks : task[w][t].at = "bumped"
OnIsSeen == setting /\ (\E w \in open : view[w]) => seen = TRUE

\* Nothing starts but under the permission, and where the user asked for it.
StartsPermitted ==
    \A w \in open :
      /\ attempt[w] # "none" => view[w] /\ setting /\ w \in invited
      /\ task[w]["command"].at = "turnedOn" => setting /\ w \in invited
RemembersInvited == \A w \in Windows : flag[w] = epoch => w \in invited

\* A server that is no longer permitted, or no longer wanted, is about to be stopped.
StopsSoon(w) ==
    \E t \in Tasks : task[w][t].at = "stopping" \/ (t \in Slots /\ task[w][t].at \in {"bumped", "noted"})
OffStops == \A w \in server : ~view[w] => StopsSoon(w)
UnwantedStops ==
    \A w \in server :
      w \in invited \/ ~view[w] \/ ~setting \/ \E t \in Tasks : task[w][t].at = "stopping"

Apart == ~Overlap
Alone ==
    /\ Apart /\ HandledFirst /\ ReadSetting
    /\ OffForgets /\ OffIsSeen /\ OnIsSeen
    /\ StartsPermitted /\ RemembersInvited
    /\ OffStops /\ UnwantedStops

WordInv == Always /\ (~crossed => Alone)

-----------------------------------------------------------------------------
LEMMA WordInit == ASSUME Init PROVE WordInv
<1> USE DEF Init
<1>1. \A w \in Windows, t \in Tasks : task[w][t].at = "idle"
  BY DEF IdleTask
<1>2. Always
  BY <1>1 DEF Always, HandlersRead, FlagsKnown
<1>3. Apart /\ HandledFirst /\ ReadSetting
  BY <1>1 DEF Apart, Overlap, StartUnderWay, HandledFirst, ReadSetting
<1>4. OffForgets /\ RemembersInvited
  BY ControllerAssumption DEF OffForgets, RemembersInvited
<1>5. OffIsSeen /\ OnIsSeen /\ StartsPermitted /\ OffStops /\ UnwantedStops
  BY DEF OffIsSeen, OnIsSeen, StartsPermitted, OffStops, UnwantedStops
<1> QED
  BY <1>2, <1>3, <1>4, <1>5 DEF WordInv, Alone

\* What the history variable says of a step that was not crossed.
LEMMA Uncrossed ==
  ASSUME Observes \/ ObservesStart, ~crossed'
  PROVE  ~crossed /\ Apart'
  BY Zenon DEF Observes, ObservesStart, Apart

LEMMA Changed ==
  ASSUME Observes, ~crossed', setting' # setting
  PROVE  ~Handling
  BY Zenon DEF Observes

\* Where the permission is known to hold, it was seen, and nobody notes the contrary.
LEMMA Permitted ==
  ASSUME Typed, Always, Alone, NEW w \in open, setting, view[w]
  PROVE  ~SeenOffOrBumped
<1>1. seen = TRUE
  BY DEF Alone, OnIsSeen
<1>2. ASSUME NEW v \in Windows, NEW t \in Tasks, task[v][t].at = "bumped" PROVE FALSE
  BY <1>2 DEF Always, HandlersRead, Alone, ReadSetting
<1> QED
  BY <1>1, <1>2 DEF SeenOffOrBumped

-----------------------------------------------------------------------------
(***************************************************************************)
(* A step that leaves the setting, what is known of it and the windows as  *)
(* they are, in five parts: the tasks, the flags, and, while nothing was   *)
(* crossed, the attempts, the servers and the invitations.                 *)
(***************************************************************************)
SameTasks ==
    \A w \in Windows, t \in Tasks :
      /\ t \in Handlers /\ task[w][t].at = "idle" => task'[w][t].at = "idle"
      /\ task[w][t].at = "bumped" => task'[w][t] = task[w][t]
      /\ task'[w][t].at \in {"bumped", "noted"} => task'[w][t] = task[w][t]
MayStart(w) == setting /\ view[w] /\ w \in open /\ w \in invited'
CurrentFlags == \A w \in Windows : flag'[w] \in {flag[w], None, epoch}
SameFlags == \A w \in Windows : flag'[w] \in {flag[w], None} \/ MayStart(w)
SameAttempts ==
    \A w \in open :
      /\ attempt'[w] # "none" => attempt[w] # "none" \/ MayStart(w)
      /\ task'[w]["command"].at = "turnedOn" => task[w]["command"].at = "turnedOn"
SameServers ==
    \A w \in server' :
      /\ view[w] \/ (w \in server /\ (StopsSoon(w) => StopsSoon(w)'))
      /\ \/ w \in invited' \/ \E t \in Tasks : task'[w][t].at = "stopping"
         \/ w \in server /\ w \notin invited /\ \A t \in Tasks : task[w][t].at = "stopping" => task'[w][t].at = "stopping"
SameInvited ==
    \A w \in invited \ invited' :
      flag'[w] = None /\ attempt'[w] = "none" /\ task'[w]["command"].at # "turnedOn"

Undisturbed ==
    /\ UNCHANGED <<setting, view, epoch, seen, open>>
    /\ SameTasks /\ CurrentFlags
    /\ ~crossed' => SameFlags /\ SameAttempts /\ SameServers /\ SameInvited

LEMMA UndisturbedAlways ==
  ASSUME Typed, Always, Undisturbed
  PROVE  Always'
<1>1. HandlersRead'
  BY DEF Always, HandlersRead, Undisturbed, SameTasks
<1>2. FlagsKnown'
  BY DEF Always, FlagsKnown, Undisturbed, CurrentFlags, Typed, TypeOK
<1> QED
  BY <1>1, <1>2 DEF Always

LEMMA UndisturbedAlone ==
  ASSUME Typed, Typed', Always, Alone, Undisturbed, ~crossed', Apart'
  PROVE  Alone'
<1> USE DEF Undisturbed
<1>1. HandledFirst'
  <2> SUFFICES ASSUME NEW w \in open, NEW t \in Handlers, view[w] # setting PROVE task'[w][t].at = "idle"
    BY Zenon DEF HandledFirst
  <2>1. w \in Windows /\ t \in Tasks
    BY DEF Typed, TypeOK, Handlers, Tasks
  <2>2. task[w][t].at = "idle"
    BY Zenon DEF Alone, HandledFirst
  <2> QED
    BY <2>1, <2>2 DEF SameTasks
<1>2. ReadSetting'
  BY DEF Alone, ReadSetting, SameTasks
<1>3. SeenOffOrBumped' => SeenOffOrBumped
  BY DEF SeenOffOrBumped, SameTasks
<1>4. OffForgets'
  <2> SUFFICES ASSUME SeenOffOrBumped', NEW w \in Windows PROVE flag'[w] # epoch
    BY DEF OffForgets
  <2>1. SeenOffOrBumped /\ flag[w] # epoch /\ None # epoch
    BY <1>3, ControllerAssumption DEF Alone, OffForgets, Typed, TypeOK
  <2>2. CASE flag'[w] \in {flag[w], None}
    BY <2>1, <2>2
  <2>3. CASE flag'[w] \notin {flag[w], None}
    BY <2>1, <2>3, Permitted DEF SameFlags, MayStart
  <2> QED
    BY <2>2, <2>3
<1>5. OffIsSeen'
  <2> SUFFICES ASSUME NEW w \in open, ~setting, ~view[w]
               PROVE  seen = FALSE \/ \E t \in Tasks : task'[w][t].at = "bumped"
    BY DEF OffIsSeen
  <2>1. w \in Windows
    BY DEF Typed, TypeOK
  <2> QED
    BY <2>1 DEF Alone, OffIsSeen, SameTasks
<1>6. OnIsSeen'
  BY DEF Alone, OnIsSeen
<1>7. StartsPermitted'
  BY DEF Alone, StartsPermitted, SameAttempts, SameInvited, MayStart, Typed, TypeOK
<1>8. RemembersInvited'
  <2> SUFFICES ASSUME NEW w \in Windows, flag'[w] = epoch, w \notin invited' PROVE FALSE
    BY DEF RemembersInvited
  <2>1. None # epoch
    BY ControllerAssumption DEF Typed, TypeOK
  <2>2. flag[w] = epoch /\ w \in invited
    BY <2>1 DEF SameFlags, MayStart, Alone, RemembersInvited
  <2> QED
    BY <2>1, <2>2 DEF SameInvited
<1>9. OffStops'
  BY DEF Alone, OffStops, SameServers
<1>10. UnwantedStops'
  BY DEF Alone, UnwantedStops, SameServers
<1> QED
  BY <1>1, <1>2, <1>4, <1>5, <1>6, <1>7, <1>8, <1>9, <1>10 DEF Alone

LEMMA UndisturbedWord ==
  ASSUME Typed, Typed', WordInv, Undisturbed, Observes \/ ObservesStart
  PROVE  WordInv'
  BY UndisturbedAlways, UndisturbedAlone, Uncrossed DEF WordInv

-----------------------------------------------------------------------------
\* A task that moves on, without dealing with a setting before or after.
LEMMA MovesOn ==
  ASSUME Typed, NEW w \in Windows, NEW t \in Tasks, NEW state \in TaskState, task' = [task EXCEPT ![w][t] = state],
         task[w][t].at # "bumped", state.at \notin {"bumped", "noted"}, t \in Handlers => task[w][t].at # "idle"
  PROVE  SameTasks /\ task'[w][t] = state /\ \A v \in Windows, u \in Tasks : v # w \/ u # t => task'[v][u] = task[v][u]
<1>1. task'[w][t] = state /\ \A v \in Windows, u \in Tasks : v # w \/ u # t => task'[v][u] = task[v][u]
  BY DEF Typed, TypeOK, TaskState
<1>2. SameTasks
  BY <1>1 DEF SameTasks
<1> QED
  BY <1>1, <1>2

LEMMA StartingWord ==
  ASSUME Typed, Typed', WordInv, NEW w \in open, NEW t \in {"command", "auto"}, CallsStart(w, t),
         task[w][t].at \in {"dialog", "turnedOn", "noted"}, t = "auto" => task[w][t].at = "noted",
         UNCHANGED <<setting, view, epoch, seen, open, server>>, invited \subseteq invited',
         ~crossed' => MayStart(w), Observes \/ ObservesStart
  PROVE  WordInv'
<1>0. w \in Windows /\ t \in Tasks /\ t \notin Slots
  BY ControllerAssumption DEF Typed, TypeOK, Tasks
<1>1. PICK state \in TaskState : state.at \in {"starting", "idle"} /\ task' = [task EXCEPT ![w][t] = state]
  BY <1>0, Going, Ending DEF CallsStart, Places
<1>2. /\ SameTasks /\ task'[w][t] = state
      /\ \A v \in Windows, u \in Tasks : v # w \/ u # t => task'[v][u] = task[v][u]
  <2>1. /\ state.at \notin {"bumped", "noted"} /\ task[w][t].at \notin {"bumped", "idle"}
    BY <1>1
  <2> QED
    BY <1>0, <1>1, <2>1, MovesOn
<1>3. \A v \in Windows : flag'[v] = flag[v] \/ (v = w /\ flag'[v] = epoch)
  BY DEF CallsStart, Typed, TypeOK
<1>4. \A v \in Windows : attempt'[v] = attempt[v] \/ v = w
  BY DEF CallsStart, MayBegin, Typed, TypeOK
<1>5. CurrentFlags
  BY <1>3 DEF CurrentFlags
<1>6. ASSUME ~crossed' PROVE SameFlags /\ SameAttempts /\ SameServers /\ SameInvited
  <2>1. SameFlags
    BY <1>3, <1>6 DEF SameFlags
  <2>2. SameAttempts
    BY <1>1, <1>2, <1>4, <1>6 DEF SameAttempts, Typed, TypeOK, Tasks
  <2>3. \A v \in server : StopsSoon(v) => StopsSoon(v)'
    BY <1>0, <1>2, SMTT(30) DEF StopsSoon, Typed, TypeOK
  <2>4. \A v \in server, u \in Tasks : task[v][u].at = "stopping" => task'[v][u].at = "stopping"
    BY <1>2 DEF Typed, TypeOK
  <2>5. SameServers
    BY <2>3, <2>4 DEF SameServers
  <2> QED
    BY <2>1, <2>2, <2>5 DEF SameInvited
<1>7. Undisturbed
  BY <1>2, <1>5, <1>6 DEF Undisturbed
<1> QED
  BY <1>7, UndisturbedWord

LEMMA StartStepsWord ==
  ASSUME Typed, Typed', WordInv, NEW w \in Windows, Confirms(w) \/ StartsAfterTurnOn(w) \/ AutostartDecides(w)
  PROVE  WordInv'
<1> USE DEF At
<1>1. CASE Confirms(w)
  <2>1. ASSUME ~crossed' PROVE MayStart(w)
    <3>1. ~OffUnderWay
      BY <1>1, <2>1, Zenon DEF Confirms, ObservesStart
    <3>2. setting
      BY <1>1, <3>1, Zenon DEF Confirms, OffUnderWay
    <3> QED
      BY <1>1, <3>2 DEF Confirms, MayStart
  <2> QED
    BY <1>1, <2>1, StartingWord DEF Confirms
<1>2. CASE StartsAfterTurnOn(w)
  <2>1. ASSUME ~crossed' PROVE MayStart(w)
    <3>1. Alone
      BY <1>2, <2>1, Uncrossed DEF WordInv, StartsAfterTurnOn
    <3> QED
      BY <1>2, <3>1 DEF StartsAfterTurnOn, Alone, StartsPermitted, MayStart
  <2> QED
    BY <1>2, <2>1, StartingWord DEF StartsAfterTurnOn
<1>3. CASE AutostartDecides(w) /\ view[w] /\ Remembers(w) /\ CallsStart(w, "auto")
  <2>1. ASSUME ~crossed' PROVE MayStart(w)
    <3>1. Alone
      BY <1>3, <2>1, Uncrossed DEF WordInv, AutostartDecides
    <3>2. w \in invited
      BY <1>3, <3>1 DEF Remembers, Alone, RemembersInvited
    <3>3. view[w] = setting
      BY <1>3, <3>1, Zenon DEF AutostartDecides, Alone, HandledFirst, Handlers
    <3> QED
      BY <1>3, <3>2, <3>3 DEF AutostartDecides, MayStart
  <2> QED
    BY <1>3, <2>1, StartingWord DEF AutostartDecides
<1>4. CASE AutostartDecides(w) /\ ~(view[w] /\ Remembers(w)) /\ Ends(w, "auto") /\ UNCHANGED <<flag, attempt>>
  <2>1. "auto" \in Tasks /\ "auto" \notin Slots
    BY ControllerAssumption DEF Tasks
  <2>2. IdleTask \in TaskState /\ IdleTask.at = "idle" /\ task' = [task EXCEPT ![w]["auto"] = IdleTask]
    BY <1>4, <2>1, Ending
  <2>3. /\ SameTasks /\ task'[w]["auto"] = IdleTask
        /\ \A v \in Windows, u \in Tasks : v # w \/ u # "auto" => task'[v][u] = task[v][u]
    BY <1>4, <2>1, <2>2, MovesOn DEF AutostartDecides
  <2>4. \A v \in server : StopsSoon(v) => StopsSoon(v)'
    BY <1>4, <2>1, <2>3 DEF AutostartDecides, StopsSoon, Typed, TypeOK
  <2>5. SameServers
    BY <1>4, <2>3, <2>4, ZenonT(30) DEF AutostartDecides, SameServers, Typed, TypeOK
  <2>6. SameAttempts
    BY <1>4, <2>1, <2>3 DEF AutostartDecides, SameAttempts, Typed, TypeOK, Tasks
  <2>7. Undisturbed
    BY <1>4, <2>3, <2>5, <2>6 DEF AutostartDecides, Undisturbed, CurrentFlags, SameFlags, SameInvited
  <2> QED
    BY <1>4, <2>7, UndisturbedWord DEF AutostartDecides
<1> QED
  BY <1>1, <1>2, <1>3, <1>4 DEF AutostartDecides

-----------------------------------------------------------------------------
\* The attempt. Who waited for it is released, and a server may run from then on.
LEMMA ReleasedTasks ==
  ASSUME Typed, NEW w \in Windows, task' = [task EXCEPT ![w] = Released(w)]
  PROVE  /\ SameTasks
         /\ \A v \in Windows, t \in Tasks : task[v][t].at # "starting" => task'[v][t] = task[v][t]
         /\ \A v \in Windows, t \in Tasks : task'[v][t] # task[v][t] => task'[v][t].at = "idle"
<1>1. \A t \in Tasks : Released(w)[t] = task[w][t] \/ (Released(w)[t] = IdleTask /\ task[w][t].at = "starting")
  BY DEF Released, Waiting
<1>2. task \in [Windows -> [Tasks -> TaskState]] /\ IdleTask.at = "idle"
  BY DEF Typed, TypeOK, TaskState, IdleTask
<1>3. \A v \in Windows, t \in Tasks : task'[v][t] = task[v][t] \/ (task'[v][t] = IdleTask /\ task[v][t].at = "starting")
  BY <1>1, <1>2
<1>4. SameTasks
  BY <1>2, <1>3 DEF SameTasks
<1> QED
  BY <1>2, <1>3, <1>4

LEMMA AttemptWord ==
  ASSUME Typed, Typed', WordInv, NEW w \in Windows, AttemptListens(w) \/ AttemptSucceeds(w) \/ AttemptFails(w)
  PROVE  WordInv'
<1>1. /\ SameTasks
      /\ \A v \in Windows, t \in Tasks : task[v][t].at # "starting" => task'[v][t] = task[v][t]
      /\ \A v \in Windows, t \in Tasks : task'[v][t] # task[v][t] => task'[v][t].at = "idle"
  <2>1. CASE task' = task
    BY <2>1 DEF SameTasks
  <2>2. CASE task' = [task EXCEPT ![w] = Released(w)]
    BY <2>2, ReleasedTasks
  <2> QED
    BY <2>1, <2>2 DEF AttemptListens, AttemptSucceeds, AttemptFails
<1>2. /\ attempt[w] # "none" /\ w \in open
      /\ UNCHANGED <<setting, view, epoch, seen, open, invited>>
      /\ \A v \in Windows : attempt'[v] # "none" => attempt[v] # "none"
      /\ server' \subseteq server \cup {w}
      /\ \A v \in Windows : flag'[v] = flag[v] \/ (v = w /\ flag'[v] = epoch)
      /\ Observes
  BY DEF AttemptListens, AttemptSucceeds, AttemptFails, memory, Typed, TypeOK, ShutIsIdle
<1>3. CurrentFlags
  BY <1>2 DEF CurrentFlags
<1>4. ASSUME ~crossed' PROVE SameFlags /\ SameAttempts /\ SameServers /\ SameInvited
  <2>1. MayStart(w)
    BY <1>2, <1>4, Uncrossed DEF WordInv, Alone, StartsPermitted, MayStart
  <2>2. SameFlags
    BY <1>2, <2>1 DEF SameFlags
  <2>3. SameAttempts
    BY <1>1, <1>2 DEF SameAttempts, Typed, TypeOK, Tasks
  <2>4. \A v \in Windows, t \in Tasks : task[v][t].at \in {"stopping", "bumped", "noted"} => task'[v][t] = task[v][t]
    BY <1>1
  <2>5. \A v \in server : StopsSoon(v) => StopsSoon(v)'
    BY <2>4 DEF StopsSoon, Typed, TypeOK
  <2>6. SameServers
    BY <1>2, <2>1, <2>4, <2>5 DEF SameServers, MayStart, Typed, TypeOK
  <2> QED
    BY <1>2, <2>2, <2>3, <2>6 DEF SameInvited
<1>5. Undisturbed
  BY <1>1, <1>2, <1>3, <1>4 DEF Undisturbed
<1> QED
  BY <1>2, <1>5, UndisturbedWord

\* The stop: what is closed or forgotten was to be stopped.
LEMMA StopWord ==
  ASSUME Typed, Typed', WordInv, NEW w \in Windows, NEW t \in Tasks, StopTakesServer(w, t) \/ StopCloses(w, t)
  PROVE  WordInv'
<1> USE DEF At
<1>1. PICK state \in TaskState : state.at \in {"closing", "idle"} /\ task' = [task EXCEPT ![w][t] = state]
  BY Going, Ending DEF StopTakesServer, StopCloses, Places
<1>2. /\ SameTasks /\ task'[w][t] = state
      /\ \A v \in Windows, u \in Tasks : v # w \/ u # t => task'[v][u] = task[v][u]
  <2>1. state.at \notin {"bumped", "noted"} /\ task[w][t].at \notin {"bumped", "idle"}
    BY <1>1 DEF StopTakesServer, StopCloses
  <2> QED
    BY <1>1, <2>1, MovesOn
<1>3. /\ UNCHANGED <<setting, view, epoch, seen, flag, open, attempt, invited>>
      /\ server' \subseteq server /\ (w \in server' => task[w][t].at = "closing") /\ Observes
  BY DEF StopTakesServer, StopCloses, memory
<1>4. \A v \in server' : StopsSoon(v) => StopsSoon(v)'
  <2> SUFFICES ASSUME NEW v \in server', StopsSoon(v) PROVE StopsSoon(v)'
    OBVIOUS
  <2>1. PICK u \in Tasks : task[v][u].at = "stopping" \/ (u \in Slots /\ task[v][u].at \in {"bumped", "noted"})
    BY DEF StopsSoon
  <2>2. v \in Windows /\ (v # w \/ u # t)
    BY <1>3, <2>1 DEF Typed, TypeOK
  <2> QED
    BY <1>2, <2>1, <2>2 DEF StopsSoon
<1>5. \A v \in server', u \in Tasks : task[v][u].at = "stopping" => task'[v][u].at = "stopping"
  BY <1>2, <1>3 DEF Typed, TypeOK
<1>6. ASSUME ~crossed' PROVE SameServers
  BY <1>3, <1>4, <1>5, <1>6 DEF SameServers
<1>7. SameAttempts
  BY <1>1, <1>2, <1>3 DEF SameAttempts, Typed, TypeOK, Tasks
<1>8. Undisturbed
  BY <1>2, <1>3, <1>6, <1>7 DEF Undisturbed, CurrentFlags, SameFlags, SameInvited
<1> QED
  BY <1>3, <1>8, UndisturbedWord

-----------------------------------------------------------------------------
\* A handler that stops the server of its window, or finds none that it should stop.
LEMMA HandlerWord ==
  ASSUME Typed, Typed', WordInv, NEW w \in Windows, NEW t \in Tasks, HandlerStops(w, t) \/ HandlerEnds(w, t)
  PROVE  WordInv'
<1> USE DEF At
<1>1. PICK state \in TaskState : /\ state.at \in {"stopping", "idle"} /\ task' = [task EXCEPT ![w][t] = state]
                                 /\ state.at = "stopping" \/ view[w] \/ w \notin server
  BY Going, Ending DEF HandlerStops, HandlerEnds, StopsHere, Places
<1>2. /\ SameTasks /\ task'[w][t] = state
      /\ \A v \in Windows, u \in Tasks : v # w \/ u # t => task'[v][u] = task[v][u]
  <2>1. state.at \notin {"bumped", "noted"} /\ task[w][t].at \notin {"bumped", "idle"}
    BY <1>1 DEF HandlerStops, HandlerEnds
  <2> QED
    BY <1>1, <2>1, MovesOn
<1>3. /\ UNCHANGED <<setting, view, epoch, seen, open, server, attempt, invited>> /\ Observes
      /\ task[w][t].at = "noted"
      /\ \A v \in Windows : flag'[v] \in {flag[v], None}
  BY DEF HandlerStops, HandlerEnds, StopsHere, Forget, memory, sockets, Typed, TypeOK
<1>4. \A v \in server : ~view[v] => (StopsSoon(v) => StopsSoon(v)')
  <2> SUFFICES ASSUME NEW v \in server, ~view[v], StopsSoon(v) PROVE StopsSoon(v)'
    OBVIOUS
  <2>1. PICK u \in Tasks : task[v][u].at = "stopping" \/ (u \in Slots /\ task[v][u].at \in {"bumped", "noted"})
    BY DEF StopsSoon
  <2>2. v \in Windows
    BY DEF Typed, TypeOK
  <2>3. CASE v = w /\ u = t
    BY <1>1, <1>2, <2>3 DEF StopsSoon
  <2>4. CASE v # w \/ u # t
    BY <1>2, <2>1, <2>2, <2>4 DEF StopsSoon
  <2> QED
    BY <2>3, <2>4
<1>5. \A v \in server, u \in Tasks : task[v][u].at = "stopping" => task'[v][u].at = "stopping"
  BY <1>2, <1>3 DEF Typed, TypeOK
<1>6. SameServers
  BY <1>3, <1>4, <1>5 DEF SameServers
<1>7. SameAttempts
  BY <1>1, <1>2, <1>3 DEF SameAttempts, Typed, TypeOK, Tasks
<1>8. Undisturbed
  BY <1>2, <1>3, <1>6, <1>7 DEF Undisturbed, CurrentFlags, SameFlags, SameInvited
<1> QED
  BY <1>3, <1>8, UndisturbedWord

\* The command: its stop takes the invitation back and the memory with it.
LEMMA CommandWord ==
  ASSUME Typed, Typed', WordInv, NEW w \in Windows, Toggles(w) \/ Declines(w)
  PROVE  WordInv'
<1> USE DEF At
<1>0. "command" \in Tasks /\ "command" \notin Handlers
  BY ControllerAssumption DEF Tasks, Handlers
<1>1. PICK state \in TaskState : /\ state.at \in {"stopping", "dialog", "idle"}
                                 /\ task' = [task EXCEPT ![w]["command"] = state]
                                 /\ state.at = "stopping" <=> (Toggles(w) /\ w \in server)
  <2>1. CASE Toggles(w) /\ w \in server
    BY <1>0, <2>1, Going DEF Toggles, StopsHere, Places
  <2>2. CASE Toggles(w) /\ w \notin server
    BY <1>0, <2>2, Going DEF Toggles, Places
  <2>3. CASE Declines(w) /\ ~Toggles(w)
    BY <1>0, <2>3, Ending DEF Declines
  <2> QED
    BY <2>1, <2>2, <2>3
<1>2. /\ SameTasks /\ task'[w]["command"] = state
      /\ \A v \in Windows, u \in Tasks : v # w \/ u # "command" => task'[v][u] = task[v][u]
  <2>1. state.at \notin {"bumped", "noted"} /\ task[w]["command"].at # "bumped"
    BY <1>1 DEF Toggles, Declines
  <2> QED
    BY <1>0, <1>1, <2>1, MovesOn
<1>3. /\ UNCHANGED <<setting, view, epoch, seen, open, server, attempt>> /\ Observes
      /\ task[w]["command"].at \in {"idle", "dialog"}
      /\ \A v \in Windows : flag'[v] \in {flag[v], None}
  BY DEF Toggles, Declines, StopsHere, Forget, memory, sockets, Typed, TypeOK
<1>4. \A v \in invited \ invited' : v = w /\ w \in server /\ state.at = "stopping" /\ flag'[w] = None
  BY <1>1 DEF Toggles, Declines, StopsHere, Forget, Typed, TypeOK
<1>5. \A v \in server : StopsSoon(v) => StopsSoon(v)'
  BY <1>2, <1>3, ZenonT(30) DEF StopsSoon, Typed, TypeOK
<1>6. \A v \in server, u \in Tasks : task[v][u].at = "stopping" => task'[v][u].at = "stopping"
  BY <1>2, <1>3 DEF Typed, TypeOK
<1>7. SameServers
  <2> SUFFICES ASSUME NEW v \in server
               PROVE  \/ v \in invited' \/ \E u \in Tasks : task'[v][u].at = "stopping"
                      \/ v \notin invited /\ \A u \in Tasks : task[v][u].at = "stopping" => task'[v][u].at = "stopping"
    BY <1>3, <1>5 DEF SameServers
  <2> QED
    BY <1>0, <1>2, <1>4, <1>6
<1>8. SameAttempts
  BY <1>1, <1>2, <1>3 DEF SameAttempts, Typed, TypeOK, Tasks
<1>9. SameInvited
  BY <1>2, <1>3, <1>4 DEF SameInvited, Typed, NoneBesidesAttempt, TypeOK
<1>10. Undisturbed
  BY <1>2, <1>3, <1>7, <1>8, <1>9 DEF Undisturbed, CurrentFlags, SameFlags
<1> QED
  BY <1>3, <1>10, UndisturbedWord

-----------------------------------------------------------------------------
\* A setting seen off is noted: it is still off.
LEMMA NotesWord ==
  ASSUME Typed, Typed', WordInv, NEW w \in Windows, NEW t \in Tasks, NotesSeen(w, t)
  PROVE  WordInv'
<1> USE DEF At
<1>1. /\ w \in open /\ task[w][t].at = "bumped" /\ seen' = task[w][t].enabled
      /\ UNCHANGED <<setting, view, epoch, flag, open, server, attempt, invited>> /\ Observes
  BY DEF NotesSeen, sockets
<1>2. /\ task'[w][t].at = "noted" /\ task'[w][t].enabled = task[w][t].enabled
      /\ \A v \in Windows, u \in Tasks : v # w \/ u # t => task'[v][u] = task[v][u]
  BY DEF NotesSeen, Goes, Typed, TypeOK
<1>3. t \in Handlers /\ ~task[w][t].enabled
  BY <1>1 DEF WordInv, Always, HandlersRead
<1>4. Always'
  <2>1. HandlersRead'
    BY <1>2, <1>3 DEF WordInv, Always, HandlersRead
  <2>2. FlagsKnown'
    BY <1>1 DEF WordInv, Always, FlagsKnown
  <2> QED
    BY <2>1, <2>2 DEF Always
<1>5. ASSUME ~crossed' PROVE Alone'
  <2>1. Alone /\ Apart'
    BY <1>1, <1>5, Uncrossed DEF WordInv
  <2>2. seen' = FALSE /\ ~setting
    <3>1. task[w][t].enabled = setting
      BY <1>1, <2>1, Zenon DEF Alone, ReadSetting
    <3>2. task[w][t].enabled \in BOOLEAN
      BY DEF Typed, TypeOK
    <3> QED
      BY <1>1, <1>3, <3>1, <3>2
  <2>3. HandledFirst'
    <3> SUFFICES ASSUME NEW v \in open, NEW u \in Handlers, view[v] # setting PROVE task'[v][u].at = "idle"
      BY <1>1, Zenon DEF HandledFirst
    <3>1. v \in Windows /\ u \in Tasks
      BY DEF Typed, TypeOK, Handlers, Tasks
    <3>2. task[v][u].at = "idle"
      BY <2>1, Zenon DEF Alone, HandledFirst
    <3> QED
      BY <1>1, <1>2, <3>1, <3>2
  <2>4. ReadSetting'
    <3> SUFFICES ASSUME NEW v \in Windows, NEW u \in Tasks, task'[v][u].at \in {"bumped", "noted"}
                 PROVE  task'[v][u].enabled = setting
      BY <1>1, Zenon DEF ReadSetting
    <3>1. task[v][u].at \in {"bumped", "noted"} /\ task'[v][u].enabled = task[v][u].enabled
      BY <1>1, <1>2
    <3> QED
      BY <2>1, <3>1, Zenon DEF Alone, ReadSetting
  <2>5. OffForgets' /\ OffIsSeen' /\ OnIsSeen'
    BY <1>1, <2>1, <2>2 DEF Alone, OffForgets, SeenOffOrBumped, OffIsSeen, OnIsSeen
  <2>6. StartsPermitted' /\ RemembersInvited'
    BY <1>1, <1>2, <2>1 DEF Alone, StartsPermitted, RemembersInvited, Typed, TypeOK, Tasks
  <2>7. \A v \in server : StopsSoon(v) => StopsSoon(v)'
    <3> SUFFICES ASSUME NEW v \in server, StopsSoon(v) PROVE StopsSoon(v)'
      OBVIOUS
    <3>1. v \in Windows
      BY DEF Typed, TypeOK
    <3> QED
      BY <1>1, <1>2, <3>1 DEF StopsSoon
  <2>8. OffStops' /\ UnwantedStops'
    BY <1>1, <2>1, <2>2, <2>7 DEF Alone, OffStops, UnwantedStops
  <2> QED
    BY <2>1, <2>3, <2>4, <2>5, <2>6, <2>8 DEF Alone
<1> QED
  BY <1>4, <1>5 DEF WordInv

(***************************************************************************)
(* A window learns of the setting, from an event or because it opens. What *)
(* it learns is the setting, and its handler read it.                      *)
(***************************************************************************)
Learns(w, t) ==
    /\ view' = [view EXCEPT ![w] = setting]
    /\ task[w][t].at = "idle" /\ Reconciles(w, t, setting)
    /\ UNCHANGED <<setting, flag, server, attempt>>
    /\ open' = open \cup {w}
    /\ t \in Handlers /\ Observes
    /\ (w \in open /\ t \in Slots) \/ w \notin server

LEMMA LearnsAlways ==
  ASSUME Typed, Always, NEW w \in Windows, NEW t \in Handlers, Learns(w, t)
  PROVE  Always'
<1>0. t \in Tasks
  BY DEF Handlers, Tasks
<1>1. /\ task'[w][t] = [at |-> IF SeenOff(setting) THEN "bumped" ELSE "noted", enabled |-> setting]
      /\ \A v \in Windows, u \in Tasks : v # w \/ u # t => task'[v][u] = task[v][u]
  BY <1>0 DEF Learns, Reconciles, Typed, TypeOK
<1>2. HandlersRead'
  <2>1. /\ task'[w][t].at \in {"bumped", "noted"}
        /\ task'[w][t].at = "bumped" => SeenOff(setting)
    BY <1>1
  <2>2. task'[w][t].enabled = setting
    <3>1. [at |-> IF SeenOff(setting) THEN "bumped" ELSE "noted", enabled |-> setting].enabled = setting
      OBVIOUS
    <3> QED
      BY <1>1, <3>1, Zenon
  <2>3. task'[w][t].at = "bumped" => ~task'[w][t].enabled
    BY <2>1, <2>2, Zenon DEF SeenOff
  <2>4. t \in Handlers
    OBVIOUS
  <2> QED
    BY <1>1, <2>3, <2>4 DEF Always, HandlersRead
<1>3. epoch' \in Nat /\ epoch' >= epoch /\ epoch \in Nat /\ flag' = flag
  BY ControllerAssumption DEF Learns, Reconciles, Typed, TypeOK
<1>4. FlagsKnown'
  BY <1>3 DEF Always, FlagsKnown
<1> QED
  BY <1>2, <1>4 DEF Always

LEMMA LearnsAlone ==
  ASSUME Typed, Typed', Always, Alone, NEW w \in Windows, NEW t \in Handlers, Learns(w, t), Apart'
  PROVE  Alone'
<1> DEFINE state == [at |-> IF SeenOff(setting) THEN "bumped" ELSE "noted", enabled |-> setting]
<1>0. t \in Tasks /\ t # "command"
  BY ControllerAssumption DEF Handlers, Tasks
<1>1. /\ task'[w][t] = state
      /\ \A v \in Windows, u \in Tasks : v # w \/ u # t => task'[v][u] = task[v][u]
  BY <1>0 DEF Learns, Reconciles, Typed, TypeOK
<1>2. /\ state.at \in {"bumped", "noted"} /\ state.enabled = setting
      /\ state.at = "bumped" <=> SeenOff(setting)
  OBVIOUS
<1> HIDE DEF state
<1>3. /\ view'[w] = setting /\ \A v \in Windows : v # w => view'[v] = view[v]
      /\ UNCHANGED <<setting, flag, server, attempt>> /\ open' = open \cup {w} /\ task[w][t].at = "idle"
      /\ open \subseteq Windows /\ server \subseteq Windows /\ server \subseteq open
  BY DEF Learns, Typed, TypeOK
<1>4. \/ SeenOff(setting) /\ epoch' = epoch + 1 /\ epoch' # epoch /\ invited' = {} /\ seen' = seen /\ ~setting /\ seen # FALSE
      \/ ~SeenOff(setting) /\ seen' = setting /\ epoch' = epoch /\ invited' = invited /\ (setting \/ seen = FALSE)
  <2>1. CASE SeenOff(setting)
    <3>1. epoch' = epoch + 1 /\ epoch \in Nat /\ invited' = {} /\ seen' = seen
      BY <2>1 DEF Learns, Reconciles, Typed, TypeOK
    <3>2. ~setting /\ seen # FALSE
      BY <2>1, Zenon DEF SeenOff
    <3>3. epoch' # epoch
      BY <3>1
    <3> QED
      BY <2>1, <3>1, <3>2, <3>3, Zenon
  <2>2. CASE ~SeenOff(setting)
    <3>1. seen' = setting /\ epoch' = epoch /\ invited' = invited
      BY <2>2, Zenon DEF Learns, Reconciles
    <3>2. setting \/ seen = FALSE
      BY <2>2, Zenon DEF SeenOff
    <3> QED
      BY <2>2, <3>1, <3>2, Zenon
  <2> QED
    BY <2>1, <2>2
<1>5. HandledFirst'
  <2> SUFFICES ASSUME NEW v \in open', NEW u \in Handlers, view'[v] # setting PROVE task'[v][u].at = "idle"
    BY <1>3, Zenon DEF HandledFirst
  <2>1. v # w /\ v \in open /\ v \in Windows /\ u \in Tasks /\ view[v] # setting
    BY <1>3, Zenon DEF Handlers, Tasks
  <2>2. task[v][u].at = "idle"
    BY <2>1, Zenon DEF Alone, HandledFirst
  <2> QED
    BY <1>1, <2>1, <2>2
<1>6. ReadSetting'
  <2> SUFFICES ASSUME NEW v \in Windows, NEW u \in Tasks, task'[v][u].at \in {"bumped", "noted"}
               PROVE  task'[v][u].enabled = setting
    BY <1>3, Zenon DEF ReadSetting
  <2>1. CASE v = w /\ u = t
    BY <1>1, <1>2, <2>1, Zenon
  <2>2. CASE v # w \/ u # t
    <3>1. task'[v][u] = task[v][u]
      BY <1>1, <2>2
    <3> QED
      BY <3>1, Zenon DEF Alone, ReadSetting
  <2> QED
    BY <2>1, <2>2
<1>7. OffForgets'
  <2>1. CASE SeenOff(setting)
    <3>1. epoch' = epoch + 1 /\ epoch \in Nat /\ None \notin Nat
      BY <1>4, <2>1, ControllerAssumption DEF Typed, TypeOK
    <3>2. \A v \in Windows : flag'[v] # epoch'
      BY <1>3, <1>4, <2>1, <3>1 DEF Always, FlagsKnown
    <3> QED
      BY <3>2 DEF OffForgets
  <2>2. CASE ~SeenOff(setting)
    <3>1. SeenOffOrBumped' => SeenOffOrBumped
      <4> SUFFICES ASSUME SeenOffOrBumped' PROVE SeenOffOrBumped
        OBVIOUS
      <4>1. CASE seen' = FALSE
        BY <1>4, <2>2, <4>1 DEF SeenOffOrBumped
      <4>2. ASSUME NEW v \in Windows, NEW u \in Tasks, task'[v][u].at = "bumped" PROVE SeenOffOrBumped
        BY <1>1, <1>2, <2>2, <4>2 DEF SeenOffOrBumped
      <4> QED
        BY <4>1, <4>2 DEF SeenOffOrBumped
    <3> QED
      BY <1>3, <1>4, <2>2, <3>1 DEF Alone, OffForgets
  <2> QED
    BY <2>1, <2>2
<1>8. OffIsSeen'
  <2> SUFFICES ASSUME NEW v \in open', ~setting, ~view'[v]
               PROVE  seen' = FALSE \/ \E u \in Tasks : task'[v][u].at = "bumped"
    BY <1>3 DEF OffIsSeen
  <2>1. CASE v = w
    BY <1>0, <1>1, <1>2, <1>4, <2>1 DEF Typed, TypeOK
  <2>2. CASE v # w
    <3>1. v \in open /\ v \in Windows /\ ~view[v]
      BY <1>3, <2>2
    <3>2. seen = FALSE \/ \E u \in Tasks : task[v][u].at = "bumped"
      BY <3>1 DEF Alone, OffIsSeen
    <3>3. seen = FALSE => seen' = FALSE
      BY <1>4 DEF SeenOff, Typed, TypeOK
    <3> QED
      BY <1>1, <2>2, <3>1, <3>2, <3>3
  <2> QED
    BY <2>1, <2>2
<1>9. OnIsSeen'
  BY <1>3, <1>4 DEF OnIsSeen, SeenOff, Typed, TypeOK
<1>10. StartsPermitted'
  <2> SUFFICES ASSUME NEW v \in open', attempt[v] # "none" \/ task'[v]["command"].at = "turnedOn"
               PROVE  /\ attempt[v] # "none" => view'[v] /\ setting /\ v \in invited'
                      /\ task'[v]["command"].at = "turnedOn" => setting /\ v \in invited'
    BY <1>3 DEF StartsPermitted
  <2>1. v \in Windows /\ task'[v]["command"] = task[v]["command"]
    BY <1>0, <1>1, <1>3 DEF Tasks
  <2>2. v \in open
    BY <1>3, <2>1 DEF Typed, ShutIsIdle, Tasks
  <2>3. setting /\ v \in invited
    BY <2>1, <2>2 DEF Alone, StartsPermitted
  <2>4. ~SeenOff(setting)
    BY <2>3 DEF SeenOff
  <2> QED
    BY <1>3, <1>4, <2>1, <2>2, <2>3, <2>4 DEF Alone, StartsPermitted
<1>11. RemembersInvited'
  <2>1. CASE SeenOff(setting)
    BY <1>7, <1>1, <1>0, <1>2, <2>1 DEF OffForgets, SeenOffOrBumped, RemembersInvited
  <2>2. CASE ~SeenOff(setting)
    BY <1>3, <1>4, <2>2 DEF Alone, RemembersInvited
  <2> QED
    BY <2>1, <2>2
<1>12. \A v \in server : StopsSoon(v) => StopsSoon(v)'
  <2> SUFFICES ASSUME NEW v \in server, StopsSoon(v) PROVE StopsSoon(v)'
    OBVIOUS
  <2>1. v \in Windows
    BY <1>3
  <2> QED
    BY <1>1, <1>3, <2>1 DEF StopsSoon
<1>13. OffStops'
  <2> SUFFICES ASSUME NEW v \in server, ~view'[v] PROVE StopsSoon(v)'
    BY <1>3 DEF OffStops
  <2>1. CASE v = w
    BY <1>0, <1>1, <1>2, <2>1 DEF StopsSoon, Learns
  <2>2. CASE v # w
    BY <1>3, <1>12, <2>2 DEF Alone, OffStops
  <2> QED
    BY <2>1, <2>2
<1>14. UnwantedStops'
  <2> SUFFICES ASSUME NEW v \in server, setting, view'[v], v \notin invited'
               PROVE  \E u \in Tasks : task'[v][u].at = "stopping"
    BY <1>3 DEF UnwantedStops
  <2>1. v \in open /\ v \in Windows /\ v \notin invited
    BY <1>3, <1>4
  <2>2. PICK u \in Tasks : task[v][u].at = "stopping"
    <3>1. CASE view[v]
      BY <2>1, <3>1 DEF Alone, UnwantedStops
    <3>2. CASE ~view[v]
      <4>1. view[v] # setting
        BY <3>2
      <4>2. \A u \in Slots : task[v][u].at = "idle"
        BY <2>1, <4>1, Zenon DEF Alone, HandledFirst, Handlers
      <4> QED
        BY <3>2, <4>2 DEF Alone, OffStops, StopsSoon
    <3> QED
      BY <3>1, <3>2
  <2> QED
    BY <1>1, <1>3, <2>1, <2>2
<1> QED
  BY <1>5, <1>6, <1>7, <1>8, <1>9, <1>10, <1>11, <1>13, <1>14 DEF Alone

LEMMA LearnsWord ==
  ASSUME Typed, Typed', WordInv, NEW w \in Windows, SettingArrives(w) \/ Opens(w)
  PROVE  WordInv'
<1>1. PICK t \in Handlers : Learns(w, t)
  <2>1. CASE SettingArrives(w)
    <3>1. PICK s \in Slots : task[w][s].at = "idle" /\ Reconciles(w, s, setting)
      BY <2>1 DEF SettingArrives
    <3>2. w \in open /\ open \cup {w} = open
      BY <2>1 DEF SettingArrives
    <3>3. Learns(w, s)
      BY <2>1, <3>1, <3>2 DEF SettingArrives, Learns, Handlers, sockets
    <3> QED
      BY <3>3 DEF Handlers
  <2>2. CASE Opens(w)
    <3>1. "auto" \in Tasks /\ task[w]["auto"].at = "idle" /\ w \notin server
      BY <2>2 DEF Opens, Tasks, Typed, ShutIsIdle, TypeOK
    <3>2. Learns(w, "auto")
      BY <2>2, <3>1 DEF Opens, Learns, Handlers, sockets
    <3> QED
      BY <3>2 DEF Handlers
  <2> QED
    BY <2>1, <2>2
<1>2. Always'
  BY <1>1, LearnsAlways DEF WordInv
<1>3. ASSUME ~crossed' PROVE Alone'
  <2>1. Alone /\ Apart'
    BY <1>1, <1>3, Uncrossed DEF WordInv, Learns
  <2> QED
    BY <1>1, <2>1, LearnsAlone DEF WordInv
<1> QED
  BY <1>2, <1>3 DEF WordInv

-----------------------------------------------------------------------------
\* The setting changes, by hand or with "Turn On and Start", once its last change
\* has been dealt with.
LEMMA ChangesAlone ==
  ASSUME Typed, Typed', Always, Alone, ~Handling, Apart',
         UNCHANGED <<view, epoch, seen, flag, open, server, attempt>>,
         setting' # setting, invited \subseteq invited',
         \A w \in Windows, t \in Tasks :
           task'[w][t] = task[w][t] \/ (t = "command" /\ task[w][t].at = "dialog" /\ task'[w][t].at = "turnedOn"
                                          /\ setting' /\ w \in invited')
  PROVE  Alone'
<1>0. /\ setting \in BOOLEAN /\ setting' \in BOOLEAN /\ view \in [Windows -> BOOLEAN]
      /\ open \subseteq Windows /\ server \subseteq open /\ "command" \notin Handlers /\ Handlers \subseteq Tasks
  BY ControllerAssumption DEF Typed, TypeOK, Handlers, Tasks
<1>1. \A w \in open : (view[w] <=> setting) /\ \A t \in Handlers : task[w][t].at = "idle"
  <2>1. \A w \in open : view[w] = setting
    BY Zenon DEF Handling
  <2>2. \A w \in open, t \in Handlers : task[w][t].at = "idle"
    BY DEF Handling, Handlers
  <2> QED
    BY <1>0, <2>1, <2>2
<1>2. \A w \in Windows, t \in Handlers : task'[w][t].at = "idle" /\ task[w][t].at = "idle"
  <2> SUFFICES ASSUME NEW w \in Windows, NEW t \in Handlers PROVE task'[w][t].at = "idle" /\ task[w][t].at = "idle"
    OBVIOUS
  <2>1. task[w][t].at = "idle"
    BY <1>0, <1>1 DEF Typed, ShutIsIdle
  <2> QED
    BY <1>0, <2>1
<1>3. \A w \in Windows, t \in Tasks :
        task[w][t].at \notin {"bumped", "noted"} /\ task'[w][t].at \notin {"bumped", "noted"}
  <2>1. \A w \in Windows, t \in Tasks : task[w][t].at \in {"bumped", "noted"} => t \in Handlers
    BY DEF Always, HandlersRead
  <2> QED
    BY <1>2, <2>1
<1>4. HandledFirst' /\ ReadSetting'
  BY <1>0, <1>2, <1>3 DEF HandledFirst, ReadSetting
<1>5. OffForgets'
  BY <1>3 DEF Alone, OffForgets, SeenOffOrBumped
<1>6. OffIsSeen' /\ OnIsSeen'
  BY <1>0, <1>1 DEF OffIsSeen, OnIsSeen
<1>7. StartsPermitted'
  <2> SUFFICES ASSUME NEW w \in open, attempt[w] # "none" \/ task'[w]["command"].at = "turnedOn"
               PROVE  /\ setting' /\ w \in invited'
                      /\ attempt[w] # "none" => view[w]
    BY DEF StartsPermitted
  <2>1. "command" \in Tasks /\ w \in Windows
    BY <1>0 DEF Tasks
  <2>2. CASE setting'
    <3>1. attempt[w] = "none"
      BY <1>0, <2>2 DEF Alone, StartsPermitted
    <3>2. task'[w]["command"].at = "turnedOn" /\ task[w]["command"].at # "turnedOn"
      BY <1>0, <2>2, <3>1 DEF Alone, StartsPermitted
    <3> QED
      BY <2>1, <2>2, <3>1, <3>2
  <2>3. CASE ~setting'
    <3>1. view[w]
      BY <1>0, <1>1, <2>3
    <3>2. OffUnderWay'
      BY <2>3, <3>1 DEF OffUnderWay
    <3>3. ~StartUnderWay'
      BY <3>2 DEF Apart, Overlap
    <3> QED
      BY <3>3 DEF StartUnderWay
  <2> QED
    BY <2>2, <2>3
<1>8. RemembersInvited'
  BY DEF Alone, RemembersInvited
<1>9. \A w \in server, t \in Tasks : task[w][t].at = "stopping" => task'[w][t].at = "stopping"
  BY <1>0
<1>10. \A w \in server : StopsSoon(w) => StopsSoon(w)'
  BY <1>0, <1>3, <1>9 DEF StopsSoon
<1>11. OffStops'
  BY <1>10 DEF Alone, OffStops
<1>12. UnwantedStops'
  <2> SUFFICES ASSUME NEW w \in server, view[w], setting' PROVE FALSE
    BY DEF UnwantedStops
  <2> QED
    BY <1>0, <1>1
<1> QED
  BY <1>4, <1>5, <1>6, <1>7, <1>8, <1>11, <1>12 DEF Alone

LEMMA TurnsOnWord ==
  ASSUME Typed, Typed', WordInv, NEW w \in Windows, TurnsOnAndStarts(w)
  PROVE  WordInv'
<1> USE DEF At
<1>0. "command" \in Tasks /\ "command" \notin Handlers /\ "command" \notin Slots
  BY ControllerAssumption DEF Tasks, Handlers
<1>1. PICK state \in TaskState : state.at = "turnedOn" /\ task' = [task EXCEPT ![w]["command"] = state]
  BY <1>0, Going DEF TurnsOnAndStarts, Places
<1>2. /\ SameTasks /\ task'[w]["command"] = state
      /\ \A v \in Windows, u \in Tasks : v # w \/ u # "command" => task'[v][u] = task[v][u]
  BY <1>0, <1>1, MovesOn, ZenonT(30) DEF TurnsOnAndStarts
<1>3. /\ UNCHANGED <<view, epoch, seen, flag, open, server, attempt>> /\ invited' = invited \cup {w}
      /\ Observes /\ w \in open /\ task[w]["command"].at = "dialog"
  BY DEF TurnsOnAndStarts, memory, sockets
<1>4. setting'
  BY DEF TurnsOnAndStarts
<1>5. Always'
  BY <1>2, <1>3 DEF WordInv, Always, HandlersRead, FlagsKnown, SameTasks
<1>6. ASSUME ~crossed' PROVE Alone'
  <2>1. Alone /\ Apart'
    BY <1>3, <1>6, Uncrossed DEF WordInv
  <2>2. CASE setting' # setting
    <3>1. ~Handling
      BY <1>3, <1>6, <2>2, Changed
    <3> QED
      BY <1>1, <1>2, <1>3, <1>4, <2>1, <2>2, <3>1, ChangesAlone DEF WordInv
  <2>3. CASE setting' = setting
    <3>1. \A v \in server : StopsSoon(v) => StopsSoon(v)'
      BY <1>2, <1>3, ZenonT(30) DEF StopsSoon, Typed, TypeOK
    <3>2. \A v \in server, u \in Tasks : task[v][u].at = "stopping" => task'[v][u].at = "stopping"
      BY <1>2, <1>3 DEF Typed, TypeOK
    <3>3. HandledFirst'
      <4> SUFFICES ASSUME NEW v \in open, NEW u \in Handlers, view[v] # setting PROVE task'[v][u].at = "idle"
        BY <1>3, <2>3, Zenon DEF HandledFirst
      <4>1. v \in Windows /\ u \in Tasks
        BY DEF Typed, TypeOK, Handlers, Tasks
      <4>2. task[v][u].at = "idle"
        BY <2>1, Zenon DEF Alone, HandledFirst
      <4> QED
        BY <1>2, <4>1, <4>2 DEF SameTasks
    <3>4. ReadSetting'
      BY <1>2, <2>1, <2>3 DEF Alone, ReadSetting, SameTasks
    <3>5. OffForgets' /\ OffIsSeen' /\ OnIsSeen'
      BY <1>2, <1>3, <1>4, <2>1, <2>3 DEF Alone, OffForgets, SeenOffOrBumped, SameTasks, OffIsSeen, OnIsSeen
    <3>6. StartsPermitted'
      BY <1>0, <1>2, <1>3, <1>4, <2>1, <2>3 DEF Alone, StartsPermitted, Typed, TypeOK
    <3>7. RemembersInvited' /\ OffStops' /\ UnwantedStops'
      BY <1>3, <2>1, <2>3, <3>1, <3>2 DEF Alone, RemembersInvited, OffStops, UnwantedStops
    <3> QED
      BY <2>1, <3>3, <3>4, <3>5, <3>6, <3>7 DEF Alone
  <2> QED
    BY <2>2, <2>3
<1> QED
  BY <1>5, <1>6 DEF WordInv

LEMMA ByHandWord == ASSUME Typed, Typed', WordInv, ChangesSetting PROVE WordInv'
<1>1. /\ UNCHANGED <<view, epoch, seen, flag, open, server, attempt, task, invited>> /\ Observes
  BY DEF ChangesSetting, memory, sockets
<1>2. setting' # setting
  BY Zenon DEF ChangesSetting
<1>3. Always'
  BY <1>1 DEF WordInv, Always, HandlersRead, FlagsKnown
<1>4. ASSUME ~crossed' PROVE Alone'
  <2>1. Alone /\ Apart' /\ ~Handling
    BY <1>1, <1>2, <1>4, Uncrossed, Changed DEF WordInv
  <2> QED
    BY <1>1, <1>2, <2>1, ChangesAlone DEF WordInv
<1> QED
  BY <1>3, <1>4 DEF WordInv

LEMMA ClosesWord ==
  ASSUME Typed, Typed', WordInv, NEW w \in Windows, Closes(w)
  PROVE  WordInv'
<1>1. /\ open' = open \ {w} /\ server' = server \ {w}
      /\ UNCHANGED <<setting, epoch, seen, flag, invited>> /\ Observes
      /\ \A v \in Windows : v # w => attempt'[v] = attempt[v] /\ view'[v] = view[v] /\ task'[v] = task[v]
      /\ \A t \in Tasks : task'[w][t].at = "idle"
  BY DEF Closes, memory, IdleTask, Typed, TypeOK
<1>2. Always'
  BY <1>1 DEF WordInv, Always, HandlersRead, FlagsKnown
<1>3. ASSUME ~crossed' PROVE Alone'
  <2>1. Alone /\ Apart'
    BY <1>1, <1>3, Uncrossed DEF WordInv
  <2>2. open \subseteq Windows /\ server \subseteq open /\ Handlers \subseteq Tasks /\ "command" \in Tasks
    BY DEF Typed, TypeOK, Handlers, Tasks
  <2>3. HandledFirst' /\ ReadSetting'
    <3>1. HandledFirst'
      <4> SUFFICES ASSUME NEW v \in open', NEW u \in Handlers, view'[v] # setting PROVE task'[v][u].at = "idle"
        BY <1>1, Zenon DEF HandledFirst
      <4>1. v \in open /\ v # w /\ v \in Windows
        BY <1>1, <2>2
      <4>2. view[v] # setting /\ task'[v] = task[v]
        BY <1>1, <4>1, Zenon
      <4> QED
        BY <2>1, <4>1, <4>2, Zenon DEF Alone, HandledFirst
    <3>2. ReadSetting'
      <4> SUFFICES ASSUME NEW v \in Windows, NEW u \in Tasks, task'[v][u].at \in {"bumped", "noted"}
                   PROVE  task'[v][u].enabled = setting
        BY <1>1, Zenon DEF ReadSetting
      <4>1. task'[v] = task[v]
        BY <1>1
      <4> QED
        BY <2>1, <4>1, Zenon DEF Alone, ReadSetting
    <3> QED
      BY <3>1, <3>2
  <2>4. SeenOffOrBumped' => SeenOffOrBumped
    BY <1>1 DEF SeenOffOrBumped
  <2>5. OffForgets' /\ OffIsSeen' /\ OnIsSeen'
    BY <1>1, <2>1, <2>2, <2>4 DEF Alone, OffForgets, OffIsSeen, OnIsSeen
  <2>6. StartsPermitted' /\ RemembersInvited'
    BY <1>1, <2>1, <2>2 DEF Alone, StartsPermitted, RemembersInvited
  <2>7. OffStops' /\ UnwantedStops'
    BY <1>1, <2>1, <2>2 DEF Alone, OffStops, UnwantedStops, StopsSoon
  <2> QED
    BY <2>1, <2>3, <2>5, <2>6, <2>7 DEF Alone
<1> QED
  BY <1>2, <1>3 DEF WordInv

LEMMA StutterWord == ASSUME WordInv, UNCHANGED vars PROVE WordInv'
<1>1. Always'
  BY DEF WordInv, Always, HandlersRead, FlagsKnown, vars, memory, sockets
<1>2. crossed' = crossed /\ (Alone => Alone')
  BY DEF vars, memory, sockets, Alone, Apart, Overlap, StartUnderWay, OffUnderWay, HandledFirst, ReadSetting,
         OffForgets, SeenOffOrBumped, OffIsSeen, OnIsSeen, StartsPermitted, RemembersInvited,
         OffStops, UnwantedStops, StopsSoon
<1> QED
  BY <1>1, <1>2 DEF WordInv

-----------------------------------------------------------------------------
LEMMA WordNext == ASSUME IInv, IInv', WordInv, [Next]_vars PROVE WordInv'
<1>0. Typed /\ Typed'
  BY DEF IInv
<1>1. ASSUME NEW w \in Windows, NEW t \in Tasks, TaskStep(w, t) PROVE WordInv'
  BY <1>0, <1>1, StopWord, NotesWord, HandlerWord DEF TaskStep
<1> QED
  BY <1>0, <1>1, AttemptWord, LearnsWord, StartStepsWord, ClosesWord, CommandWord, TurnsOnWord, ByHandWord,
     StutterWord DEF Next

\* With the types WordInv is inductive.
LEMMA WordInvariance == Spec => [](IInv /\ WordInv)
<1>1. Init => IInv /\ WordInv
  BY InvInit, WordInit
<1>2. IInv /\ WordInv /\ [Next]_vars => IInv' /\ WordInv'
  BY InvNext, WordNext
<1> QED
  BY <1>1, <1>2, PTL DEF Spec

\* In a quiet state every open window knows the setting and nothing is about to be stopped.
LEMMA QuietEnds ==
  ASSUME Typed, Alone, Quiet
  PROVE  /\ \A w \in open : view[w] = setting /\ \A t \in Tasks : task[w][t].at \in {"idle", "dialog"}
         /\ ~setting => server = {} /\ (open # {} => \A w \in Windows : flag[w] # epoch)
<1>1. \A w \in open : view[w] = setting
  BY Zenon DEF Quiet, Handling
<1>2. \A w \in open, t \in Tasks : task[w][t].at \in {"idle", "dialog"}
  BY DEF Quiet, Busy
<1>3. server \subseteq open /\ Slots \subseteq Tasks
  BY DEF Typed, TypeOK, Tasks
<1>4. ASSUME ~setting PROVE server = {}
  <2>1. \A w \in server : ~StopsSoon(w)
    BY <1>2, <1>3 DEF StopsSoon
  <2> QED
    BY <1>1, <1>3, <1>4, <2>1 DEF Alone, OffStops
<1>5. ASSUME ~setting, NEW w \in open PROVE seen = FALSE
  BY <1>1, <1>2, <1>5 DEF Alone, OffIsSeen
<1>6. ASSUME ~setting, open # {} PROVE \A w \in Windows : flag[w] # epoch
  BY <1>5, <1>6 DEF Alone, OffForgets, SeenOffOrBumped
<1> QED
  BY <1>1, <1>2, <1>4, <1>6

(***************************************************************************)
(* A setting that is off, once dealt with, ends every server and every     *)
(* workspace's memory of one, however many windows there are, unless a     *)
(* change of the setting or a start crossed the handling of it.            *)
(***************************************************************************)
THEOREM SettingOffIsKept == Spec => []SettingOffEndsAlone
<1>1. IInv /\ WordInv => SettingOffEndsAlone
  <2> SUFFICES ASSUME Typed, WordInv, ~crossed, Quiet, ~setting, open # {}
               PROVE  server = {} /\ \A w \in Windows : flag[w] # epoch
    BY DEF IInv, SettingOffEndsAlone, SettingOffEnds
  <2> QED
    BY QuietEnds DEF WordInv
<1> QED
  BY WordInvariance, <1>1, PTL

(***************************************************************************)
(* In the same behaviours a server runs only where the user's last word    *)
(* was to start it.                                                        *)
(***************************************************************************)
THEOREM InvitationIsKept == Spec => []RunsByInvitation
<1>1. IInv /\ WordInv => RunsByInvitation
  <2> SUFFICES ASSUME Typed, WordInv, ~crossed, Quiet, NEW w \in server PROVE w \in invited
    BY DEF IInv, RunsByInvitation
  <2>1. Alone /\ w \in open
    BY DEF WordInv, Typed, TypeOK
  <2>2. setting
    BY <2>1, QuietEnds
  <2>3. view[w] /\ \A t \in Tasks : task[w][t].at # "stopping"
    BY <2>1, <2>2, QuietEnds
  <2> QED
    BY <2>1, <2>2, <2>3 DEF Alone, UnwantedStops
<1> QED
  BY WordInvariance, <1>1, PTL
=============================================================================
