-------------------------- MODULE RecordEditorProofs --------------------------
(***************************************************************************)
(* Proofs about RecordEditor: for any records, versions and messages, the  *)
(* page and its host agree on the record of the form, and an edit never    *)
(* overwrites a version its author has not seen, as long as the page waits *)
(* for the answers of its own requests.                                    *)
(***************************************************************************)
EXTENDS RecordEditor, TLAPS

Request == [key : Keys, target : Records, base : Maybe]
Message == [type : Answers, copy : Maybe, of : {"request", "other"}]
Handler == [at : Places, target : MaybeRecord, base : Maybe, modId : Versions \cup {None}, got : Maybe]

(***************************************************************************)
(* What every handler and every message on its way has.                    *)
(***************************************************************************)
Saves == {"dialog", "edit", "conflict", "reread", "refresh"}
Furnished ==
    /\ \A i \in 1..Len(toHost) : toHost[i].key = Write => toHost[i].base \in Copies
    /\ \A i \in 1..Len(toPage) : /\ toPage[i].of = "other" => toPage[i].type = "error"
                                 /\ toPage[i].type \in {"recordLoaded", "recordSaved"} => toPage[i].copy \in Copies
    /\ \A k \in Keys : /\ run[k].at # "idle" => run[k].target \in Records
                       /\ run[k].at \in {"fields", "refresh"} => run[k].got \in Copies
    /\ \A r \in Records : run[r].at \in {"idle", "profile", "fields"}
    /\ run[Write].at # "idle" => run[Write].base \in Copies
    /\ run[Write].at # "fields"

Typed == TypeOK /\ Furnished

-----------------------------------------------------------------------------
\* Queues.
LEMMA AppendEach ==
  ASSUME NEW S, NEW q \in Seq(S), NEW m \in S
  PROVE  /\ Append(q, m) \in Seq(S) /\ Len(Append(q, m)) = Len(q) + 1
         /\ \A i \in 1..Len(q) : Append(q, m)[i] = q[i]
         /\ Append(q, m)[Len(q) + 1] = m
  OBVIOUS

LEMMA TailEach ==
  ASSUME NEW S, NEW q \in Seq(S), q # <<>>
  PROVE  /\ Tail(q) \in Seq(S) /\ Len(q) > 0 /\ Len(Tail(q)) = Len(q) - 1
         /\ \A i \in 1..Len(Tail(q)) : Tail(q)[i] = q[i + 1]
         /\ Head(q) = q[1] /\ Head(q) \in S
  OBVIOUS

-----------------------------------------------------------------------------
LEMMA TypedInit == ASSUME Init PROVE Typed
<1>1. Idle \in Handler
  BY DEF Idle, Handler, Places, MaybeRecord, Maybe
<1>2. run \in [Keys -> Handler] /\ version \in [Records -> Versions]
  BY <1>1 DEF Init, Versions
<1>3. toHost \in Seq(Request) /\ toPage \in Seq(Message)
  BY DEF Init
<1>4. TypeOK
  BY <1>2, <1>3 DEF Init, TypeOK, Maybe, Request, Message, Handler
<1>5. Furnished
  BY DEF Init, Furnished, Keys, Idle
<1> QED
  BY <1>4, <1>5 DEF Typed

LEMMA TypedNext == ASSUME Typed, [Next]_vars PROVE Typed'
<1> USE EditorAssumption DEF page, server, history
<1>0. /\ toHost \in Seq(Request) /\ toPage \in Seq(Message) /\ run \in [Keys -> Handler]
      /\ shown \in Maybe /\ input \in Records /\ busy \in BOOLEAN /\ loaded \in Maybe /\ saving \in BOOLEAN
      /\ version \in [Records -> Versions]
      /\ written \in [target : Records, base : Copies, over : Versions] \cup {None}
      /\ errors \in Nat /\ astray \in BOOLEAN
      /\ Furnished
  BY DEF Typed, TypeOK, Request, Message, Handler
<1>1. ASSUME /\ toHost' \in Seq(Request) /\ toPage' \in Seq(Message) /\ run' \in [Keys -> Handler]
             /\ shown' \in Maybe /\ input' \in Records /\ busy' \in BOOLEAN /\ loaded' \in Maybe /\ saving' \in BOOLEAN
             /\ version' \in [Records -> Versions]
             /\ written' \in [target : Records, base : Copies, over : Versions] \cup {None}
             /\ errors' \in Nat /\ astray' \in BOOLEAN
             /\ Furnished'
      PROVE  Typed'
  BY <1>1 DEF Typed, TypeOK, Request, Message, Handler
<1>2. ASSUME NEW r \in Records, TypesId(r) PROVE Typed'
  BY <1>0, <1>1, <1>2 DEF TypesId, Furnished
<1>3. ASSUME NEW m \in Request, m.key = Write => m.base \in Copies, Posts(m) PROVE Typed'
  <2>1. toHost' = Append(toHost, m) /\ toHost' \in Seq(Request)
    BY <1>0, <1>3, AppendEach DEF Posts
  <2>2. Furnished'
    BY <1>0, <1>3, <2>1, AppendEach DEF Posts, Furnished
  <2> QED
    BY <1>0, <1>1, <1>3, <2>1, <2>2 DEF Posts
<1>4. CASE ClicksLoad
  BY <1>0, <1>3, <1>4 DEF ClicksLoad, Request, Keys, Maybe
<1>5. CASE ClicksSave
  BY <1>0, <1>3, <1>5 DEF ClicksSave, Request, Keys, Maybe
<1>6. CASE Receives
  <2>1. /\ toPage' \in Seq(Message) /\ Head(toPage) \in Message
        /\ Len(toPage') = Len(toPage) - 1 /\ Len(toPage) > 0 /\ \A i \in 1..Len(toPage') : toPage'[i] = toPage[i + 1]
    BY <1>0, <1>6, TailEach DEF Receives
  <2>2. Furnished'
    BY <1>0, <1>6, <2>1 DEF Receives, Furnished
  <2>3. shown' \in Maybe
    BY <1>0, <1>6, <2>1 DEF Receives, Message
  <2> QED
    BY <1>0, <1>1, <1>6, <2>1, <2>2, <2>3 DEF Receives
\* A message to the page.
<1>7. ASSUME NEW m \in Message, toPage' = Append(toPage, m),
             m.of = "other" => m.type = "error", m.type \in {"recordLoaded", "recordSaved"} => m.copy \in Copies
      PROVE  /\ toPage' \in Seq(Message)
             /\ \A i \in 1..Len(toPage') :
                  /\ toPage'[i].of = "other" => toPage'[i].type = "error"
                  /\ toPage'[i].type \in {"recordLoaded", "recordSaved"} => toPage'[i].copy \in Copies
  BY <1>0, <1>7, AppendEach DEF Furnished
<1>8. ASSUME NEW type \in Answers, NEW copy \in Maybe, Says(type, copy),
             type \in {"recordLoaded", "recordSaved"} => copy \in Copies
      PROVE  /\ toPage' \in Seq(Message)
             /\ \A i \in 1..Len(toPage') :
                  /\ toPage'[i].of = "other" => toPage'[i].type = "error"
                  /\ toPage'[i].type \in {"recordLoaded", "recordSaved"} => toPage'[i].copy \in Copies
  BY <1>7, <1>8 DEF Says, Message
<1>9. CASE Dispatch
  <2> DEFINE m == Head(toHost)
             request == [Idle EXCEPT !.at = "profile", !.target = m.target, !.base = m.base]
  <2>1. /\ toHost' \in Seq(Request) /\ m \in Request /\ m = toHost[1]
        /\ Len(toHost') = Len(toHost) - 1 /\ Len(toHost) > 0 /\ \A i \in 1..Len(toHost') : toHost'[i] = toHost[i + 1]
    BY <1>0, <1>9, TailEach DEF Dispatch
  <2>2. request \in Handler /\ request.at = "profile" /\ request.target \in Records /\ request.base = m.base
    BY <2>1 DEF Idle, Request, Handler, Places, MaybeRecord, Maybe
  <2>3. m.key \in Keys /\ (m.key = Write => m.base \in Copies)
    BY <1>0, <2>1 DEF Request, Furnished
  <2> HIDE DEF request, m
  <2>4. CASE UNCHANGED <<run, toPage>>
    BY <1>0, <1>1, <1>9, <2>1, <2>4 DEF Dispatch, Furnished
  <2>5. CASE PostsError /\ UNCHANGED run
    BY <1>0, <1>1, <1>8, <1>9, <2>1, <2>5 DEF Dispatch, PostsError, Furnished, Answers, Maybe
  <2>6. CASE run' = [run EXCEPT ![m.key] = request] /\ UNCHANGED toPage
    <3>1. Furnished'
      BY <1>0, <1>9, <2>1, <2>2, <2>3, <2>6 DEF Dispatch, Furnished, Keys
    <3> QED
      BY <1>0, <1>1, <1>9, <2>1, <2>2, <2>3, <2>6, <3>1 DEF Dispatch
  <2> QED
    BY <1>9, <2>4, <2>5, <2>6 DEF Dispatch, m, request
\* A handler moves on.
<1>11. ASSUME NEW k \in Keys, NEW h \in Handler, run' = [run EXCEPT ![k] = h], run[k].at # "idle",
              h.target = run[k].target, h.base = run[k].base, h.at \in {"fields", "refresh"} => h.got \in Copies,
              IF k = Write THEN h.at \in Saves ELSE h.at = "fields",
              UNCHANGED <<toHost, toPage>>
       PROVE  run' \in [Keys -> Handler] /\ Furnished'
  <2>1. run' \in [Keys -> Handler] /\ run'[k] = h /\ \A i \in Keys : i # k => run'[i] = run[i]
    BY <1>0, <1>11
  <2>2. Write \in Keys /\ Records \subseteq Keys
    BY DEF Keys
  <2> QED
    BY <1>0, <1>11, <2>1, <2>2 DEF Furnished, Saves
<1>10. ASSUME NEW r \in Records, LoadStep(r) PROVE Typed'
  <2>1. CASE RecordRead(r)
    <3>0. Copy(r) \in Copies
      BY <1>0 DEF Copy, Copies
    <3> DEFINE h == [run[r] EXCEPT !.at = "fields", !.got = Copy(r)]
    <3>1. h \in Handler /\ run' = [run EXCEPT ![r] = h] /\ run[r].at # "idle"
      BY <1>0, <2>1, <3>0 DEF RecordRead, Handler, Places, Keys, Maybe
    <3>2. run' \in [Keys -> Handler] /\ Furnished'
      BY <1>0, <1>11, <2>1, <3>0, <3>1 DEF RecordRead, Handler, Keys
    <3> QED
      BY <1>0, <1>1, <2>1, <3>2 DEF RecordRead
  <2>2. CASE RecordLoaded(r)
    <3>1. Furnished' /\ toPage' \in Seq(Message)
      BY <1>0, <1>8, <2>2 DEF RecordLoaded, Finishes, Idle, Maybe, Answers, Furnished, Keys
    <3> QED
      BY <1>0, <1>1, <2>2, <3>1 DEF RecordLoaded, Finishes, Idle, Maybe, Handler, Places, MaybeRecord, Keys, Furnished
  <2>3. CASE LoadFails(r)
    <3>1. Furnished' /\ toPage' \in Seq(Message)
      BY <1>0, <1>8, <2>3 DEF LoadFails, PostsError, Finishes, Idle, Maybe, Answers, Furnished, Keys
    <3> QED
      BY <1>0, <1>1, <2>3, <3>1 DEF LoadFails, Finishes, Idle, Maybe, Handler, Places, MaybeRecord, Keys
  <2> QED
    BY <1>10, <2>1, <2>2, <2>3 DEF LoadStep
\* A save's handler ends with a word to the page.
<1>12. ASSUME Finishes(Write), NEW type \in Answers, NEW copy \in Maybe, Says(type, copy),
              type \in {"recordLoaded", "recordSaved"} => copy \in Copies, UNCHANGED toHost
       PROVE  run' \in [Keys -> Handler] /\ toPage' \in Seq(Message) /\ Furnished'
  <2>1. run' \in [Keys -> Handler]
    BY <1>0, <1>12 DEF Finishes, Idle, Handler, Places, MaybeRecord, Maybe, Keys
  <2> QED
    BY <1>0, <1>8, <1>12, <2>1 DEF Finishes, Idle, Furnished, Keys
<1>13. CASE SaveStep
  <2> USE DEF save, Answers, Maybe
  <2>1. CASE SaveChecks
    <3> DEFINE h == [run[Write] EXCEPT !.at = "dialog", !.modId = loaded.version]
    <3>1. h \in Handler /\ run' = [run EXCEPT ![Write] = h] /\ run[Write].at # "idle"
      BY <1>0, <2>1, ZenonT(30) DEF SaveChecks, Moves, Handler, Places, Keys, Copies
    <3>2. run' \in [Keys -> Handler] /\ Furnished'
      BY <1>0, <1>11, <2>1, <3>1 DEF SaveChecks, Handler, Keys, Saves
    <3> QED
      BY <1>0, <1>1, <2>1, <3>2 DEF SaveChecks
  <2>2. CASE SaveRefused \/ UserCancels
    BY <1>0, <1>1, <1>12, <2>2 DEF SaveRefused, UserCancels, PostsError
  <2>3. CASE UserConfirms
    <3> DEFINE h == [run[Write] EXCEPT !.at = "edit"]
    <3>1. h \in Handler /\ run' = [run EXCEPT ![Write] = h] /\ run[Write].at # "idle"
      BY <1>0, <2>3, ZenonT(30) DEF UserConfirms, Moves, Handler, Places, Keys, Copies
    <3>2. run' \in [Keys -> Handler] /\ Furnished'
      BY <1>0, <1>11, <2>3, <3>1 DEF UserConfirms, Handler, Keys, Saves
    <3> QED
      BY <1>0, <1>1, <2>3, <3>2 DEF UserConfirms
  <2>4. ASSUME Edited, save.target \in Records, save.base \in Copies
        PROVE  version' \in [Records -> Versions] /\ written' \in [target : Records, base : Copies, over : Versions] \cup {None}
    BY <1>0, <2>4 DEF Edited, Versions
  <2>5. CASE EditAccepted
    <3>1. save.target \in Records /\ save.base \in Copies
      BY <1>0, <2>5 DEF EditAccepted, Furnished, Keys
    <3> DEFINE h == [run[Write] EXCEPT !.at = "reread"]
    <3>2. h \in Handler /\ run' = [run EXCEPT ![Write] = h] /\ run[Write].at # "idle"
      BY <1>0, <2>5 DEF EditAccepted, Moves, Handler, Places, Keys
    <3>3. run' \in [Keys -> Handler] /\ Furnished'
      BY <1>0, <1>11, <2>5, <3>2 DEF EditAccepted, Handler, Keys, Saves
    <3> QED
      BY <1>0, <1>1, <2>4, <2>5, <3>1, <3>3 DEF EditAccepted
  <2>6. CASE EditRefused
    <3> DEFINE h == [run[Write] EXCEPT !.at = "conflict"]
    <3>1. h \in Handler /\ run' = [run EXCEPT ![Write] = h] /\ run[Write].at # "idle"
      BY <1>0, <2>6, ZenonT(30) DEF EditRefused, Moves, Handler, Places, Keys, Copies
    <3>2. run' \in [Keys -> Handler] /\ Furnished'
      BY <1>0, <1>11, <2>6, <3>1 DEF EditRefused, Handler, Keys, Saves
    <3> QED
      BY <1>0, <1>1, <2>6, <3>2 DEF EditRefused
  <2>7. CASE EditFails
    <3>1. save.target \in Records /\ save.base \in Copies
      BY <1>0, <2>7 DEF EditFails, Furnished, Keys
    <3>2. run' \in [Keys -> Handler] /\ toPage' \in Seq(Message) /\ Furnished'
      BY <1>12, <2>7 DEF EditFails, PostsError
    <3>3. version' \in [Records -> Versions] /\ written' \in [target : Records, base : Copies, over : Versions] \cup {None}
      BY <1>0, <2>4, <2>7, <3>1 DEF EditFails
    <3> QED
      BY <1>0, <1>1, <2>7, <3>2, <3>3 DEF EditFails
  <2>8. CASE ConflictReported
    BY <1>0, <1>1, <1>12, <2>8 DEF ConflictReported
  <2>9. CASE Reread
    <3>0. Copy(save.target) \in Copies
      BY <1>0, <2>9 DEF Reread, Copy, Copies, Furnished, Keys
    <3> DEFINE h == [run[Write] EXCEPT !.at = "refresh", !.got = Copy(save.target)]
    <3>1. h \in Handler /\ run' = [run EXCEPT ![Write] = h] /\ run[Write].at # "idle"
      BY <1>0, <2>9, <3>0 DEF Reread, Handler, Places, Keys
    <3>2. run' \in [Keys -> Handler] /\ Furnished'
      BY <1>0, <1>11, <2>9, <3>0, <3>1 DEF Reread, Handler, Keys, Saves
    <3> QED
      BY <1>0, <1>1, <2>9, <3>2 DEF Reread
  <2>10. CASE Refreshed
    <3>1. save.got \in Copies
      BY <1>0, <2>10 DEF Refreshed, Furnished, Keys
    <3> QED
      BY <1>0, <1>1, <1>12, <2>10, <3>1 DEF Refreshed
  <2>11. CASE RereadFails
    BY <1>0, <1>1, <1>12, <2>11 DEF RereadFails, PostsError
  <2> QED
    BY <1>13, <2>1, <2>2, <2>3, <2>5, <2>6, <2>7, <2>8, <2>9, <2>10, <2>11 DEF SaveStep
<1>14. ASSUME NEW r \in Records, OtherEdit(r) PROVE Typed'
  BY <1>0, <1>1, <1>14 DEF OtherEdit, Versions, Furnished
<1>15. CASE OtherRequestFails
  BY <1>0, <1>1, <1>7, <1>15 DEF OtherRequestFails, Message, Answers, Maybe, Furnished
<1>16. CASE UNCHANGED vars
  BY <1>0, <1>1, <1>16 DEF vars, Furnished
<1> QED
  BY <1>2, <1>4, <1>5, <1>6, <1>9, <1>10, <1>13, <1>14, <1>15, <1>16 DEF Next

(***************************************************************************)
(* The types of the editor's host and page, for any records, any number of *)
(* versions and any messages in flight.                                    *)
(***************************************************************************)
THEOREM EditorTypes == Spec => []TypeOK
<1>1. Typed => TypeOK
  BY DEF Typed
<1> QED
  BY TypedInit, TypedNext, <1>1, PTL DEF Spec

-----------------------------------------------------------------------------
(***************************************************************************)
(* The inductive invariant.  As long as the page waits for the answers of  *)
(* its own requests, a busy page has one request, which is a message to    *)
(* the host, a handler or a message to the page; a page that is not busy   *)
(* has none.                                                               *)
(***************************************************************************)
Agree == loaded # None => shown = loaded
AllIdle == \A k \in Keys : run[k].at = "idle"
NoAnswer == \A i \in 1..Len(toPage) : toPage[i].of = "other"

Resting == ~busy /\ toHost = <<>> /\ AllIdle /\ NoAnswer /\ Agree

\* The request is on its way; a save carries the record of the form.
Posted ==
    /\ busy /\ AllIdle /\ NoAnswer /\ Agree
    /\ Len(toHost) = 1
    /\ toHost[1].key = Write => toHost[1].base = shown

\* The handler of key k runs.
Handled(k) ==
    /\ busy /\ toHost = <<>> /\ NoAnswer /\ Agree
    /\ \A i \in Keys : run[i].at # "idle" <=> i = k
    /\ k = Write /\ run[k].at = "profile" => run[k].base = shown
    /\ k = Write /\ run[k].at \in {"dialog", "edit"} =>
         run[k].base = [record |-> run[k].target, version |-> run[k].modId]

\* The answer is on its way to the page.
Answered(i) ==
    /\ busy /\ toHost = <<>> /\ AllIdle
    /\ toPage[i].of = "request" /\ \A j \in 1..Len(toPage) : j # i => toPage[j].of = "other"
    /\ IF toPage[i].type \in {"recordLoaded", "recordSaved"} THEN toPage[i].copy = loaded ELSE Agree

OneRequest ==
    \/ Resting \/ Posted
    \/ \E k \in Keys : Handled(k)
    \/ \E i \in 1..Len(toPage) : Answered(i)

IInv == Typed /\ (~astray => OneRequest /\ NoLostUpdate)

LEMMA InvInit == ASSUME Init PROVE IInv
<1>1. Len(toPage) = 0 /\ AllIdle
  BY DEF Init, AllIdle, Idle
<1>2. Resting
  BY <1>1 DEF Init, Resting, NoAnswer, Agree
<1> QED
  BY <1>2, TypedInit DEF Init, IInv, OneRequest, NoLostUpdate

-----------------------------------------------------------------------------
\* Only a handler that waits there takes a step of its own.
LEMMA HandlerOf == ASSUME OneRequest, NEW k \in Keys, run[k].at # "idle" PROVE Handled(k)
  BY DEF OneRequest, Resting, Posted, Handled, Answered, AllIdle

\* A handler ends with a word to the page.
LEMMA Answering ==
  ASSUME Typed, NEW k \in Keys, Handled(k), Finishes(k), NEW type \in Answers, NEW copy \in Maybe, Says(type, copy),
         UNCHANGED <<shown, busy, toHost>>,
         IF type \in {"recordLoaded", "recordSaved"} THEN copy = loaded' ELSE Agree'
  PROVE  OneRequest'
<1> DEFINE m == [type |-> type, copy |-> copy, of |-> "request"]
<1>0. toPage \in Seq(Message) /\ m \in Message
  BY DEF Typed, TypeOK, Message
<1>1. PICK n \in Nat : /\ n = Len(toPage) + 1 /\ Len(toPage') = n
                       /\ \A i \in 1..Len(toPage) : toPage'[i] = toPage[i]
                       /\ toPage'[n] = m
  BY <1>0, AppendEach DEF Says
<1>2. AllIdle'
  BY DEF Typed, TypeOK, Handled, Finishes, AllIdle, Idle
<1>3. Answered(n)'
  <2>1. \A j \in 1..Len(toPage') : j # n => toPage'[j].of = "other"
    BY <1>0, <1>1 DEF Handled, NoAnswer
  <2>2. busy' /\ toHost' = <<>>
    BY DEF Handled
  <2>3. toPage'[n] = m /\ m.of = "request" /\ m.type = type /\ m.copy = copy
    BY <1>1
  <2> HIDE DEF m
  <2> QED
    BY <1>2, <2>1, <2>2, <2>3 DEF Answered
<1>4. n \in 1..Len(toPage')
  BY <1>1
<1> QED
  BY <1>3, <1>4 DEF OneRequest

\* A handler moves on to a place where it still is one.
LEMMA Going ==
  ASSUME Typed, NEW k \in Keys, Handled(k), NEW h, run' = [run EXCEPT ![k] = h], h.at # "idle",
         UNCHANGED <<shown, busy, toHost, toPage, loaded>>,
         k = Write /\ h.at = "profile" => h.base = shown,
         k = Write /\ h.at \in {"dialog", "edit"} => h.base = [record |-> h.target, version |-> h.modId]
  PROVE  OneRequest'
<1>1. run'[k] = h /\ \A i \in Keys : i # k => run'[i] = run[i]
  BY DEF Typed, TypeOK
<1>2. NoAnswer' /\ Agree'
  BY DEF Handled, NoAnswer, Agree
<1>3. Handled(k)'
  BY <1>1, <1>2 DEF Handled
<1> QED
  BY <1>3 DEF OneRequest

\* Nothing of the request changes but what the page may be told of others.
LEMMA Others ==
  ASSUME Typed, OneRequest, UNCHANGED <<shown, busy, toHost, run, loaded>>,
         UNCHANGED toPage \/ (\E m \in Message : m.of = "other" /\ toPage' = Append(toPage, m))
  PROVE  OneRequest'
<1>1. /\ Len(toPage) \in Nat /\ Len(toPage) <= Len(toPage') /\ Len(toPage') \in Nat
      /\ \A i \in 1..Len(toPage) : toPage'[i] = toPage[i]
      /\ \A i \in 1..Len(toPage') : i > Len(toPage) => toPage'[i].of = "other"
  <2>1. toPage \in Seq(Message)
    BY DEF Typed, TypeOK, Message
  <2>2. CASE UNCHANGED toPage
    BY <2>1, <2>2
  <2>3. ASSUME NEW m \in Message, m.of = "other", toPage' = Append(toPage, m) 
        PROVE  /\ Len(toPage) \in Nat /\ Len(toPage) <= Len(toPage') /\ Len(toPage') \in Nat
               /\ \A i \in 1..Len(toPage) : toPage'[i] = toPage[i]
               /\ \A i \in 1..Len(toPage') : i > Len(toPage) => toPage'[i].of = "other"
    BY <2>1, <2>3, AppendEach
  <2> QED
    BY <2>2, <2>3
<1>2. NoAnswer => NoAnswer'
  BY <1>1 DEF NoAnswer
<1>3. CASE Resting
  BY <1>2, <1>3 DEF OneRequest, Resting, AllIdle, Agree
<1>4. CASE Posted
  BY <1>2, <1>4 DEF OneRequest, Posted, AllIdle, Agree
<1>5. ASSUME NEW k \in Keys, Handled(k) PROVE OneRequest'
  BY <1>2, <1>5 DEF OneRequest, Handled, Agree
<1>6. ASSUME NEW i \in 1..Len(toPage), Answered(i) PROVE OneRequest'
  <2>1. Answered(i)' /\ i \in 1..Len(toPage')
    BY <1>1, <1>6 DEF Answered, AllIdle, Agree
  <2> QED
    BY <2>1 DEF OneRequest
<1> QED
  BY <1>3, <1>4, <1>5, <1>6 DEF OneRequest

LEMMA InvNext == ASSUME IInv, [Next]_vars PROVE IInv'
<1> USE EditorAssumption DEF page, server, history
<1>1. Typed /\ Typed'
  BY TypedNext DEF IInv
<1>2. astray' = FALSE => astray = FALSE
  BY <1>1 DEF Next, vars, TypesId, ClicksLoad, ClicksSave, Posts, Receives, Dispatch, LoadStep, RecordRead, RecordLoaded,
     LoadFails, SaveStep, SaveChecks, SaveRefused, UserCancels, UserConfirms, EditAccepted, EditRefused, EditFails,
     ConflictReported, Reread, Refreshed, RereadFails, OtherEdit, OtherRequestFails, Typed, TypeOK
<1>3. SUFFICES ASSUME OneRequest, NoLostUpdate, astray' = FALSE PROVE OneRequest' /\ NoLostUpdate'
  BY <1>1, <1>2 DEF IInv, Typed, TypeOK
<1> USE <1>1, <1>3 DEF Answers, Maybe
<1>4. ASSUME NEW r \in Records, TypesId(r) \/ OtherEdit(r) PROVE OneRequest' /\ NoLostUpdate'
  BY <1>4, Others DEF TypesId, OtherEdit, NoLostUpdate
<1>5. ASSUME NEW m \in Request, m.key = Write => m.base = shown, Posts(m) PROVE OneRequest' /\ NoLostUpdate'
  <2>1. Resting
    BY <1>5 DEF Posts, OneRequest, Posted, Handled, Answered
  <2>2. toHost' = <<m>>
    BY <1>5, <2>1 DEF Posts, Resting
  <2>3. Posted'
    BY <1>5, <2>1, <2>2 DEF Posts, Resting, Posted, AllIdle, NoAnswer, Agree
  <2> QED
    BY <1>5, <2>3 DEF Posts, OneRequest, NoLostUpdate
<1>6. CASE ClicksLoad \/ ClicksSave
  BY <1>5, <1>6 DEF ClicksLoad, ClicksSave, Request, Keys, Typed, TypeOK
<1>7. CASE Receives
  <2> DEFINE message == Head(toPage)
  <2>1. /\ Len(toPage) > 0 /\ message = toPage[1] /\ message \in Message /\ Len(toPage) \in Nat
        /\ Len(toPage') = Len(toPage) - 1 /\ \A i \in 1..Len(toPage') : toPage'[i] = toPage[i + 1]
    <3>1. toPage \in Seq(Message) /\ toPage # <<>> /\ toPage' = Tail(toPage)
      BY <1>7 DEF Receives, Typed, TypeOK, Message
    <3> QED
      BY <3>1, TailEach
  <2>2. /\ busy' = FALSE /\ astray' = (astray \/ (message.of = "other" /\ busy))
        /\ shown' = IF message.type \in {"recordLoaded", "recordSaved"} THEN message.copy ELSE shown
        /\ UNCHANGED <<toHost, loaded, run, written>>
    BY <1>7 DEF Receives
  <2> HIDE DEF message
  <2>3. CASE message.of = "other"
    <3>1. busy = FALSE /\ message.type = "error"
      BY <2>1, <2>2, <2>3 DEF Typed, TypeOK, Furnished
    <3>2. Resting
      BY <3>1 DEF OneRequest, Posted, Handled, Answered
    <3>3. Resting'
      BY <2>1, <2>2, <3>1, <3>2 DEF Resting, AllIdle, NoAnswer, Agree
    <3> QED
      BY <2>2, <3>3 DEF OneRequest, NoLostUpdate
  <2>4. CASE message.of = "request"
    <3>1. ~NoAnswer
      BY <2>1, <2>4 DEF NoAnswer
    <3>2. PICK i \in 1..Len(toPage) : Answered(i)
      BY <3>1 DEF OneRequest, Resting, Posted, Handled
    <3>3. i = 1
      BY <2>1, <2>4, <3>2 DEF Answered
    <3>4. NoAnswer' /\ Agree'
      BY <2>1, <2>2, <3>2, <3>3 DEF Answered, NoAnswer, Agree
    <3>5. Resting'
      BY <2>2, <3>2, <3>4 DEF Answered, Resting, AllIdle
    <3> QED
      BY <2>2, <3>5 DEF OneRequest, NoLostUpdate
  <2> QED
    BY <2>1, <2>3, <2>4 DEF Message
<1>8. CASE Dispatch
  <2> DEFINE m == Head(toHost)
             request == [Idle EXCEPT !.at = "profile", !.target = m.target, !.base = m.base]
  <2>1. toHost \in Seq(Request) /\ toHost # <<>>
    BY <1>8 DEF Dispatch, Typed, TypeOK, Request
  <2>2. /\ m \in Request /\ m = toHost[1] /\ Len(toHost') = Len(toHost) - 1 /\ toHost' \in Seq(Request)
    BY <1>8, <2>1, TailEach DEF Dispatch
  <2>3. Posted
    BY <2>1 DEF OneRequest, Resting, Handled, Answered
  <2>5. toHost' = <<>> /\ m.key \in Keys /\ run[m.key].at = "idle"
    BY <2>2, <2>3 DEF Posted, AllIdle, Request
  <2>6. request.at = "profile" /\ request.base = m.base
    BY DEF Idle
  <2> HIDE DEF m, request
  <2>7. CASE PostsError /\ UNCHANGED run
    <3>1. toPage \in Seq(Message) /\ [type |-> "error", copy |-> None, of |-> "request"] \in Message
      BY DEF Typed, TypeOK, Message
    <3>2. PICK n \in Nat : /\ n = Len(toPage) + 1 /\ Len(toPage') = n
                           /\ \A i \in 1..Len(toPage) : toPage'[i] = toPage[i]
                           /\ toPage'[n] = [type |-> "error", copy |-> None, of |-> "request"]
      BY <2>7, <3>1, AppendEach DEF PostsError, Says
    <3>3. Answered(n)'
      <4>1. \A j \in 1..Len(toPage') : j # n => toPage'[j].of = "other"
        BY <2>3, <3>1, <3>2 DEF Posted, NoAnswer
      <4>2. busy' /\ AllIdle' /\ Agree'
        BY <1>8, <2>3, <2>7 DEF Dispatch, Posted, AllIdle, Agree
      <4>3. toPage'[n].of = "request" /\ toPage'[n].type = "error"
        BY <3>2
      <4> QED
        BY <2>5, <4>1, <4>2, <4>3 DEF Answered
    <3> QED
      BY <1>8, <3>2, <3>3 DEF Dispatch, OneRequest, NoLostUpdate
  <2>8. CASE run' = [run EXCEPT ![m.key] = request] /\ UNCHANGED toPage
    <3>1. PICK k \in Keys : k = m.key
      BY <2>5
    <3>2. run'[k] = request /\ \A i \in Keys : i # k => run'[i] = run[i]
      BY <2>8, <3>1 DEF Typed, TypeOK
    <3>3. k = Write => request.base = shown
      BY <2>2, <2>3, <2>6, <3>1 DEF Posted
    <3>4. NoAnswer' /\ Agree' /\ busy' /\ toHost' = <<>>
      BY <1>8, <2>3, <2>5, <2>8 DEF Dispatch, Posted, NoAnswer, Agree
    <3>5. Handled(k)'
      BY <1>8, <2>3, <2>6, <3>2, <3>3, <3>4 DEF Dispatch, Posted, Handled, AllIdle
    <3> QED
      BY <1>8, <3>5 DEF Dispatch, OneRequest, NoLostUpdate
  <2> QED
    BY <1>8, <2>5, <2>7, <2>8 DEF Dispatch, m, request
<1>9. ASSUME NEW r \in Records, LoadStep(r) PROVE OneRequest' /\ NoLostUpdate'
  <2>1. r \in Keys /\ r # Write /\ Handled(r)
    BY <1>9, HandlerOf DEF Keys, LoadStep, RecordRead, RecordLoaded, LoadFails
  <2>2. CASE RecordRead(r)
    <3> DEFINE h == [run[r] EXCEPT !.at = "fields", !.got = Copy(r)]
    <3>1. run' = [run EXCEPT ![r] = h] /\ h.at = "fields"
      BY <2>1, <2>2 DEF RecordRead, Typed, TypeOK
    <3> QED
      BY <2>1, <2>2, <3>1, Going DEF RecordRead, NoLostUpdate
  <2>3. CASE RecordLoaded(r)
    BY <2>1, <2>3, Answering DEF RecordLoaded, NoLostUpdate, Typed, TypeOK
  <2>4. CASE LoadFails(r)
    BY <2>1, <2>4, Answering DEF LoadFails, PostsError, NoLostUpdate, Handled, Agree
  <2> QED
    BY <1>9, <2>2, <2>3, <2>4 DEF LoadStep
<1>10. CASE SaveStep
  <2>1. Write \in Keys /\ save.at # "idle" /\ Handled(Write)
    BY <1>10, HandlerOf DEF Keys, SaveStep, save, SaveChecks, SaveRefused, UserCancels, UserConfirms, EditAccepted,
       EditRefused, EditFails, ConflictReported, Reread, Refreshed, RereadFails
  <2>2. Agree
    BY <2>1 DEF Handled
  \* An edit the server accepts is made from the version it replaces.
  <2>3. ASSUME save.at = "edit", Matches, Edited PROVE NoLostUpdate'
    <3>1. save.base = [record |-> save.target, version |-> save.modId]
      BY <2>1, <2>3 DEF Handled, save
    <3>2. written' = [target |-> save.target, base |-> save.base, over |-> version[save.target]]
      BY <2>3 DEF Edited
    <3> QED
      BY <2>3, <3>1, <3>2 DEF Matches, NoLostUpdate
  <2>4. CASE SaveChecks
    <3> DEFINE h == [save EXCEPT !.at = "dialog", !.modId = loaded.version]
    <3>1. run' = [run EXCEPT ![Write] = h] /\ h.at = "dialog" /\ h.modId = loaded.version
          /\ h.base = save.base /\ h.target = save.target
      BY <2>1, <2>4 DEF SaveChecks, save, Typed, TypeOK
    <3>2. save.base = loaded /\ loaded \in Copies
      BY <2>1, <2>2, <2>4 DEF SaveChecks, Handled, Agree, save, Typed, TypeOK
    <3>3. h.base = [record |-> h.target, version |-> h.modId]
      BY <2>4, <3>1, <3>2 DEF SaveChecks, Copies
    <3> HIDE DEF h
    <3> QED
      BY <2>1, <2>4, <3>1, <3>3, Going DEF SaveChecks, NoLostUpdate
  <2>5. CASE SaveRefused \/ UserCancels \/ ConflictReported
    BY <2>1, <2>2, <2>5, Answering DEF SaveRefused, UserCancels, ConflictReported, PostsError, NoLostUpdate, Agree
  <2>6. CASE UserConfirms
    <3> DEFINE h == [save EXCEPT !.at = "edit"]
    <3>1. run' = [run EXCEPT ![Write] = h] /\ h.at = "edit"
          /\ h.base = save.base /\ h.target = save.target /\ h.modId = save.modId
      BY <2>1, <2>6 DEF UserConfirms, Moves, save, Typed, TypeOK
    <3>2. save.base = [record |-> save.target, version |-> save.modId]
      BY <2>1, <2>6 DEF UserConfirms, Handled, save
    <3> HIDE DEF h
    <3> QED
      BY <2>1, <2>6, <3>1, <3>2, Going DEF UserConfirms, NoLostUpdate
  <2>7. CASE EditAccepted \/ EditRefused
    <3>1. PICK where \in {"reread", "conflict"} : run' = [run EXCEPT ![Write].at = where]
      BY <2>7 DEF EditAccepted, EditRefused, Moves
    <3> DEFINE h == [save EXCEPT !.at = where]
    <3>2. run' = [run EXCEPT ![Write] = h] /\ h.at = where
      BY <2>1, <3>1 DEF save, Typed, TypeOK
    <3> HIDE DEF h
    <3>3. OneRequest'
      BY <2>1, <2>7, <3>2, Going DEF EditAccepted, EditRefused
    <3>4. NoLostUpdate'
      BY <2>3, <2>7 DEF EditAccepted, EditRefused, NoLostUpdate
    <3> QED
      BY <3>3, <3>4
  <2>8. CASE EditFails
    <3>1. OneRequest'
      BY <2>1, <2>2, <2>8, Answering DEF EditFails, PostsError, Agree
    <3>2. NoLostUpdate'
      BY <2>3, <2>8 DEF EditFails, NoLostUpdate
    <3> QED
      BY <3>1, <3>2
  <2>9. CASE Reread
    <3> DEFINE h == [save EXCEPT !.at = "refresh", !.got = Copy(save.target)]
    <3>1. run' = [run EXCEPT ![Write] = h] /\ h.at = "refresh"
      BY <2>1, <2>9 DEF Reread, save, Typed, TypeOK
    <3> HIDE DEF h
    <3> QED
      BY <2>1, <2>9, <3>1, Going DEF Reread, NoLostUpdate
  <2>10. CASE Refreshed
    BY <2>1, <2>10, Answering DEF Refreshed, save, NoLostUpdate, Typed, TypeOK
  <2>11. CASE RereadFails
    BY <2>1, <2>11, Answering DEF RereadFails, PostsError, NoLostUpdate, Agree
  <2> QED
    BY <1>10, <2>4, <2>5, <2>6, <2>7, <2>8, <2>9, <2>10, <2>11 DEF SaveStep
<1>11. CASE OtherRequestFails
  BY <1>11, Others DEF OtherRequestFails, Message, NoLostUpdate
<1>12. CASE UNCHANGED vars
  BY <1>12, Others DEF vars, NoLostUpdate
<1> QED
  BY <1>4, <1>6, <1>7, <1>8, <1>9, <1>10, <1>11, <1>12 DEF Next

\* IInv is inductive, so every state the program reaches satisfies it.
LEMMA Invariance == Spec => []IInv
  BY InvInit, InvNext, PTL DEF Spec

-----------------------------------------------------------------------------
(***************************************************************************)
(* An edit the server accepts replaces the very version its author saw,    *)
(* unless an error of another request ended the page's wait.               *)
(***************************************************************************)
THEOREM NothingOverwrittenUnseen == Spec => []NoLostUpdateWhileWaiting
<1>1. IInv => NoLostUpdateWhileWaiting
  BY DEF IInv, NoLostUpdateWhileWaiting
<1> QED
  BY Invariance, <1>1, PTL

(***************************************************************************)
(* A page that waits for nothing shows the record its host checks against. *)
(***************************************************************************)
THEOREM FormAndHostAgree == Spec => []PageAndHostAgree
<1>1. IInv => PageAndHostAgree
  BY DEF IInv, PageAndHostAgree, OneRequest, Resting, Posted, Handled, Answered, Agree
<1> QED
  BY Invariance, <1>1, PTL
=============================================================================
