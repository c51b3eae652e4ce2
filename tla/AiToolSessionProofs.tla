------------------------- MODULE AiToolSessionProofs -------------------------
(***************************************************************************)
(* Proofs about AiToolSession: for any calls, layouts, caps, sessions and  *)
(* changes of policy, what the session takes for an approval or a refusal  *)
(* is one, a "no" that somebody waited for stands, the user sees one dialog*)
(* per layout, and no write leaves a dialog past a cancellation or a       *)
(* changed policy; and calls that run at the same time keep to the quota,  *)
(* across any number of sessions.                                          *)
(***************************************************************************)
EXTENDS AiToolSession, FiniteSetTheorems, TLAPS

(***************************************************************************)
(* The inductive invariant: consentInFlight holds exactly this session's   *)
(* dialogs, each about a layout not decided yet; who waits for a dialog    *)
(* began to wait in the session that opened it, so that an answer counts   *)
(* for exactly those whose session it belongs to.                          *)
(***************************************************************************)
PromptsShown ==
    /\ consentInFlight \in [Layouts -> Prompt \cup {NoPrompt}]
    /\ \A l \in Layouts : consentInFlight[l] # NoPrompt =>
         consentInFlight[l] \in dialogs /\ consentInFlight[l].layout = l /\ consentInFlight[l].generation = generation

DialogsKnown ==
    /\ dialogs \subseteq Prompt
    /\ \A d \in dialogs :
         /\ d.generation <= generation
         /\ d.generation = generation =>
              consentInFlight[d.layout] = d /\ d.layout \notin consented \cup declined

WaitersOfTheSession ==
    \A c \in Calls : place[c] = "consent" =>
      waits[c] \in Prompt /\ waits[c].layout = layout[c] /\ waits[c].generation = since[c]

\* A "no" that a call waited for is in the session's record.
NoIsRecorded == \A l \in Layouts : Answer(l, FALSE) \in heard => l \in declined

Counters ==
    /\ generation \in 0..MaxResets /\ consentPrompts \in Nat
    /\ place \in [Calls -> Places] /\ layout \in [Calls -> Layouts]
    /\ waits \in [Calls -> Prompt \cup {NoPrompt}] /\ since \in [Calls -> Int]

DialogInv ==
    /\ Counters /\ PromptsShown /\ DialogsKnown /\ WaitersOfTheSession
    /\ OneDialogPerLayout /\ AnswersOfThisSession /\ NoIsRecorded

\* Only a tool that writes asks for a confirmation, and only a deletion for a second one.
Writers ==
    \A c \in Calls :
      /\ place[c] \in {"confirm", "typing"} => kind[c] # "find"
      /\ place[c] \in {"typing", "reread"} => kind[c] = "delete"

IInv == DialogInv /\ Writers

-----------------------------------------------------------------------------
LEMMA DialogInit == ASSUME Init PROVE DialogInv
  BY ToolsAssumption DEF Init, DialogInv, Counters, PromptsShown, DialogsKnown, WaitersOfTheSession, OneDialogPerLayout,
     AnswersOfThisSession, NoIsRecorded, Places

\* A step that moves calls without making one wait and touches no answer.
LEMMA Untouched ==
  ASSUME DialogInv, Counters',
         UNCHANGED <<generation, consentInFlight, consented, declined, dialogs, waits, since, heard>>,
         \A c \in Calls : place'[c] = "consent" => place[c] = "consent" /\ layout'[c] = layout[c]
  PROVE  DialogInv'
  BY DEF DialogInv, Counters, PromptsShown, DialogsKnown, WaitersOfTheSession, OneDialogPerLayout, AnswersOfThisSession,
     NoIsRecorded

LEMMA CallMoves ==
  ASSUME DialogInv, NEW c \in Calls, NEW where \in Places \ {"consent"}, Goes(c, where),
         UNCHANGED <<generation, consentPrompts, consentInFlight, consented, declined, dialogs, layout, waits, since, heard>>
  PROVE  DialogInv'
<1>1. Counters'
  BY DEF DialogInv, Counters, Goes
<1>2. \A d \in Calls : place'[d] = "consent" => place[d] = "consent" /\ layout'[d] = layout[d]
  BY DEF DialogInv, Counters, Goes
<1> QED
  BY <1>1, <1>2, Untouched

-----------------------------------------------------------------------------
\* A call joins the dialog of its layout.
LEMMA Joins == ASSUME DialogInv, NEW c \in Calls, JoinsPrompt(c) PROVE DialogInv'
<1> USE DEF JoinsPrompt, Waits, Goes, MustAsk, Listed, session, waiting, callData, history
<1>1. Counters'
  BY NoPromptAssumption DEF DialogInv, Counters, Places, PromptsShown
<1>2. PromptsShown' /\ DialogsKnown' /\ OneDialogPerLayout' /\ AnswersOfThisSession' /\ NoIsRecorded'
  BY DEF DialogInv, PromptsShown, DialogsKnown, OneDialogPerLayout, AnswersOfThisSession, NoIsRecorded
<1>3. WaitersOfTheSession'
  BY DEF DialogInv, Counters, PromptsShown, WaitersOfTheSession
<1> QED
  BY <1>1, <1>2, <1>3 DEF DialogInv

\* A call opens the dialog of its layout.
LEMMA Opens == ASSUME DialogInv, NEW c \in Calls, OpensPrompt(c) PROVE DialogInv'
<1> DEFINE prompt == [layout |-> layout[c], generation |-> generation, number |-> consentPrompts + 1]
<1>0. /\ layout[c] \in Layouts /\ consentPrompts \in Nat /\ generation \in 0..MaxResets
      /\ consentPrompts < PromptCap /\ PromptCap \in Nat
      /\ consentInFlight[layout[c]] = NoPrompt
      /\ layout[c] \notin consented \cup declined
      /\ consentInFlight' = [consentInFlight EXCEPT ![layout[c]] = prompt]
      /\ dialogs' = dialogs \cup {prompt}
      /\ place' = [place EXCEPT ![c] = "consent"]
      /\ waits' = [waits EXCEPT ![c] = prompt]
      /\ since' = [since EXCEPT ![c] = generation]
      /\ consentPrompts' = consentPrompts + 1
      /\ UNCHANGED <<generation, consented, declined, layout, heard>>
  BY ToolsAssumption DEF DialogInv, Counters, OpensPrompt, Waits, Goes, MustAsk, Listed, Allowed, callData, history
<1>1. prompt \in Prompt
  BY <1>0 DEF Prompt
<1>2. \A d \in dialogs : ~(d.layout = layout[c] /\ d.generation = generation)
  BY <1>0, NoPromptAssumption DEF DialogInv, DialogsKnown
<1>3. prompt.layout = layout[c] /\ prompt.generation = generation
  OBVIOUS
<1> HIDE DEF prompt
<1>4. Counters'
  BY <1>0, <1>1 DEF DialogInv, Counters, Places
<1>5. PromptsShown'
  BY <1>0, <1>1, <1>3 DEF DialogInv, PromptsShown
<1>6. DialogsKnown'
  BY <1>0, <1>1, <1>2, <1>3 DEF DialogInv, DialogsKnown, PromptsShown, Prompt
<1>7. WaitersOfTheSession'
  BY <1>0, <1>1, <1>3 DEF DialogInv, Counters, WaitersOfTheSession
<1>8. OneDialogPerLayout'
  BY <1>0, <1>2, <1>3 DEF DialogInv, OneDialogPerLayout
<1>9. AnswersOfThisSession' /\ NoIsRecorded'
  BY <1>0 DEF DialogInv, AnswersOfThisSession, NoIsRecorded
<1> QED
  BY <1>4, <1>5, <1>6, <1>7, <1>8, <1>9 DEF DialogInv

\* The user answers: an answer that is recorded is one to a dialog of this session.
LEMMA Answers == ASSUME DialogInv, NEW prompt \in dialogs, NEW allow \in BOOLEAN, UserAnswers(prompt, allow) PROVE DialogInv'
<1> DEFINE told == {c \in Waiters(prompt) : Counts(c)}
           granted == IF allow /\ ~off THEN told ELSE {}
           l == prompt.layout
           awaited == \E c \in Waiters(prompt) : ~aborted[c]
<1>0. /\ dialogs' = dialogs \ {prompt}
      /\ consentInFlight' = [consentInFlight EXCEPT ![l] = Settled(prompt)]
      /\ place' = [c \in Calls |-> IF c \in granted THEN "fields"
                                   ELSE IF c \in Waiters(prompt) THEN "over" ELSE place[c]]
      /\ consented' = IF granted # {} THEN consented \cup {l} ELSE consented
      /\ declined' = IF ~allow /\ told # {} THEN declined \cup {l} ELSE declined
      /\ heard' = IF prompt.generation = generation /\ awaited THEN heard \cup {Answer(l, allow)} ELSE heard
      /\ UNCHANGED <<generation, consentPrompts, layout, waits, since>>
  BY DEF UserAnswers, callData, waiting
<1>1. prompt \in Prompt /\ l \in Layouts /\ prompt # NoPrompt
  BY NoPromptAssumption DEF DialogInv, DialogsKnown, Prompt
<1>2. told # {} <=> prompt.generation = generation /\ awaited
  <2>1. \A c \in Waiters(prompt) : since[c] = prompt.generation
    BY DEF DialogInv, WaitersOfTheSession, Waiters
  <2> QED
    BY <2>1 DEF Counts
<1>3. prompt.generation = generation => l \notin consented \cup declined /\ consentInFlight[l] = prompt
  BY DEF DialogInv, DialogsKnown
<1>4. granted # {} => allow = TRUE /\ told # {}
  OBVIOUS
<1>5. ~allow => allow = FALSE
  OBVIOUS
<1>6. \A c \in Calls : place'[c] = "consent" => place[c] = "consent"
  BY <1>0 DEF Waiters
<1> HIDE DEF told, granted, awaited
<1>7. Counters'
  BY <1>0 DEF DialogInv, Counters, Places
<1>8. PromptsShown'
  BY <1>0, <1>1, <1>3 DEF DialogInv, PromptsShown, Settled
<1>9. DialogsKnown'
  <2>1. \A d \in dialogs : d # prompt /\ d.generation = generation => d.layout # l \/ prompt.generation # generation
    BY DEF DialogInv, OneDialogPerLayout
  <2>2. ASSUME NEW d \in dialogs, d # prompt, d.generation = generation
        PROVE  consentInFlight'[d.layout] = d /\ d.layout \notin consented' \cup declined'
    BY <1>0, <1>1, <1>2, <1>4, <2>1, <2>2 DEF DialogInv, DialogsKnown, PromptsShown, Settled, Prompt
  <2> QED
    BY <1>0, <2>2 DEF DialogInv, DialogsKnown
<1>10. WaitersOfTheSession'
  BY <1>0, <1>6 DEF DialogInv, WaitersOfTheSession
<1>11. OneDialogPerLayout'
  BY <1>0 DEF DialogInv, OneDialogPerLayout
<1>12. AnswersOfThisSession'
  <2>1. CASE granted # {}
    <3>1. consented' = consented \cup {l} /\ declined' = declined /\ heard' = heard \cup {Answer(l, TRUE)}
      BY <1>0, <1>2, <1>4, <2>1
    <3> QED
      BY <1>2, <1>3, <1>4, <2>1, <3>1 DEF DialogInv, AnswersOfThisSession
  <2>2. CASE granted = {} /\ ~allow /\ told # {}
    <3>1. consented' = consented /\ declined' = declined \cup {l} /\ heard' = heard \cup {Answer(l, FALSE)}
      BY <1>0, <1>2, <1>5, <2>2
    <3> QED
      BY <1>2, <1>3, <2>2, <3>1 DEF DialogInv, AnswersOfThisSession
  <2>3. CASE granted = {} /\ ~(~allow /\ told # {})
    <3>1. consented' = consented /\ declined' = declined /\ heard \subseteq heard'
      BY <1>0, <2>3
    <3> QED
      BY <3>1 DEF DialogInv, AnswersOfThisSession
  <2> QED
    BY <2>1, <2>2, <2>3
<1>13. NoIsRecorded'
  <2>1. CASE heard' = heard
    <3>1. declined \subseteq declined'
      BY <1>0
    <3> QED
      BY <2>1, <3>1 DEF DialogInv, NoIsRecorded
  <2>2. CASE heard' # heard /\ allow
    <3>1. heard' = heard \cup {Answer(l, TRUE)} /\ declined' = declined
      BY <1>0, <2>2
    <3>2. \A k \in Layouts : Answer(k, FALSE) # Answer(l, TRUE)
      BY DEF Answer
    <3> QED
      BY <3>1, <3>2 DEF DialogInv, NoIsRecorded
  <2>3. CASE heard' # heard /\ ~allow
    <3>1. heard' = heard \cup {Answer(l, FALSE)}
      BY <1>0, <1>5, <2>3
    <3>2. declined' = declined \cup {l}
      BY <1>0, <1>2, <2>3
    <3>3. \A k \in Layouts : Answer(k, FALSE) = Answer(l, FALSE) => k = l
      BY DEF Answer
    <3> QED
      BY <3>1, <3>2, <3>3 DEF DialogInv, NoIsRecorded
  <2> QED
    BY <2>1, <2>2, <2>3
<1> QED
  BY <1>7, <1>8, <1>9, <1>10, <1>11, <1>12, <1>13 DEF DialogInv

LEMMA Resets == ASSUME DialogInv, ResetSession PROVE DialogInv'
<1> USE DEF ResetSession, waiting, callData
<1>1. Counters' /\ WaitersOfTheSession'
  BY ToolsAssumption DEF DialogInv, Counters, WaitersOfTheSession
<1>2. PromptsShown'
  BY DEF PromptsShown
<1>3. DialogsKnown'
  BY DEF DialogInv, Counters, DialogsKnown, Prompt
<1>4. OneDialogPerLayout' /\ AnswersOfThisSession' /\ NoIsRecorded'
  BY DEF DialogInv, OneDialogPerLayout, AnswersOfThisSession, NoIsRecorded
<1> QED
  BY <1>1, <1>2, <1>3, <1>4 DEF DialogInv

LEMMA DialogNext == ASSUME DialogInv, [Next]_vars PROVE DialogInv'
<1> USE DEF policy, session, callData, waiting, history
<1>1. ASSUME NEW c \in Calls, NEW k \in Kinds, NEW l \in Layouts, Begins(c, k, l) PROVE DialogInv'
  <2>1. Counters'
    BY <1>1 DEF Begins, DialogInv, Counters, Goes, Places
  <2>2. \A d \in Calls : place'[d] = "consent" => place[d] = "consent" /\ layout'[d] = layout[d]
    BY <1>1 DEF Begins, DialogInv, Counters, Goes
  <2> QED
    BY <1>1, <2>1, <2>2, Untouched DEF Begins
<1>2. ASSUME NEW c \in Calls, LayoutIsAllowed(c) \/ LayoutRefused(c) PROVE DialogInv'
  BY <1>2, CallMoves DEF LayoutIsAllowed, LayoutRefused, Places
<1>3. ASSUME NEW c \in Calls, ReservesRecords(c) \/ FieldsRefused(c) PROVE DialogInv'
  BY <1>3, CallMoves DEF ReservesRecords, FieldsRefused, Places
<1>4. ASSUME NEW c \in Calls, RecordsArrive(c) \/ RecordsFail(c) PROVE DialogInv'
  BY <1>4, CallMoves DEF RecordsArrive, RecordsFail, Places
<1>5. ASSUME NEW c \in Calls, AsksToCreate(c) \/ NotConfirmed(c) \/ StillTheSame(c) \/ WriteEnds(c) PROVE DialogInv'
  BY <1>5, CallMoves DEF AsksToCreate, NotConfirmed, StillTheSame, WriteEnds, Places
<1>6. ASSUME NEW c \in Calls, UserConfirms(c) PROVE DialogInv'
  BY <1>6, CallMoves DEF UserConfirms, Places
<1>7. ASSUME NEW c \in Calls, ClientAborts(c) PROVE DialogInv'
  BY <1>7, Untouched DEF ClientAborts, DialogInv, Counters
<1>8. CASE PolicyChanges
  BY <1>8, Untouched DEF PolicyChanges, DialogInv, Counters
<1>9. CASE UNCHANGED vars
  BY <1>9, Untouched DEF vars, DialogInv, Counters
<1> QED
  BY <1>1, <1>2, <1>3, <1>4, <1>5, <1>6, <1>7, <1>8, <1>9, Joins, Opens, Answers, Resets DEF Next, CallStep

LEMMA WritersNext == ASSUME IInv, [Next]_vars PROVE Writers'
<1> USE DEF IInv, DialogInv, Counters, Writers, Goes, Places, policy, session, callData, waiting, history
<1>1. ASSUME NEW c \in Calls, NEW k \in Kinds, NEW l \in Layouts, Begins(c, k, l) PROVE Writers'
  BY <1>1 DEF Begins
<1>2. ASSUME NEW c \in Calls, LayoutIsAllowed(c) \/ JoinsPrompt(c) \/ OpensPrompt(c) \/ LayoutRefused(c) PROVE Writers'
  BY <1>2 DEF LayoutIsAllowed, JoinsPrompt, OpensPrompt, LayoutRefused, Waits
<1>3. ASSUME NEW c \in Calls, ReservesRecords(c) \/ FieldsRefused(c) \/ RecordsFail(c) PROVE Writers'
  BY <1>3 DEF ReservesRecords, FieldsRefused, RecordsFail
<1>4. ASSUME NEW c \in Calls, RecordsArrive(c) PROVE Writers'
  BY <1>4 DEF RecordsArrive
<1>5. ASSUME NEW c \in Calls, AsksToCreate(c) \/ NotConfirmed(c) \/ StillTheSame(c) \/ WriteEnds(c) PROVE Writers'
  BY <1>5 DEF AsksToCreate, NotConfirmed, StillTheSame, WriteEnds
<1>6. ASSUME NEW c \in Calls, UserConfirms(c) PROVE Writers'
  BY <1>6 DEF UserConfirms
<1>7. ASSUME NEW c \in Calls, ClientAborts(c) PROVE Writers'
  BY <1>7 DEF ClientAborts
<1>8. ASSUME NEW prompt \in dialogs, NEW allow \in BOOLEAN, UserAnswers(prompt, allow) PROVE Writers'
  BY <1>8 DEF UserAnswers
<1>9. ASSUME ResetSession \/ PolicyChanges \/ UNCHANGED vars PROVE Writers'
  BY <1>9 DEF ResetSession, PolicyChanges, vars
<1> QED
  BY <1>1, <1>2, <1>3, <1>4, <1>5, <1>6, <1>7, <1>8, <1>9 DEF Next, CallStep

LEMMA InvInit == ASSUME Init PROVE IInv
  BY DialogInit DEF IInv, Init, Writers

LEMMA InvNext == ASSUME IInv, [Next]_vars PROVE IInv'
  BY DialogNext, WritersNext DEF IInv

\* IInv is inductive, so every state the program reaches satisfies it.
LEMMA Invariance == Spec => []IInv
  BY InvInit, InvNext, PTL DEF Spec

-----------------------------------------------------------------------------
(***************************************************************************)
(* What the session takes for an approval or a refusal of a layout is an   *)
(* answer the user gave in it, and never both.                             *)
(***************************************************************************)
THEOREM AnswersAreReal == Spec => []AnswersOfThisSession
<1>1. IInv => AnswersOfThisSession
  BY DEF IInv, DialogInv
<1> QED
  BY Invariance, <1>1, PTL

(***************************************************************************)
(* However many calls ask at once, one dialog per layout and session.      *)
(***************************************************************************)
THEOREM AskedByOneDialog == Spec => []OneDialogPerLayout
<1>1. IInv => OneDialogPerLayout
  BY DEF IInv, DialogInv
<1> QED
  BY Invariance, <1>1, PTL
\* No call gets past the approval of a layout that is recorded as declined.
LEMMA NoGetsPast ==
  ASSUME IInv, [Next]_vars, NEW l \in declined, l \notin preset, NEW c \in Calls, layout[c] = l,
         place[c] \in {"layouts", "consent"}
  PROVE  place'[c] # "fields"
<1> USE DEF IInv, DialogInv, Counters, Goes, Places
<1>0. l \notin consented
  BY DEF AnswersOfThisSession
<1>1. ASSUME NEW d \in Calls, NEW k \in Kinds, NEW m \in Layouts, Begins(d, k, m) PROVE place'[c] # "fields"
  BY <1>1 DEF Begins
<1>2. ASSUME NEW d \in Calls, JoinsPrompt(d) \/ OpensPrompt(d) \/ LayoutRefused(d) PROVE place'[c] # "fields"
  BY <1>2 DEF JoinsPrompt, OpensPrompt, LayoutRefused, Waits
<1>3. ASSUME NEW d \in Calls, LayoutIsAllowed(d) PROVE place'[c] # "fields"
  BY <1>0, <1>3 DEF LayoutIsAllowed, Allowed
<1>4. ASSUME NEW d \in Calls, ReservesRecords(d) \/ FieldsRefused(d) \/ RecordsArrive(d) \/ RecordsFail(d)
      PROVE  place'[c] # "fields"
  BY <1>4 DEF ReservesRecords, FieldsRefused, RecordsArrive, RecordsFail
<1>5. ASSUME NEW d \in Calls, AsksToCreate(d) \/ UserConfirms(d) \/ NotConfirmed(d) \/ StillTheSame(d) \/ WriteEnds(d)
      PROVE  place'[c] # "fields"
  BY <1>5 DEF AsksToCreate, UserConfirms, NotConfirmed, StillTheSame, WriteEnds
<1>6. ASSUME NEW d \in Calls, ClientAborts(d) PROVE place'[c] # "fields"
  BY <1>6 DEF ClientAborts
<1>7. ASSUME NEW prompt \in dialogs, NEW allow \in BOOLEAN, UserAnswers(prompt, allow) PROVE place'[c] # "fields"
  <2> DEFINE told == {d \in Waiters(prompt) : Counts(d)}
             granted == IF allow /\ ~off THEN told ELSE {}
  <2>1. place' = [d \in Calls |-> IF d \in granted THEN "fields" ELSE IF d \in Waiters(prompt) THEN "over" ELSE place[d]]
    BY <1>7 DEF UserAnswers
  <2>2. c \notin told
    <3>1. SUFFICES ASSUME c \in told PROVE FALSE
      OBVIOUS
    <3>2. prompt.generation = generation /\ prompt.layout = l
      BY <3>1 DEF WaitersOfTheSession, Waiters, Counts
    <3> QED
      BY <3>2 DEF DialogsKnown
  <2>3. c \notin granted
    BY <2>2
  <2> QED
    BY <2>1, <2>3
<1>8. ASSUME ResetSession \/ PolicyChanges \/ UNCHANGED vars PROVE place'[c] # "fields"
  BY <1>8 DEF ResetSession, PolicyChanges, vars
<1> QED
  BY <1>1, <1>2, <1>3, <1>4, <1>5, <1>6, <1>7, <1>8 DEF Next, CallStep

\* No dialog is opened for it either.
LEMMA NoAsksAgain ==
  ASSUME [Next]_vars, NEW d \in dialogs' \ dialogs
  PROVE  d.layout \notin declined
<1> USE DEF policy, session, callData, waiting, history
<1>1. ASSUME NEW c \in Calls, NEW k \in Kinds, NEW l \in Layouts, Begins(c, k, l) PROVE FALSE
  BY <1>1 DEF Begins
<1>2. ASSUME NEW c \in Calls, OpensPrompt(c) PROVE d.layout \notin declined
  BY <1>2 DEF OpensPrompt, MustAsk
<1>3. ASSUME NEW c \in Calls, CallStep(c), ~OpensPrompt(c) PROVE FALSE
  BY <1>3 DEF CallStep, LayoutIsAllowed, JoinsPrompt, LayoutRefused, ReservesRecords, FieldsRefused, RecordsArrive,
     RecordsFail, AsksToCreate, UserConfirms, NotConfirmed, StillTheSame, WriteEnds
<1>4. ASSUME NEW c \in Calls, ClientAborts(c) PROVE FALSE
  BY <1>4 DEF ClientAborts
<1>5. ASSUME NEW prompt \in dialogs, NEW allow \in BOOLEAN, UserAnswers(prompt, allow) PROVE FALSE
  BY <1>5 DEF UserAnswers
<1>6. ASSUME ResetSession \/ PolicyChanges \/ UNCHANGED vars PROVE FALSE
  BY <1>6 DEF ResetSession, PolicyChanges, vars
<1> QED
  BY <1>1, <1>2, <1>3, <1>4, <1>5, <1>6 DEF Next

(***************************************************************************)
(* What the user declined while a call still waited for the answer stays   *)
(* declined in the session: it is recorded, so no dialog is opened; no     *)
(* dialog of the session is left that could allow it, and those of earlier *)
(* sessions count for nobody.                                              *)
(***************************************************************************)
THEOREM RefusalStands == Spec => HeardNoStands
<1> DEFINE Stands ==
      generation' = generation =>
        \A l \in Layouts : Answer(l, FALSE) \in heard =>
          /\ \A d \in dialogs' \ dialogs : d.layout # l
          /\ l \notin preset =>
               \A c \in Calls : layout[c] = l /\ place[c] \in {"layouts", "consent"} => place'[c] # "fields"
<1>1. ASSUME IInv, [Next]_vars PROVE Stands
  <2>1. ASSUME NEW l \in Layouts, Answer(l, FALSE) \in heard PROVE l \in declined
    BY <1>1, <2>1 DEF IInv, DialogInv, NoIsRecorded
  <2> QED
    BY <1>1, <2>1, NoGetsPast, NoAsksAgain
<1> QED
  BY <1>1, Invariance, PTL DEF Spec, HeardNoStands

(***************************************************************************)
(* Once the client cancelled, no dialog and no second reading of a record  *)
(* leads to a write, whatever the user answers.                            *)
(***************************************************************************)
LEMMA StepsOfPlaces ==
  ASSUME IInv, [Next]_vars, NEW c \in Calls, place'[c] \in {"write", "reread"}, place'[c] # place[c]
  PROVE  UserConfirms(c) \/ StillTheSame(c)
<1> USE DEF IInv, DialogInv, Counters, Goes, Places
<1>1. ASSUME NEW d \in Calls, NEW k \in Kinds, NEW l \in Layouts, Begins(d, k, l) PROVE FALSE
  BY <1>1 DEF Begins
<1>2. ASSUME NEW d \in Calls, LayoutIsAllowed(d) \/ JoinsPrompt(d) \/ OpensPrompt(d) \/ LayoutRefused(d) PROVE FALSE
  BY <1>2 DEF LayoutIsAllowed, JoinsPrompt, OpensPrompt, LayoutRefused, Waits
<1>3. ASSUME NEW d \in Calls, ReservesRecords(d) \/ FieldsRefused(d) \/ RecordsArrive(d) \/ RecordsFail(d) PROVE FALSE
  BY <1>3 DEF ReservesRecords, FieldsRefused, RecordsArrive, RecordsFail
<1>4. ASSUME NEW d \in Calls, AsksToCreate(d) \/ NotConfirmed(d) \/ WriteEnds(d) \/ ClientAborts(d) PROVE FALSE
  BY <1>4 DEF AsksToCreate, NotConfirmed, WriteEnds, ClientAborts
<1>5. ASSUME NEW d \in Calls, UserConfirms(d) \/ StillTheSame(d) PROVE d = c
  BY <1>5 DEF UserConfirms, StillTheSame
<1>6. ASSUME NEW prompt \in dialogs, NEW allow \in BOOLEAN, UserAnswers(prompt, allow) PROVE FALSE
  BY <1>6 DEF UserAnswers
<1>7. ASSUME ResetSession \/ PolicyChanges \/ UNCHANGED vars PROVE FALSE
  BY <1>7 DEF ResetSession, PolicyChanges, vars
<1> QED
  BY <1>1, <1>2, <1>3, <1>4, <1>5, <1>6, <1>7 DEF Next, CallStep

(***************************************************************************)
(* A call that waits in a dialog or for a read when it is cancelled never  *)
(* sends its write (writes.ts looks at the signal after every dialog).     *)
(***************************************************************************)
THEOREM CancelledCallsSendNothing == Spec => NothingSentAfterCancel
<1> DEFINE Silent == \A c \in Calls : aborted[c] /\ place[c] # "write" => place'[c] # "write"
<1>1. ASSUME IInv, [Next]_vars PROVE Silent
  <2>1. ASSUME NEW c \in Calls, place'[c] = "write", place[c] # "write" PROVE ~aborted[c]
    BY <1>1, <2>1, StepsOfPlaces DEF UserConfirms, StillTheSame, Cancelled
  <2> QED
    BY <2>1
<1> QED
  BY <1>1, Invariance, PTL DEF Spec, NothingSentAfterCancel

(***************************************************************************)
(* An edit, a new record or a script is sent only under the policy of that *)
(* moment, for a layout listed or approved in this session.  A deletion is *)
(* sent only after its second dialog was answered under the policy of that *)
(* moment; nothing is claimed of the policy at the end of the reading that *)
(* follows, because the code does not look at it again.                    *)
(***************************************************************************)
THEOREM WritesObeyPolicy == Spec => WritesUnderPolicy
<1> DEFINE agreed(c) == ~off /\ writesOn /\ (layout[c] \in preset \/ Answer(layout[c], TRUE) \in heard)
           Obeys ==
             \A c \in Calls :
               /\ place[c] # "write" /\ place'[c] = "write" =>
                    IF kind[c] = "delete" THEN place[c] = "reread" ELSE agreed(c)
               /\ place[c] # "reread" /\ place'[c] = "reread" => place[c] = "typing" /\ agreed(c)
<1>1. ASSUME IInv, [Next]_vars, NEW c \in Calls, UserConfirms(c)
      PROVE  /\ place[c] \in {"confirm", "typing"} /\ agreed(c)
             /\ kind[c] = "delete" => place'[c] = (IF place[c] = "confirm" THEN "typing" ELSE "reread")
             /\ kind[c] # "delete" => place[c] = "confirm" /\ place'[c] = "write"
  <2>1. place[c] \in {"confirm", "typing"} /\ Open(c) /\ Allowed(layout[c])
    BY <1>1 DEF UserConfirms, Recheck
  <2>2. kind[c] # "find" /\ (place[c] = "typing" => kind[c] = "delete")
    BY <1>1, <2>1 DEF IInv, Writers
  <2>3. agreed(c)
    BY <1>1, <2>1, <2>2 DEF IInv, DialogInv, AnswersOfThisSession, Allowed, Open, IsWrite
  <2>4. place'[c] = IF kind[c] # "delete" THEN "write" ELSE IF place[c] = "confirm" THEN "typing" ELSE "reread"
    BY <1>1 DEF UserConfirms, Goes, IInv, DialogInv, Counters
  <2> QED
    BY <2>1, <2>2, <2>3, <2>4
<1>2. ASSUME IInv, NEW c \in Calls, StillTheSame(c)
      PROVE  place[c] = "reread" /\ kind[c] = "delete" /\ place'[c] = "write"
  BY <1>2 DEF StillTheSame, Goes, IInv, DialogInv, Counters, Writers
<1> HIDE DEF agreed
<1>3. ASSUME IInv, [Next]_vars PROVE Obeys
  <2>1. ASSUME NEW c \in Calls, place'[c] \in {"write", "reread"}, place'[c] # place[c]
        PROVE  UserConfirms(c) \/ StillTheSame(c)
    BY <1>3, <2>1, StepsOfPlaces
  <2> QED
    BY <1>1, <1>2, <1>3, <2>1
<1> USE DEF agreed
<1> QED
  BY <1>3, Invariance, PTL DEF Spec, WritesUnderPolicy

-----------------------------------------------------------------------------
(***************************************************************************)
(* The quota. Records in flight are counted call by call: a step of one    *)
(* call changes what that call holds and nothing else.                     *)
(***************************************************************************)

HeldByOthers(c) == UNION {{d} \X (1..InFlight(d)) : d \in Calls \ {c}}

LEMMA CardinalityOfHeld ==
  ASSUME NEW c, NEW n \in Nat
  PROVE  IsFiniteSet({c} \X (1..n)) /\ Cardinality({c} \X (1..n)) = n
<1>1. IsFiniteSet({c}) /\ Cardinality({c}) = 1
  BY FS_Singleton
<1>2. IsFiniteSet(1..n) /\ Cardinality(1..n) = n
  BY FS_Interval
<1>3. /\ IsFiniteSet({c} \X (1..n))
      /\ Cardinality({c} \X (1..n)) = Cardinality({c}) * Cardinality(1..n)
  BY <1>1, <1>2, FS_Product
<1> QED
  BY <1>1, <1>2, <1>3

LEMMA OthersAreFinite ==
  ASSUME NEW c \in Calls, \A d \in Calls : InFlight(d) \in 0..Quota
  PROVE  IsFiniteSet(HeldByOthers(c)) /\ Cardinality(HeldByOthers(c)) \in Nat
<1>1. IsFiniteSet(1..Quota)
  BY ToolsAssumption, FS_Interval
<1>2. IsFiniteSet(Calls \X (1..Quota))
  BY <1>1, ToolsAssumption, FS_Product
<1>3. HeldByOthers(c) \subseteq Calls \X (1..Quota)
  BY ToolsAssumption DEF HeldByOthers
<1> QED
  BY <1>2, <1>3, FS_Subset, FS_CardinalityType

\* What the others hold and what one call holds, with n for what it holds.
LEMMA HeldApart ==
  ASSUME NEW c \in Calls, NEW n \in Nat, \A d \in Calls : InFlight(d) \in 0..Quota
  PROVE  Cardinality(HeldByOthers(c) \cup ({c} \X (1..n))) = Cardinality(HeldByOthers(c)) + n
<1>1. HeldByOthers(c) \cap ({c} \X (1..n)) = {}
  BY DEF HeldByOthers
<1> QED
  <2>1. /\ IsFiniteSet(HeldByOthers(c)) /\ Cardinality(HeldByOthers(c)) \in Nat
        /\ IsFiniteSet({c} \X (1..n)) /\ Cardinality({c} \X (1..n)) = n
    BY CardinalityOfHeld, OthersAreFinite
  <2>2. Cardinality(HeldByOthers(c) \cup ({c} \X (1..n)))
          = Cardinality(HeldByOthers(c)) + Cardinality({c} \X (1..n)) - Cardinality(HeldByOthers(c) \cap ({c} \X (1..n)))
    BY <2>1, FS_Union
  <2>3. Cardinality(HeldByOthers(c) \cap ({c} \X (1..n))) = 0
    BY <1>1, FS_EmptySet
  <2> QED
    BY <2>1, <2>2, <2>3

LEMMA OneCallCounts ==
  ASSUME NEW c \in Calls, \A d \in Calls : InFlight(d) \in 0..Quota, InFlight(c)' \in 0..Quota,
         \A d \in Calls : d # c => InFlight(d)' = InFlight(d)
  PROVE  /\ InFlightRecords \in Nat /\ InFlightRecords >= InFlight(c)
         /\ InFlightRecords' = InFlightRecords - InFlight(c) + InFlight(c)'
<1>0. InFlight(c) \in Nat /\ InFlight(c)' \in Nat
  BY ToolsAssumption
<1>1. UNION {{d} \X (1..InFlight(d)) : d \in Calls} = HeldByOthers(c) \cup ({c} \X (1..InFlight(c)))
  BY DEF HeldByOthers
<1>2. (UNION {{d} \X (1..InFlight(d)) : d \in Calls})' = HeldByOthers(c) \cup ({c} \X (1..InFlight(c)'))
  <2>1. (UNION {{d} \X (1..InFlight(d)) : d \in Calls})' = UNION {{d} \X (1..InFlight(d)') : d \in Calls}
    OBVIOUS
  <2> QED
    BY <2>1 DEF HeldByOthers
<1>3. InFlightRecords = Cardinality(HeldByOthers(c)) + InFlight(c)
  BY <1>0, <1>1, HeldApart DEF InFlightRecords
<1>4. InFlightRecords' = Cardinality(HeldByOthers(c)) + InFlight(c)'
  BY <1>0, <1>2, HeldApart DEF InFlightRecords
<1> QED
  BY <1>0, <1>3, <1>4, OthersAreFinite

LEMMA NothingInFlight == ASSUME \A c \in Calls : InFlight(c) = 0 PROVE InFlightRecords = 0
<1>1. UNION {{c} \X (1..InFlight(c)) : c \in Calls} = {}
  OBVIOUS
<1> QED
  BY <1>1, FS_EmptySet DEF InFlightRecords

LEMMA SameInFlight ==
  ASSUME UNCHANGED <<generation, reservation>>
  PROVE  InFlightRecords' = InFlightRecords /\ \A c \in Calls : InFlight(c)' = InFlight(c)
  BY DEF InFlightRecords, InFlight

-----------------------------------------------------------------------------
\* The parts of the type that the quota does not bear on.
Typed ==
    /\ off \in BOOLEAN /\ writesOn \in BOOLEAN /\ preset \subseteq Layouts /\ changes \in 0..MaxChanges
    /\ generation \in 0..MaxResets
    /\ writesUsed \in 0..WriteCap /\ consentPrompts \in 0..PromptCap
    /\ consentInFlight \in [Layouts -> Prompt \cup {NoPrompt}]
    /\ consented \subseteq Layouts /\ declined \subseteq Layouts
    /\ dialogs \subseteq Prompt
    /\ place \in [Calls -> Places] /\ kind \in [Calls -> Kinds] /\ layout \in [Calls -> Layouts]
    /\ aborted \in [Calls -> BOOLEAN]
    /\ waits \in [Calls -> Prompt \cup {NoPrompt}] /\ since \in [Calls -> 0..MaxResets]
    /\ heard \subseteq [layout : Layouts, allow : BOOLEAN]

\* A call holds records while it waits for them and only then, at least one.
Reservations ==
    \A c \in Calls :
      /\ place[c] # "records" => reservation[c] = Nothing
      /\ place[c] = "records" => reservation[c].reserved >= 1
      /\ reservation[c].generation <= generation

QuotaInv ==
    /\ recordsUsed \in 0..Quota /\ delivered \in 0..Quota /\ reservation \in [Calls -> Held]
    /\ Reservations /\ QuotaKept

LEMMA TypedInit == ASSUME Init PROVE Typed
<1> USE DEF Init
<1>1. /\ changes \in 0..MaxChanges /\ generation \in 0..MaxResets
      /\ writesUsed \in 0..WriteCap /\ consentPrompts \in 0..PromptCap
  BY ToolsAssumption
<1>2. off \in BOOLEAN /\ writesOn \in BOOLEAN /\ preset \subseteq Layouts /\ aborted \in [Calls -> BOOLEAN]
  OBVIOUS
<1>3. /\ consentInFlight \in [Layouts -> Prompt \cup {NoPrompt}] /\ waits \in [Calls -> Prompt \cup {NoPrompt}]
      /\ consented \subseteq Layouts /\ declined \subseteq Layouts /\ dialogs \subseteq Prompt
      /\ heard \subseteq [layout : Layouts, allow : BOOLEAN]
  OBVIOUS
<1>4. place \in [Calls -> Places] /\ kind \in [Calls -> Kinds] /\ layout \in [Calls -> Layouts]
  BY DEF Places, Kinds
<1>5. since \in [Calls -> 0..MaxResets]
  BY ToolsAssumption
<1> QED
  BY <1>1, <1>2, <1>3, <1>4, <1>5 DEF Typed

LEMMA TypedNext == ASSUME Typed, [Next]_vars PROVE Typed'
<1> USE DEF policy, session, callData, waiting, history
<1>1. ASSUME NEW c \in Calls, NEW k \in Kinds, NEW l \in Layouts, Begins(c, k, l) PROVE Typed'
  BY <1>1 DEF Begins, Typed, Goes, Places
<1>2. ASSUME NEW c \in Calls, LayoutIsAllowed(c) \/ LayoutRefused(c) \/ FieldsRefused(c) PROVE Typed'
  BY <1>2 DEF LayoutIsAllowed, LayoutRefused, FieldsRefused, Typed, Goes, Places
<1>3. ASSUME NEW c \in Calls, JoinsPrompt(c) PROVE Typed'
  BY <1>3 DEF JoinsPrompt, Waits, Typed, Goes, Places
<1>4. ASSUME NEW c \in Calls, OpensPrompt(c) PROVE Typed'
  <2> DEFINE prompt == [layout |-> layout[c], generation |-> generation, number |-> consentPrompts + 1]
  <2>1. prompt \in Prompt /\ layout[c] \in Layouts
    BY <1>4, ToolsAssumption DEF OpensPrompt, Typed, Prompt
  <2>2. consentPrompts' \in 0..PromptCap
    BY <1>4, ToolsAssumption DEF OpensPrompt, Typed
  <2>3. /\ consentInFlight' = [consentInFlight EXCEPT ![layout[c]] = prompt]
        /\ dialogs' = dialogs \cup {prompt} /\ Waits(c, prompt)
        /\ UNCHANGED <<policy, generation, recordsUsed, writesUsed, consented, declined, callData, reservation, history>>
    BY <1>4 DEF OpensPrompt
  <2> HIDE DEF prompt
  <2> QED
    BY <2>1, <2>2, <2>3 DEF Waits, Typed, Goes, Places
<1>5. ASSUME NEW c \in Calls, ReservesRecords(c) \/ RecordsFail(c) PROVE Typed'
  BY <1>5 DEF ReservesRecords, RecordsFail, Settles, Typed, Goes, Places
<1>6. ASSUME NEW c \in Calls, RecordsArrive(c) PROVE Typed'
  <2>1. writesUsed' \in 0..WriteCap
    BY <1>6, ToolsAssumption DEF RecordsArrive, Typed
  <2>2. place' \in [Calls -> Places]
    BY <1>6 DEF RecordsArrive, Goes, Typed, Places
  <2> QED
    BY <1>6, <2>1, <2>2 DEF RecordsArrive, Typed
<1>7. ASSUME NEW c \in Calls, AsksToCreate(c) PROVE Typed'
  BY <1>7, ToolsAssumption DEF AsksToCreate, Typed, Goes, Places
<1>8. ASSUME NEW c \in Calls, UserConfirms(c) \/ NotConfirmed(c) \/ StillTheSame(c) \/ WriteEnds(c) PROVE Typed'
  BY <1>8 DEF UserConfirms, NotConfirmed, StillTheSame, WriteEnds, Typed, Goes, Places
<1>9. ASSUME NEW c \in Calls, ClientAborts(c) PROVE Typed'
  BY <1>9 DEF ClientAborts, Typed
<1>10. ASSUME NEW prompt \in dialogs, NEW allow \in BOOLEAN, UserAnswers(prompt, allow) PROVE Typed'
  <2>1. prompt \in Prompt /\ prompt.layout \in Layouts
    BY DEF Typed, Prompt
  <2>2. place' \in [Calls -> Places]
    BY <1>10 DEF UserAnswers, Typed, Places
  <2>3. consentInFlight' \in [Layouts -> Prompt \cup {NoPrompt}]
    BY <1>10, <2>1 DEF UserAnswers, Settled, Typed
  <2>4. consented' \subseteq Layouts /\ declined' \subseteq Layouts /\ dialogs' \subseteq Prompt
    BY <1>10, <2>1 DEF UserAnswers, Typed
  <2>5. heard' \subseteq [layout : Layouts, allow : BOOLEAN]
    BY <1>10, <2>1 DEF UserAnswers, Answer, Typed
  <2> QED
    BY <1>10, <2>2, <2>3, <2>4, <2>5 DEF UserAnswers, Typed
<1>11. CASE ResetSession
  BY <1>11, ToolsAssumption DEF ResetSession, Typed
<1>12. CASE PolicyChanges
  <2>1. changes' \in 0..MaxChanges
    BY <1>12, ToolsAssumption DEF PolicyChanges, Typed
  <2>2. off' \in BOOLEAN /\ writesOn' \in BOOLEAN /\ preset' \subseteq Layouts
    BY <1>12 DEF PolicyChanges, Typed
  <2> QED
    BY <1>12, <2>1, <2>2 DEF PolicyChanges, Typed
<1>13. CASE UNCHANGED vars
  BY <1>13 DEF vars, Typed
<1> QED
  BY <1>1, <1>2, <1>3, <1>4, <1>5, <1>6, <1>7, <1>8, <1>9, <1>10, <1>11, <1>12, <1>13 DEF Next, CallStep

-----------------------------------------------------------------------------
LEMMA QuotaInit == ASSUME Init PROVE QuotaInv
<1> USE DEF Init
<1>1. Nothing \in Held
  BY ToolsAssumption DEF Nothing, Held
<1>2. InFlightRecords = 0
  BY NothingInFlight DEF InFlight, Nothing
<1> QED
  BY <1>1, <1>2, ToolsAssumption DEF QuotaInv, Reservations, QuotaKept, Nothing

LEMMA InFlightType ==
  ASSUME QuotaInv
  PROVE  \A c \in Calls : InFlight(c) \in 0..Quota
  BY ToolsAssumption DEF QuotaInv, InFlight, Held

\* A step that reserves nothing and settles nothing.
LEMMA QuotaFramed ==
  ASSUME QuotaInv, UNCHANGED <<generation, recordsUsed, delivered, reservation>>,
         \A c \in Calls : place'[c] = "records" <=> place[c] = "records"
  PROVE  QuotaInv'
<1>1. QuotaKept'
  BY SameInFlight DEF QuotaInv, QuotaKept
<1>2. Reservations'
  BY DEF QuotaInv, Reservations
<1> QED
  BY <1>1, <1>2 DEF QuotaInv

LEMMA QuotaMoves ==
  ASSUME Typed, QuotaInv, NEW c \in Calls, NEW where \in Places \ {"records"}, Goes(c, where), place[c] # "records",
         UNCHANGED <<generation, recordsUsed, delivered, reservation>>
  PROVE  QuotaInv'
<1>1. \A d \in Calls : place'[d] = "records" <=> place[d] = "records"
  BY DEF Typed, Goes
<1> QED
  BY <1>1, QuotaFramed

\* A call reserves what is left of the quota, at most what it asks for.
LEMMA QuotaReserves == ASSUME Typed, QuotaInv, NEW c \in Calls, ReservesRecords(c) PROVE QuotaInv'
<1>1. /\ place[c] = "fields" /\ recordsUsed < Quota
      /\ reservation' = [reservation EXCEPT ![c] = [reserved |-> Reserved(c), generation |-> generation]]
      /\ recordsUsed' = recordsUsed + Reserved(c)
      /\ place' = [place EXCEPT ![c] = "records"]
      /\ UNCHANGED <<generation, delivered>>
  BY ToolsAssumption DEF ReservesRecords, Remaining, Goes, history, QuotaInv
<1>2. Reserved(c) \in 1..Quota /\ recordsUsed + Reserved(c) \in 0..Quota
  BY <1>1, ToolsAssumption DEF Reserved, Asked, Remaining, QuotaInv
<1> HIDE DEF Reserved
<1>3. /\ reservation'[c].reserved = Reserved(c) /\ reservation'[c].generation = generation
      /\ \A d \in Calls : d # c => reservation'[d] = reservation[d]
      /\ reservation' \in [Calls -> Held]
  BY <1>1, <1>2, ToolsAssumption DEF QuotaInv, Held, Typed
<1>4. Reservations'
  BY <1>1, <1>2, <1>3, ToolsAssumption DEF QuotaInv, Reservations, Typed
<1>5. InFlight(c) = 0 /\ InFlight(c)' = Reserved(c) /\ \A d \in Calls : d # c => InFlight(d)' = InFlight(d)
  BY <1>1, <1>3 DEF QuotaInv, Reservations, InFlight, Nothing
<1>6. InFlightRecords' = InFlightRecords + Reserved(c) /\ InFlightRecords \in Nat
  BY <1>2, <1>5, InFlightType, OneCallCounts, ToolsAssumption
<1>7. QuotaKept'
  BY <1>1, <1>2, <1>6, ToolsAssumption DEF QuotaInv, QuotaKept
<1> QED
  BY <1>1, <1>2, <1>3, <1>4, <1>7 DEF QuotaInv

\* A call gives back what it did not read; to an earlier session it gives nothing.
LEMMA QuotaSettles ==
  ASSUME Typed, QuotaInv, NEW c \in Calls, place[c] = "records", NEW returned \in 0..reservation[c].reserved,
         Settles(c, returned), NEW where \in Places \ {"records"}, Goes(c, where), UNCHANGED generation
  PROVE  QuotaInv'
<1>1. /\ reservation' = [reservation EXCEPT ![c] = Nothing] /\ place' = [place EXCEPT ![c] = where]
      /\ Nothing \in Held
  BY ToolsAssumption DEF Settles, Goes, Nothing, Held
<1>2. /\ reservation'[c] = Nothing /\ \A d \in Calls : d # c => reservation'[d] = reservation[d]
      /\ reservation' \in [Calls -> Held] /\ reservation[c] \in Held
  BY <1>1 DEF QuotaInv
<1>3. Reservations'
  BY <1>1, <1>2, ToolsAssumption DEF QuotaInv, Reservations, Typed, Nothing
<1>4. InFlight(c)' = 0 /\ \A d \in Calls : d # c => InFlight(d)' = InFlight(d)
  BY <1>2 DEF InFlight, Nothing
<1>5. /\ InFlightRecords \in Nat /\ InFlightRecords >= InFlight(c)
      /\ InFlightRecords' = InFlightRecords - InFlight(c) /\ InFlight(c) \in 0..Quota
  BY <1>4, InFlightType, OneCallCounts, ToolsAssumption
<1>6. recordsUsed \in 0..Quota /\ delivered \in 0..Quota /\ recordsUsed = delivered + InFlightRecords
  BY DEF QuotaInv, QuotaKept
<1>7. reservation[c].reserved \in 0..Quota /\ returned \in 0..Quota /\ returned <= reservation[c].reserved
  BY <1>2, ToolsAssumption DEF Held
<1>8. CASE reservation[c].generation = generation
  <2>1. /\ recordsUsed' = recordsUsed - (reservation[c].reserved - returned) /\ delivered' = delivered + returned
        /\ InFlight(c) = reservation[c].reserved
    BY <1>8 DEF Settles, Counted, InFlight
  <2>2. recordsUsed' \in 0..Quota /\ delivered' \in 0..Quota /\ recordsUsed' = delivered' + InFlightRecords'
    BY <1>5, <1>6, <1>7, <2>1, ToolsAssumption
  <2> QED
    BY <1>2, <1>3, <2>2, ToolsAssumption DEF QuotaInv, QuotaKept
<1>9. CASE reservation[c].generation # generation
  <2>1. recordsUsed' = recordsUsed /\ delivered' = delivered /\ InFlight(c) = 0
    BY <1>9 DEF Settles, Counted, InFlight
  <2> QED
    BY <1>2, <1>3, <1>5, <1>6, <2>1, ToolsAssumption DEF QuotaInv, QuotaKept
<1> QED
  BY <1>8, <1>9

LEMMA QuotaResets == ASSUME Typed, QuotaInv, ResetSession PROVE QuotaInv'
<1>1. /\ generation' = generation + 1 /\ recordsUsed' = 0 /\ delivered' = 0
      /\ UNCHANGED <<place, reservation>>
  BY DEF ResetSession
<1>2. Reservations'
  BY <1>1 DEF QuotaInv, Reservations, Typed, Held
<1>3. \A c \in Calls : InFlight(c)' = 0
  BY <1>1 DEF QuotaInv, Reservations, Typed, Held, InFlight
<1>4. (UNION {{c} \X (1..InFlight(c)) : c \in Calls})' = {}
  BY <1>3
<1>5. InFlightRecords' = 0
  BY <1>4, FS_EmptySet DEF InFlightRecords
<1> QED
  BY <1>1, <1>2, <1>5, ToolsAssumption DEF QuotaInv, QuotaKept

LEMMA QuotaNext == ASSUME Typed, QuotaInv, [Next]_vars PROVE QuotaInv'
<1> USE DEF policy, session, callData, waiting, history, Places
<1>1. ASSUME NEW c \in Calls, NEW k \in Kinds, NEW l \in Layouts, Begins(c, k, l) PROVE QuotaInv'
  BY <1>1, QuotaMoves DEF Begins
<1>2. ASSUME NEW c \in Calls, LayoutIsAllowed(c) \/ LayoutRefused(c) \/ FieldsRefused(c) PROVE QuotaInv'
  BY <1>2, QuotaMoves DEF LayoutIsAllowed, Listed, LayoutRefused, FieldsRefused
<1>3. ASSUME NEW c \in Calls, JoinsPrompt(c) PROVE QuotaInv'
  BY <1>3, QuotaMoves DEF JoinsPrompt, MustAsk, Listed, Waits
<1>4. ASSUME NEW c \in Calls, OpensPrompt(c) PROVE QuotaInv'
  <2>1. /\ Goes(c, "consent") /\ place[c] # "records"
        /\ UNCHANGED <<generation, recordsUsed, delivered, reservation>>
    BY <1>4 DEF OpensPrompt, MustAsk, Listed, Waits
  <2> QED
    BY <2>1, QuotaMoves
<1>5. ASSUME NEW c \in Calls, RecordsFail(c) PROVE QuotaInv'
  <2>1. 0 \in 0..reservation[c].reserved
    BY ToolsAssumption DEF QuotaInv, Held
  <2> QED
    BY <1>5, <2>1, QuotaSettles DEF RecordsFail
<1>6. ASSUME NEW c \in Calls, RecordsArrive(c) PROVE QuotaInv'
  <2>1. 1 \in 0..reservation[c].reserved
    BY <1>6, ToolsAssumption DEF RecordsArrive, QuotaInv, Reservations, Held
  <2>2. PICK returned \in 0..reservation[c].reserved, where \in {"over", "confirm"} :
          Settles(c, returned) /\ Goes(c, where) /\ UNCHANGED generation /\ place[c] = "records"
    BY <1>6, <2>1 DEF RecordsArrive
  <2> QED
    BY <2>2, QuotaSettles
<1>7. ASSUME NEW c \in Calls, AsksToCreate(c) PROVE QuotaInv'
  BY <1>7, QuotaMoves DEF AsksToCreate
<1>8. ASSUME NEW c \in Calls, UserConfirms(c) \/ NotConfirmed(c) PROVE QuotaInv'
  BY <1>8, QuotaMoves DEF UserConfirms, NotConfirmed
<1>9. ASSUME NEW c \in Calls, StillTheSame(c) \/ WriteEnds(c) PROVE QuotaInv'
  BY <1>9, QuotaMoves DEF StillTheSame, WriteEnds
<1>10. ASSUME NEW c \in Calls, ClientAborts(c) PROVE QuotaInv'
  BY <1>10, QuotaFramed DEF ClientAborts
<1>11. ASSUME NEW prompt \in dialogs, NEW allow \in BOOLEAN, UserAnswers(prompt, allow) PROVE QuotaInv'
  <2>1. \A c \in Calls : place'[c] = "records" <=> place[c] = "records"
    BY <1>11 DEF UserAnswers, Waiters, Typed
  <2> QED
    BY <1>11, <2>1, QuotaFramed DEF UserAnswers
<1>12. CASE PolicyChanges
  BY <1>12, QuotaFramed DEF PolicyChanges
<1>13. CASE UNCHANGED vars
  BY <1>13, QuotaFramed DEF vars
<1> QED
  BY <1>1, <1>2, <1>3, <1>4, <1>5, <1>6, <1>7, <1>8, <1>9, <1>10, <1>11, <1>12, <1>13, QuotaReserves, QuotaResets
  DEF Next, CallStep

LEMMA QuotaInvariance == Spec => [](Typed /\ QuotaInv)
<1>1. Init => Typed /\ QuotaInv
  BY TypedInit, QuotaInit
<1>2. Typed /\ QuotaInv /\ [Next]_vars => Typed' /\ QuotaInv'
  BY TypedNext, QuotaNext
<1> QED
  BY <1>1, <1>2, PTL DEF Spec

(***************************************************************************)
(* The types, for any calls, layouts and caps.                             *)
(***************************************************************************)
THEOREM ToolTypes == Spec => []TypeOK
<1>1. Typed /\ QuotaInv => TypeOK
  BY DEF Typed, QuotaInv, TypeOK
<1> QED
  BY QuotaInvariance, <1>1, PTL

(***************************************************************************)
(* However many calls read at the same time, and whenever a new session    *)
(* starts, the session counts what was read in it and what calls in flight *)
(* hold in it, and never more than the quota.                              *)
(***************************************************************************)
THEOREM CallsKeepToQuota == Spec => []QuotaKept
<1>1. QuotaInv => QuotaKept
  BY DEF QuotaInv
<1> QED
  BY QuotaInvariance, <1>1, PTL
=============================================================================
