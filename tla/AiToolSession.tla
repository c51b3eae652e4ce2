---------------------------- MODULE AiToolSession ----------------------------
(***************************************************************************)
(* The session of the AI tools (ai/aiToolService.ts, ai/tools/reads.ts and *)
(* writes.ts): every call of a tool passes the policy, asks the user before*)
(* the first read of a layout, reserves records of the session's quota     *)
(* before it requests them, and asks again before it writes.  Calls run at *)
(* the same time; the user may answer late, switch the tools off or start  *)
(* a new session; the client may cancel (ai/mcp/aiMcpServer.ts).           *)
(***************************************************************************)
EXTENDS Integers, FiniteSets

CONSTANTS
    Calls,        \* invocations of tools
    Layouts,
    NoPrompt,     \* no value
    Quota,        \* SESSION_RECORD_QUOTA
    Wanted,       \* records a find asks for
    WriteCap,     \* WRITES_PER_SESSION
    PromptCap,    \* MAX_CONSENT_PROMPTS
    MaxResets,    \* bound: sessions the user starts
    MaxChanges    \* bound: changes of settings and policy

ASSUME ToolsAssumption ==
    /\ {Quota, Wanted, WriteCap, PromptCap} \subseteq Nat \ {0}
    /\ {MaxResets, MaxChanges} \subseteq Nat
    /\ IsFiniteSet(Calls)

VARIABLES
    off,             \* baseRefusal(): kill switch, settings, policy, trust, offline mode
    writesOn,        \* allowWrites / allowScripts and the connection's aiAccess
    preset,          \* readableLayouts: layouts that need no approval
    generation,
    recordsUsed,
    writesUsed,
    consentPrompts,
    consentInFlight, \* the prompt new callers join, per layout
    consented, declined,
    dialogs,         \* the approval dialogs on the screen
    place,           \* where each call waits
    kind, layout,    \* the tool of a call and its layout
    aborted,         \* the call's AbortSignal
    waits,           \* the approval a call waits for
    since,           \* the generation it began to wait in
    reservation,     \* the records it holds
    delivered,       \* history: records read and counted in this session
    heard,           \* history: what the user said in this session while a call still waited for it
    changes

policy == <<off, writesOn, preset, changes>>
session == <<generation, recordsUsed, writesUsed, consentPrompts, consentInFlight, consented, declined>>
callData == <<kind, layout, aborted>>
waiting == <<waits, since>>
history == <<delivered, heard>>
vars == <<policy, session, dialogs, place, callData, waiting, reservation, history>>

Kinds == {"find", "edit", "create", "delete"}    \* "create" also stands for running a script
Places == {"idle", "layouts", "consent", "fields", "records", "confirm", "typing", "reread", "write", "over"}
Prompt == [layout : Layouts, generation : 0..MaxResets, number : 1..PromptCap]
Held == [reserved : 0..Quota, generation : 0..MaxResets]
Nothing == [reserved |-> 0, generation |-> 0]

ASSUME NoPromptAssumption == NoPrompt \notin Prompt

Init ==
    /\ off = FALSE /\ writesOn = TRUE /\ preset \in SUBSET Layouts /\ changes = 0
    /\ generation = 0 /\ recordsUsed = 0 /\ writesUsed = 0 /\ consentPrompts = 0
    /\ consentInFlight = [l \in Layouts |-> NoPrompt]
    /\ consented = {} /\ declined = {}
    /\ dialogs = {}
    /\ place = [c \in Calls |-> "idle"]
    /\ kind = [c \in Calls |-> "find"] /\ layout \in [Calls -> Layouts]
    /\ aborted = [c \in Calls |-> FALSE]
    /\ waits = [c \in Calls |-> NoPrompt]
    /\ since = [c \in Calls |-> 0]
    /\ reservation = [c \in Calls |-> Nothing]
    /\ delivered = 0 /\ heard = {}

Goes(c, where) == place' = [place EXCEPT ![c] = where]
IsWrite(c) == kind[c] # "find"
Allowed(l) == l \in preset \cup consented
Open(c) == ~off /\ (IsWrite(c) => writesOn)

\* invoke: the gate is passed and the layouts are requested.
Begins(c, k, l) ==
    /\ place[c] = "idle"
    /\ ~off /\ (k # "find" => writesOn)
    /\ kind' = [kind EXCEPT ![c] = k]
    /\ layout' = [layout EXCEPT ![c] = l]
    /\ Goes(c, "layouts")
    /\ UNCHANGED <<policy, session, dialogs, aborted, waiting, reservation, history>>

(***************************************************************************)
(* useLayout, once the layouts are there                                   *)
(***************************************************************************)
Listed(c) == place[c] = "layouts" /\ ~aborted[c]

LayoutIsAllowed(c) ==
    /\ Listed(c) /\ Allowed(layout[c])
    /\ Goes(c, "fields")
    /\ UNCHANGED <<policy, session, dialogs, callData, waiting, reservation, history>>

MustAsk(c) == Listed(c) /\ ~Allowed(layout[c]) /\ layout[c] \notin declined

Waits(c, prompt) ==
    /\ Goes(c, "consent")
    /\ waits' = [waits EXCEPT ![c] = prompt]
    /\ since' = [since EXCEPT ![c] = generation]

JoinsPrompt(c) ==
    /\ MustAsk(c) /\ consentInFlight[layout[c]] # NoPrompt
    /\ Waits(c, consentInFlight[layout[c]])
    /\ UNCHANGED <<policy, session, dialogs, callData, reservation, history>>

OpensPrompt(c) ==
    /\ MustAsk(c) /\ consentInFlight[layout[c]] = NoPrompt /\ consentPrompts < PromptCap
    /\ consentPrompts' = consentPrompts + 1
    /\ LET prompt == [layout |-> layout[c], generation |-> generation, number |-> consentPrompts + 1] IN
       /\ consentInFlight' = [consentInFlight EXCEPT ![layout[c]] = prompt]
       /\ dialogs' = dialogs \cup {prompt}
       /\ Waits(c, prompt)
    /\ UNCHANGED <<policy, generation, recordsUsed, writesUsed, consented, declined, callData, reservation, history>>

\* An unknown or declined layout, too many prompts, or a request that fails.
LayoutRefused(c) ==
    /\ place[c] = "layouts"
    /\ Goes(c, "over")
    /\ UNCHANGED <<policy, session, dialogs, callData, waiting, reservation, history>>

(***************************************************************************)
(* The user answers an approval dialog, perhaps one of an earlier session. *)
(* Its waiters run before anything else does: cancelled ones and those of  *)
(* an earlier session leave without recording the answer, so that an       *)
(* answer only they waited for is lost (throwIfAborted, line 460).         *)
(***************************************************************************)
Waiters(prompt) == {c \in Calls : place[c] = "consent" /\ waits[c] = prompt}
\* Mutant: an answer counts for whoever waits, of whatever session.
CountsAlways(c) == ~aborted[c]
Counts(c) == ~aborted[c] /\ since[c] = generation

\* Mutant: the end of any dialog clears the entry.
SettledRegardless(prompt) == NoPrompt
Settled(prompt) == IF consentInFlight[prompt.layout] = prompt THEN NoPrompt ELSE consentInFlight[prompt.layout]

Answer(l, allow) == [layout |-> l, allow |-> allow]
UserAnswers(prompt, allow) ==
    LET told == {c \in Waiters(prompt) : Counts(c)}
        granted == IF allow /\ ~off THEN told ELSE {}
    IN
    /\ prompt \in dialogs
    /\ dialogs' = dialogs \ {prompt}
    /\ consentInFlight' = [consentInFlight EXCEPT ![prompt.layout] = Settled(prompt)]
    /\ place' = [c \in Calls |-> IF c \in granted THEN "fields"
                                 ELSE IF c \in Waiters(prompt) THEN "over" ELSE place[c]]
    /\ consented' = IF granted # {} THEN consented \cup {prompt.layout} ELSE consented
    /\ declined' = IF ~allow /\ told # {} THEN declined \cup {prompt.layout} ELSE declined
    /\ heard' = IF prompt.generation = generation /\ \E c \in Waiters(prompt) : ~aborted[c]
                THEN heard \cup {Answer(prompt.layout, allow)} ELSE heard
    /\ UNCHANGED <<policy, generation, recordsUsed, writesUsed, consentPrompts, callData, waiting, reservation, delivered>>

(***************************************************************************)
(* Reading: withRecords reserves before the request and settles after it.  *)
(***************************************************************************)
Remaining == Quota - recordsUsed
Asked(c) == IF kind[c] = "find" THEN Wanted ELSE 1
\* Mutant: a request reserves what it asks for.
ReservedWhole(c) == Asked(c)
Reserved(c) == IF Asked(c) < Remaining THEN Asked(c) ELSE Remaining

ReservesRecords(c) ==
    /\ place[c] = "fields" /\ kind[c] # "create" /\ Remaining > 0
    /\ reservation' = [reservation EXCEPT ![c] = [reserved |-> Reserved(c), generation |-> generation]]
    /\ recordsUsed' = recordsUsed + Reserved(c)
    /\ Goes(c, "records")
    /\ UNCHANGED <<policy, generation, writesUsed, consentPrompts, consentInFlight, consented, declined, dialogs, callData, waiting, history>>

\* The fields are unusable, the quota is used up, or a dry run ends here.
FieldsRefused(c) ==
    /\ place[c] = "fields"
    /\ Goes(c, "over")
    /\ UNCHANGED <<policy, session, dialogs, callData, waiting, reservation, history>>

\* settleRecords, with what the session counts as read
\* Mutant: what is settled counts in whatever session.
CountedAlways(c) == TRUE
Counted(c) == reservation[c].generation = generation
Settles(c, returned) ==
    /\ recordsUsed' = IF Counted(c) THEN recordsUsed - (reservation[c].reserved - returned) ELSE recordsUsed
    /\ delivered' = IF reservation[c].generation = generation THEN delivered + returned ELSE delivered
    /\ reservation' = [reservation EXCEPT ![c] = Nothing]

RecordsArrive(c) ==
    /\ place[c] = "records" /\ ~aborted[c]
    /\ IF kind[c] = "find"
       THEN /\ \E returned \in 0..reservation[c].reserved : Settles(c, returned)
            /\ Goes(c, "over")
            /\ UNCHANGED writesUsed
       ELSE /\ Settles(c, 1)
            /\ \/ Goes(c, "over") /\ UNCHANGED writesUsed    \* nothing to change, a dry run, the caps
               \/ writesUsed < WriteCap /\ writesUsed' = writesUsed + 1 /\ Goes(c, "confirm")
    /\ UNCHANGED <<policy, generation, consentPrompts, consentInFlight, consented, declined, dialogs, callData, waiting, heard>>

RecordsFail(c) ==
    /\ place[c] = "records"
    /\ Settles(c, 0)
    /\ Goes(c, "over")
    /\ UNCHANGED <<policy, generation, writesUsed, consentPrompts, consentInFlight, consented, declined, dialogs, callData, waiting, heard>>

(***************************************************************************)
(* Writing: a dialog, the checks once more, for a deletion a second dialog *)
(* and the record read again.                                              *)
(***************************************************************************)
AsksToCreate(c) ==
    /\ place[c] = "fields" /\ kind[c] = "create" /\ writesUsed < WriteCap
    /\ writesUsed' = writesUsed + 1
    /\ Goes(c, "confirm")
    /\ UNCHANGED <<policy, generation, recordsUsed, consentPrompts, consentInFlight, consented, declined, dialogs, callData, waiting, reservation, history>>

\* signal.throwIfAborted and recheck
\* Mutants: the two checks left out.
CancelledNever(c) == FALSE
RecheckPolicy(c) == Open(c)
Cancelled(c) == aborted[c]
Recheck(c) == Open(c) /\ Allowed(layout[c])

UserConfirms(c) ==
    /\ place[c] \in {"confirm", "typing"} /\ ~Cancelled(c) /\ Recheck(c)
    /\ Goes(c, IF kind[c] # "delete" THEN "write" ELSE IF place[c] = "confirm" THEN "typing" ELSE "reread")
    /\ UNCHANGED <<policy, session, dialogs, callData, waiting, reservation, history>>

\* A "no", or a "yes" that does not count any more.
NotConfirmed(c) ==
    /\ place[c] \in {"confirm", "typing"}
    /\ Goes(c, "over")
    /\ UNCHANGED <<policy, session, dialogs, callData, waiting, reservation, history>>

\* The record is the one the user saw; the policy is not asked again.
StillTheSame(c) ==
    /\ place[c] = "reread" /\ ~aborted[c]
    /\ Goes(c, "write")
    /\ UNCHANGED <<policy, session, dialogs, callData, waiting, reservation, history>>

WriteEnds(c) ==
    /\ place[c] \in {"reread", "write"}
    /\ Goes(c, "over")
    /\ UNCHANGED <<policy, session, dialogs, callData, waiting, reservation, history>>

(***************************************************************************)
(* The client cancels or disconnects; the user starts a new session or     *)
(* changes what the tools may do.                                          *)
(***************************************************************************)
ClientAborts(c) ==
    /\ place[c] \notin {"idle", "over"} /\ ~aborted[c]
    /\ aborted' = [aborted EXCEPT ![c] = TRUE]
    /\ UNCHANGED <<policy, session, dialogs, place, kind, layout, waiting, reservation, history>>

ResetSession ==
    /\ generation < MaxResets
    /\ generation' = generation + 1
    /\ recordsUsed' = 0 /\ writesUsed' = 0 /\ consentPrompts' = 0
    /\ consented' = {} /\ declined' = {}
    /\ consentInFlight' = [l \in Layouts |-> NoPrompt]
    /\ delivered' = 0 /\ heard' = {}
    /\ UNCHANGED <<policy, dialogs, place, callData, waiting, reservation>>

PolicyChanges ==
    /\ changes < MaxChanges
    /\ changes' = changes + 1
    /\ \/ off' = ~off /\ UNCHANGED <<writesOn, preset>>
       \/ writesOn' = ~writesOn /\ UNCHANGED <<off, preset>>
       \/ preset' \in SUBSET Layouts /\ UNCHANGED <<off, writesOn>>
    /\ UNCHANGED <<session, dialogs, place, callData, waiting, reservation, history>>

CallStep(c) ==
    \/ LayoutIsAllowed(c) \/ JoinsPrompt(c) \/ OpensPrompt(c) \/ LayoutRefused(c)
    \/ ReservesRecords(c) \/ FieldsRefused(c) \/ RecordsArrive(c) \/ RecordsFail(c)
    \/ AsksToCreate(c) \/ UserConfirms(c) \/ NotConfirmed(c) \/ StillTheSame(c) \/ WriteEnds(c)

Next ==
    \/ \E c \in Calls : \/ \E k \in Kinds, l \in Layouts : Begins(c, k, l)
                        \/ CallStep(c) \/ ClientAborts(c)
    \/ \E prompt \in dialogs, allow \in BOOLEAN : UserAnswers(prompt, allow)
    \/ ResetSession \/ PolicyChanges

Spec == Init /\ [][Next]_vars

-----------------------------------------------------------------------------
TypeOK ==
    /\ off \in BOOLEAN /\ writesOn \in BOOLEAN /\ preset \subseteq Layouts /\ changes \in 0..MaxChanges
    /\ generation \in 0..MaxResets
    /\ recordsUsed \in 0..Quota
    /\ writesUsed \in 0..WriteCap /\ consentPrompts \in 0..PromptCap
    /\ consentInFlight \in [Layouts -> Prompt \cup {NoPrompt}]
    /\ consented \subseteq Layouts /\ declined \subseteq Layouts
    /\ dialogs \subseteq Prompt
    /\ place \in [Calls -> Places] /\ kind \in [Calls -> Kinds] /\ layout \in [Calls -> Layouts]
    /\ aborted \in [Calls -> BOOLEAN]
    /\ waits \in [Calls -> Prompt \cup {NoPrompt}] /\ since \in [Calls -> 0..MaxResets]
    /\ reservation \in [Calls -> Held]
    /\ delivered \in 0..Quota /\ heard \subseteq [layout : Layouts, allow : BOOLEAN]

(***************************************************************************)
(* Parallel calls cannot exceed the quota, nor lose any of it: what the    *)
(* session counts is what finds and the first reads of edits and deletions *)
(* returned in it and what calls in flight reserved in it, also when a new *)
(* session starts while they wait (reserveRecords, settleRecords,          *)
(* resetSession).  The second read of a deletion does not count.           *)
(***************************************************************************)
InFlight(c) == IF reservation[c].generation = generation THEN reservation[c].reserved ELSE 0
InFlightRecords == Cardinality(UNION {{c} \X (1..InFlight(c)) : c \in Calls})
QuotaKept == recordsUsed = delivered + InFlightRecords /\ recordsUsed <= Quota

(***************************************************************************)
(* Approvals and refusals are answers the user gave in this session, to    *)
(* this layout, while a call that was not cancelled waited, and never both *)
(* (useLayout).                                                            *)
(***************************************************************************)
AnswersOfThisSession ==
    /\ \A l \in consented : Answer(l, TRUE) \in heard
    /\ \A l \in declined : Answer(l, FALSE) \in heard
    /\ consented \cap declined = {}

(***************************************************************************)
(* However many calls arrive at once, the user is asked about a layout by  *)
(* one dialog at a time; a dialog left over from an earlier session does   *)
(* not change that (consentInFlight and its finally).                      *)
(***************************************************************************)
OneDialogPerLayout ==
    \A d, e \in dialogs : d.layout = e.layout /\ d.generation = e.generation => d = e

(***************************************************************************)
(* A "no" stands for the session: once the user declined a layout while a  *)
(* call still waited for the answer, the user is not asked about it again, *)
(* and no call gets past the approval to read it, unless the user's own    *)
(* settings list it: not one that waits already, nor by a dialog left over *)
(* from an earlier session.  ADR-0004 says it of every "no"; one that only *)
(* cancelled calls waited for is lost (useLayout).                         *)
(***************************************************************************)
HeardNoStands ==
    [][generation' = generation =>
         \A l \in Layouts : Answer(l, FALSE) \in heard =>
           /\ \A d \in dialogs' \ dialogs : d.layout # l
           /\ l \notin preset =>
                \A c \in Calls : layout[c] = l /\ place[c] \in {"layouts", "consent"} => place'[c] # "fields"]_vars

(***************************************************************************)
(* USER_GUIDE.md: if the client cancels or disconnects while a dialog is   *)
(* open, nothing is sent whatever the user answers.                        *)
(***************************************************************************)
NothingSentAfterCancel ==
    [][\A c \in Calls : aborted[c] /\ place[c] # "write" => place'[c] # "write"]_vars

(***************************************************************************)
(* A "yes" does not outlast the policy: an edit, a new record or a script  *)
(* is sent only while the tools are on, writes are allowed and the layout  *)
(* is listed or approved in this session.  For a deletion that is so when  *)
(* the second dialog is answered; the record is read again after it, and   *)
(* what changes during that read does not stop the deletion (recheck,      *)
(* writes.ts deleteRecord).                                                *)
(***************************************************************************)
WritesUnderPolicy ==
    [][\A c \in Calls :
         LET agreed == ~off /\ writesOn /\ (layout[c] \in preset \/ Answer(layout[c], TRUE) \in heard) IN
         /\ place[c] # "write" /\ place'[c] = "write" =>
              IF kind[c] = "delete" THEN place[c] = "reread" ELSE agreed
         /\ place[c] # "reread" /\ place'[c] = "reread" => place[c] = "typing" /\ agreed]_vars
=============================================================================
