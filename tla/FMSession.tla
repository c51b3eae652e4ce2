------------------------------ MODULE FMSession ------------------------------
(***************************************************************************)
(* The life of the Data API session of ONE connection profile, as           *)
(* extension/src/services/fmClient.ts keeps it.  Every map of FMClient is   *)
(* keyed by profile id and no operation touches two keys, so one profile is *)
(* the whole state.                                                         *)
(*                                                                         *)
(* Processes share the profile: authenticated requests (requestWithAuth),   *)
(* Connect commands and Disconnect commands.  JavaScript runs one           *)
(* continuation at a time, so an action is the code between two awaits.     *)
(*                                                                         *)
(* Not modelled here: the health shown in the status bar, the layout        *)
(* caches a sign-in drops, proxy profiles (the proxy owns their sessions).  *)
(***************************************************************************)
EXTENDS Integers, Sequences, FiniteSets

CONSTANTS
    Requests,        \* authenticated requests, each run once
    Connects,        \* runs of the Connect command
    Disconnects,     \* runs of the Disconnect command
    Passwords,       \* credential stamps: server, database, user and password
    None,            \* no pause, no registered sign-in
    MaxAge,          \* filemaker.session.maxAgeMinutes
    Lead,            \* filemaker.session.refreshLeadSeconds
    FirstWait,       \* FIRST_SESSION_LIMIT_BACKOFF_MS
    MaxWait,         \* MAX_SESSION_LIMIT_BACKOFF_MS
    ConnectAttempts, \* attempts of one Connect: BackoffPolicy.maxRetries + 1
    Budget           \* how often each event of the environment may happen

Procs == Requests \cup Connects \cup Disconnects

\* save: the wizard saves the profile; admin: the account's password changes on
\* the server; spurious: a 401 for a token that still works; restart: the window
\* reloads; loss: an answer of the server, or a logout, is lost.
Events == {"save", "admin", "spurious", "restart", "loss"}

ASSUME ProcsAssumption ==
    /\ Requests \cap Connects = {}
    /\ Requests \cap Disconnects = {}
    /\ Connects \cap Disconnects = {}
    /\ None \notin Procs
    /\ None \notin Passwords
ASSUME TimeAssumption ==
    /\ MaxAge \in Nat /\ Lead \in Nat
    /\ FirstWait \in Nat /\ MaxWait \in Nat /\ FirstWait <= MaxWait
ASSUME BoundAssumption ==
    /\ ConnectAttempts \in Nat
    /\ Budget \in [Events -> Nat]

NoToken == 0         \* tokens are numbered from 1 in the order they are issued
Unknown == -1        \* no issuance time recorded

VARIABLES
    \* kept by FMClient in memory
    age,             \* time since SessionTokenTracker.issuedAt, or Unknown
    inFlight,        \* inFlightRefresh: the process whose sign-in is registered
    pause,           \* authPauses: the stamp FileMaker rejected, or None
    waitLeft,        \* time until sessionLimitBackoff.until
    waitDelay,       \* the delay that entry was set with, 0 when there is none
    suspended,       \* proactiveSuspended
    \* kept by the secret store
    stored,          \* the session token
    password,        \* the password, as the stamp it leads to
    calls,           \* processes whose call to the secret store has not returned
    \* each process
    pc,
    seen,            \* what its last read of the stored token returned
    tok,             \* the token it sends
    target,          \* Disconnect: the session it deletes
    tries,           \* sends of a request, attempts of a Connect
    \* each sign-in (createSession), under the process that started it
    step,
    mode,            \* needed, proactive, renew or user
    old,             \* the token it replaces and will close
    stamp,           \* the credentials it sends
    answer,
    new,             \* the token it obtained
    \* the server and the environment
    live,            \* sessions open on the server
    issued,          \* the number of tokens issued so far
    accepted,        \* the password the server accepts
    retiring,        \* tokens whose background logout is on its way
    budget,
    \* history: no action of the program reads these
    strikes,         \* needed sign-ins rejected since the user acted or one
                     \* succeeded, from the first whose answer arrived on
    earlyStrikes,    \* the same of sign-ins ahead of expiry, heard of or not
    writtenOff       \* sessions the program cannot close any more

memory == <<age, inFlight, pause, waitLeft, waitDelay, suspended>>
limits == <<pause, waitLeft, waitDelay, suspended>>
secrets == <<stored, password>>
procvars == <<pc, seen, tok, target, tries>>
signin == <<step, mode, old, stamp, answer, new>>
server == <<live, issued, accepted, retiring>>
rejections == <<strikes, earlyStrikes>>
history == <<rejections, writtenOff>>
vars == <<memory, secrets, calls, procvars, signin, server, budget, history>>

Waiting == {"await", "awaitRenew"}
Finished == {"ok", "failed", "cancelled"}
Steps == {"idle", "ensure", "renew", "sent", "connecting", "backoff", "lookup",
          "again", "answered", "signingOut"} \cup Waiting \cup Finished
LoginSteps == {"idle", "deleting", "password", "sent", "answered", "storing",
               "recording"}
Modes == {"needed", "proactive", "renew", "user"}
Answers == {"none", "token", "rejected", "busy", "error", "blocked"}

MemoryType ==
    /\ age \in 0..MaxAge \cup {Unknown}
    /\ inFlight \in Procs \cup {None}
    /\ pause \in Passwords \cup {None}
    /\ waitLeft \in Nat
    /\ waitDelay \in Nat
    /\ suspended \in BOOLEAN
StoreType ==
    /\ stored \in Nat
    /\ password \in Passwords
    /\ calls \in Seq(Procs)
ProcType ==
    /\ pc \in [Procs -> Steps]
    /\ seen \in [Procs -> Nat]
    /\ tok \in [Procs -> Nat]
    /\ target \in [Procs -> Nat]
    /\ tries \in [Procs -> Nat]
SignInType ==
    /\ step \in [Procs -> LoginSteps]
    /\ mode \in [Procs -> Modes]
    /\ old \in [Procs -> Nat]
    /\ stamp \in [Procs -> Passwords]
    /\ answer \in [Procs -> Answers]
    /\ new \in [Procs -> Nat]
ServerType ==
    /\ live \subseteq Nat
    /\ issued \in Nat
    /\ accepted \in Passwords
    /\ retiring \subseteq Nat
    /\ budget \in [Events -> Nat]
HistoryType ==
    /\ strikes \in [Passwords -> Nat]
    /\ earlyStrikes \in [Passwords -> Nat]
    /\ writtenOff \subseteq Nat

TypeOK ==
    MemoryType /\ StoreType /\ ProcType /\ SignInType /\ ServerType /\ HistoryType

\* A fresh window: a token of an earlier window may still be stored and live.
Init ==
    /\ age = Unknown /\ inFlight = None
    /\ pause = None /\ waitLeft = 0 /\ waitDelay = 0 /\ suspended = FALSE
    /\ stored \in {NoToken, 1} /\ issued = stored
    /\ password \in Passwords /\ accepted \in Passwords
    /\ calls = <<>>
    /\ pc = [p \in Procs |-> "idle"]
    /\ seen = [p \in Procs |-> NoToken]
    /\ tok = [p \in Procs |-> NoToken]
    /\ target = [p \in Procs |-> NoToken]
    /\ tries = [p \in Procs |-> 0]
    /\ step = [p \in Procs |-> "idle"]
    /\ mode = [p \in Procs |-> IF p \in Connects THEN "user" ELSE "needed"]
    /\ old = [p \in Procs |-> NoToken]
    /\ stamp = [p \in Procs |-> password]
    /\ answer = [p \in Procs |-> "none"]
    /\ new = [p \in Procs |-> NoToken]
    /\ live \in SUBSET ({stored} \ {NoToken})
    /\ retiring = {}
    /\ budget = Budget
    /\ strikes = [w \in Passwords |-> 0]
    /\ earlyStrikes = [w \in Passwords |-> 0]
    /\ writtenOff = {}

\* The user acted, or a sign-in succeeded: earlier rejections count no more.
CleanSlate ==
    /\ strikes' = [w \in Passwords |-> 0]
    /\ earlyStrikes' = [w \in Passwords |-> 0]

Spend(e) == budget[e] > 0 /\ budget' = [budget EXCEPT ![e] = @ - 1]

-----------------------------------------------------------------------------
(***************************************************************************)
(* Time: sessionTokenTracker.ts.  Only comparisons with MaxAge and Lifetime  *)
(* matter, so an age stops growing at MaxAge and no bound on time is needed. *)
(***************************************************************************)
Lifetime == IF Lead >= MaxAge THEN MaxAge ELSE MaxAge - Lead

ShouldRefresh == Lead > 0 /\ age # Unknown /\ age >= Lifetime

PresumedLive == age # Unknown /\ age < MaxAge

-----------------------------------------------------------------------------
(***************************************************************************)
(* The secret store serves its calls one after the other, so calls take     *)
(* effect when they are made and return in that order; Returns(p) is the    *)
(* oldest call coming back to p.                                            *)
(***************************************************************************)
Calls(p) == calls' = Append(calls, p)
Returns(p) == calls # <<>> /\ Head(calls) = p /\ calls' = Tail(calls)
ReturnsAndCalls(p) ==
    calls # <<>> /\ Head(calls) = p /\ calls' = Append(Tail(calls), p)

\* p reads the stored token; it continues at place c with what it saw.
Reads(p, c) ==
    /\ seen' = [seen EXCEPT ![p] = stored]
    /\ pc' = [pc EXCEPT ![p] = c]

-----------------------------------------------------------------------------
(***************************************************************************)
(* ensureSessionToken: reuse the stored token, join the sign-in under way,  *)
(* or start one.  A Disconnect never renews ahead of expiry.                *)
(***************************************************************************)
RequestBegins(r) ==
    /\ pc[r] = "idle"
    /\ Reads(r, "ensure") /\ Calls(r)
    /\ tries' = [tries EXCEPT ![r] = 1]
    /\ UNCHANGED <<memory, secrets, tok, target, signin, server, budget, history>>

\* The second send of requestWithAuth, after a renewal (retryOn401 is false).
RequestBeginsAgain(r) ==
    /\ pc[r] = "again"
    /\ Reads(r, "ensure") /\ Calls(r)
    /\ tries' = [tries EXCEPT ![r] = 2]
    /\ UNCHANGED <<memory, secrets, tok, target, signin, server, budget, history>>

Reusable(p) ==
    /\ seen[p] # NoToken
    /\ p \in Disconnects \/ suspended \/ ~ShouldRefresh

EnsureReuses(p) ==
    /\ pc[p] = "ensure" /\ Reusable(p)
    /\ Returns(p)
    /\ tok' = [tok EXCEPT ![p] = seen[p]]
    /\ pc' = [pc EXCEPT ![p] = "sent"]
    /\ UNCHANGED <<memory, secrets, seen, target, tries, signin, server, budget, history>>

EnsureJoins(p) ==
    /\ pc[p] = "ensure" /\ ~Reusable(p)
    /\ inFlight # None
    /\ Returns(p)
    /\ pc' = [pc EXCEPT ![p] = "await"]
    /\ UNCHANGED <<memory, secrets, seen, tok, target, tries, signin, server, budget, history>>

\* createSession up to its first await, the read of the password.
Starts(p, m, replaced) ==
    /\ step' = [step EXCEPT ![p] = "password"]
    /\ mode' = [mode EXCEPT ![p] = m]
    /\ old' = [old EXCEPT ![p] = replaced]
    /\ stamp' = [stamp EXCEPT ![p] = password]
    /\ answer' = [answer EXCEPT ![p] = "none"]
    /\ new' = [new EXCEPT ![p] = NoToken]

\* Mutant: the check of inFlightRefresh is missing.
EnsureSignsInUnregistered(p) ==
    /\ pc[p] = "ensure" /\ ~Reusable(p)
    /\ ReturnsAndCalls(p)
    /\ inFlight' = p
    /\ pc' = [pc EXCEPT ![p] = "await"]
    /\ Starts(p, IF seen[p] = NoToken THEN "needed" ELSE "proactive", seen[p])
    /\ UNCHANGED <<age, limits, secrets, seen, tok, target, tries, server,
                   budget, history>>

EnsureSignsIn(p) ==
    /\ pc[p] = "ensure" /\ ~Reusable(p)
    /\ inFlight = None
    /\ ReturnsAndCalls(p)
    /\ inFlight' = p
    /\ pc' = [pc EXCEPT ![p] = "await"]
    /\ Starts(p, IF seen[p] = NoToken THEN "needed" ELSE "proactive", seen[p])
    /\ UNCHANGED <<age, limits, secrets, seen, tok, target, tries, server,
                   budget, history>>

-----------------------------------------------------------------------------
(***************************************************************************)
(* createSession.                                                          *)
(***************************************************************************)
Automatic(p) == mode[p] # "user"

\* assertAutomaticSignInAllowed: a pause for other credentials is dropped first.
PauseKept(p) == IF pause = stamp[p] THEN pause ELSE None
Refused(p) == Automatic(p) /\ (pause = stamp[p] \/ waitLeft > 0)

SignInRefused(p) ==
    /\ step[p] = "password" /\ Refused(p)
    /\ Returns(p)
    /\ pause' = PauseKept(p)
    /\ answer' = [answer EXCEPT ![p] = "blocked"]
    /\ step' = [step EXCEPT ![p] = "recording"]
    /\ UNCHANGED <<age, inFlight, waitLeft, waitDelay, suspended, secrets,
                   procvars, mode, old, stamp, new, server, budget, history>>

SignInSent(p) ==
    /\ step[p] = "password" /\ ~Refused(p)
    /\ Returns(p)
    /\ pause' = IF Automatic(p) THEN PauseKept(p) ELSE pause
    /\ step' = [step EXCEPT ![p] = "sent"]
    /\ UNCHANGED <<age, inFlight, waitLeft, waitDelay, suspended, secrets,
                   procvars, mode, old, stamp, answer, new, server, budget, history>>

\* The server opens a session.
SignInAccepted(p) ==
    /\ step[p] = "sent" /\ stamp[p] = accepted
    /\ issued' = issued + 1
    /\ live' = live \cup {issued + 1}
    /\ new' = [new EXCEPT ![p] = issued + 1]
    /\ answer' = [answer EXCEPT ![p] = "token"]
    /\ step' = [step EXCEPT ![p] = "answered"]
    /\ UNCHANGED <<memory, secrets, calls, procvars, mode, old, stamp, accepted,
                   retiring, budget, history>>

\* The server opens a session and its answer never arrives.
SignInLost(p) ==
    /\ step[p] = "sent" /\ stamp[p] = accepted
    /\ Spend("loss")
    /\ issued' = issued + 1
    /\ live' = live \cup {issued + 1}
    /\ writtenOff' = writtenOff \cup {issued + 1}
    /\ answer' = [answer EXCEPT ![p] = "error"]
    /\ step' = [step EXCEPT ![p] = "answered"]
    /\ UNCHANGED <<memory, secrets, calls, procvars, mode, old, stamp, new,
                   accepted, retiring, rejections>>

\* The server counts a rejected sign-in towards locking the account.  strikes
\* counts from the first rejection the client hears of: until then it cannot know.
RejectionCounted(p, heard) ==
    /\ strikes' = IF mode[p] \in {"needed", "renew"} /\ (heard \/ strikes[stamp[p]] > 0)
                  THEN [strikes EXCEPT ![stamp[p]] = @ + 1] ELSE strikes
    /\ earlyStrikes' = IF mode[p] = "proactive"
                       THEN [earlyStrikes EXCEPT ![stamp[p]] = @ + 1]
                       ELSE earlyStrikes

SignInRejected(p) ==
    /\ step[p] = "sent" /\ stamp[p] # accepted
    /\ answer' = [answer EXCEPT ![p] = "rejected"]
    /\ step' = [step EXCEPT ![p] = "answered"]
    /\ RejectionCounted(p, TRUE)
    /\ UNCHANGED <<memory, secrets, calls, procvars, mode, old, stamp, new,
                   server, budget, writtenOff>>

\* The server rejects the credentials and its answer never arrives.
SignInRejectionLost(p) ==
    /\ step[p] = "sent" /\ stamp[p] # accepted
    /\ Spend("loss")
    /\ answer' = [answer EXCEPT ![p] = "error"]
    /\ step' = [step EXCEPT ![p] = "answered"]
    /\ RejectionCounted(p, FALSE)
    /\ UNCHANGED <<memory, secrets, calls, procvars, mode, old, stamp, new,
                   server, writtenOff>>

\* No free session (956), or no Data API answer at all.
SignInUnavailable(p) ==
    /\ step[p] = "sent"
    /\ \E a \in {"busy", "error"} : answer' = [answer EXCEPT ![p] = a]
    /\ step' = [step EXCEPT ![p] = "answered"]
    /\ UNCHANGED <<memory, secrets, calls, procvars, mode, old, stamp, new,
                   server, budget, history>>

\* setSessionToken is called ...
SignInStored(p) ==
    /\ step[p] = "answered" /\ answer[p] = "token"
    /\ stored' = new[p]
    /\ Calls(p)
    /\ step' = [step EXCEPT ![p] = "storing"]
    /\ UNCHANGED <<memory, password, procvars, mode, old, stamp, answer, new,
                   server, budget, history>>

\* ... and returns: the token is dated and every limit on signing in is lifted.
SignInNoted(p) ==
    /\ step[p] = "storing"
    /\ Returns(p)
    /\ age' = 0
    /\ pause' = None /\ waitLeft' = 0 /\ waitDelay' = 0 /\ suspended' = FALSE
    /\ step' = [step EXCEPT ![p] = "recording"]
    /\ CleanSlate
    /\ UNCHANGED <<inFlight, secrets, procvars, mode, old, stamp, answer, new,
                   server, budget, writtenOff>>

\* min(30 s * 2^(attempts - 1), 5 min), from the delay before it.
NextDelay ==
    IF waitDelay = 0 THEN FirstWait
    ELSE IF 2 * waitDelay > MaxWait THEN MaxWait ELSE 2 * waitDelay

\* Mutant: a rejection pauses nothing.
RecordsFailureUnpaused(p) ==
    /\ pause' = pause
    /\ waitLeft' = IF answer[p] = "busy" THEN NextDelay ELSE waitLeft
    /\ waitDelay' = IF answer[p] = "busy" THEN NextDelay ELSE waitDelay

\* recordSignInFailure, which a renewal ahead of expiry skips.
RecordsFailure(p) ==
    /\ pause' = IF answer[p] = "rejected" THEN stamp[p] ELSE pause
    /\ waitLeft' = IF answer[p] = "busy" THEN NextDelay ELSE waitLeft
    /\ waitDelay' = IF answer[p] = "busy" THEN NextDelay ELSE waitDelay

SignInFailed(p) ==
    /\ step[p] = "answered" /\ answer[p] # "token"
    /\ IF mode[p] = "proactive" THEN UNCHANGED <<pause, waitLeft, waitDelay>>
                                ELSE RecordsFailure(p)
    /\ step' = [step EXCEPT ![p] = "recording"]
    /\ IF Automatic(p) THEN UNCHANGED rejections ELSE CleanSlate
    /\ UNCHANGED <<age, inFlight, suspended, secrets, calls, procvars, mode,
                   old, stamp, answer, new, server, budget, writtenOff>>

-----------------------------------------------------------------------------
(***************************************************************************)
(* The registered sign-in settles (then / catch / finally of the promise    *)
(* held in inFlightRefresh), after history and metrics were recorded.       *)
(***************************************************************************)
\* Mutant: the finally block does not take the sign-in off the register.
SettlesRegistered(p) ==
    /\ step[p] = "recording" /\ Automatic(p)
    /\ inFlight' = inFlight
    /\ step' = [step EXCEPT ![p] = "idle"]

Settles(p) ==
    /\ step[p] = "recording" /\ Automatic(p)
    /\ inFlight' = None
    /\ step' = [step EXCEPT ![p] = "idle"]

\* Mutant: those who joined a renewal are forgotten.
ResumeForgetful(t) ==
    /\ tok' = [q \in Procs |-> IF pc[q] = "await" THEN t ELSE tok[q]]
    /\ pc' = [q \in Procs |-> IF pc[q] = "await" THEN "sent" ELSE pc[q]]

\* Those waiting for a token send t; those waiting for a renewal try again.
Resume(t) ==
    /\ tok' = [q \in Procs |-> IF pc[q] = "await" THEN t ELSE tok[q]]
    /\ pc' = [q \in Procs |-> CASE pc[q] = "await" -> "sent"
                                [] pc[q] = "awaitRenew" -> "again"
                                [] OTHER -> pc[q]]

\* Mutant: the replaced session is not closed.
SettlesLeaking(p) ==
    /\ Settles(p) /\ answer[p] = "token"
    /\ Resume(new[p])
    /\ UNCHANGED <<age, limits, secrets, calls, seen, target, tries, mode,
                   old, stamp, answer, new, server, budget, history>>

\* Mutant: the new session is closed instead of the replaced one.
SettlesSwapped(p) ==
    /\ Settles(p) /\ answer[p] = "token"
    /\ Resume(new[p])
    /\ retiring' = IF old[p] # NoToken THEN retiring \cup {new[p]} ELSE retiring
    /\ UNCHANGED <<age, limits, secrets, calls, seen, target, tries, mode,
                   old, stamp, answer, new, live, issued, accepted, budget, history>>

\* The session a successful sign-in replaced is closed in the background.
SettlesSignedIn(p) ==
    /\ Settles(p) /\ answer[p] = "token"
    /\ Resume(new[p])
    /\ retiring' = retiring \cup ({old[p]} \ {NoToken, new[p]})
    /\ UNCHANGED <<age, limits, secrets, calls, seen, target, tries, mode,
                   old, stamp, answer, new, live, issued, accepted, budget, history>>

\* A renewal ahead of expiry that failed: go on with the token there was.
SettlesWithOld(p) ==
    /\ Settles(p) /\ answer[p] # "token" /\ mode[p] = "proactive"
    /\ suspended' = TRUE
    /\ Resume(old[p])
    /\ UNCHANGED <<age, pause, waitLeft, waitDelay, secrets, calls, seen,
                   target, tries, mode, old, stamp, answer, new, server, budget,
                   history>>

\* Everyone waiting fails; a waiting Disconnect goes on to its finally block.
SettlesFailed(p) ==
    /\ Settles(p) /\ answer[p] # "token" /\ mode[p] # "proactive"
    /\ pc' = [q \in Procs |-> IF pc[q] \notin Waiting THEN pc[q]
                              ELSE IF q \in Disconnects THEN "answered"
                              ELSE "failed"]
    /\ writtenOff' = writtenOff \cup ({old[p]} \ {NoToken})
    /\ UNCHANGED <<age, limits, secrets, calls, seen, tok, target, tries,
                   mode, old, stamp, answer, new, server, budget, rejections>>

-----------------------------------------------------------------------------
(***************************************************************************)
(* requestWithAuth: send, and after a 401 renew the session and send again. *)
(***************************************************************************)
RequestServed(r) ==
    /\ r \in Requests /\ pc[r] = "sent" /\ tok[r] \in live
    /\ pc' = [pc EXCEPT ![r] = "ok"]
    /\ UNCHANGED <<memory, secrets, calls, seen, tok, target, tries, signin,
                   server, budget, history>>

\* Any failure but a 401: a FileMaker error, a timeout, no network.
RequestFails(r) ==
    /\ r \in Requests /\ pc[r] = "sent"
    /\ pc' = [pc EXCEPT ![r] = "failed"]
    /\ UNCHANGED <<memory, secrets, calls, seen, tok, target, tries, signin,
                   server, budget, history>>

Unauthorized(r) ==
    IF tok[r] \in live THEN Spend("spurious") ELSE budget' = budget

\* The first 401: renewRejectedSession reads the stored token.
RequestRejected(r) ==
    /\ r \in Requests /\ pc[r] = "sent" /\ tries[r] = 1
    /\ Unauthorized(r)
    /\ Reads(r, "renew") /\ Calls(r)
    /\ UNCHANGED <<memory, secrets, tok, target, tries, signin, server, history>>

RequestRejectedAgain(r) ==
    /\ r \in Requests /\ pc[r] = "sent" /\ tries[r] > 1
    /\ Unauthorized(r)
    /\ pc' = [pc EXCEPT ![r] = "failed"]
    /\ UNCHANGED <<memory, secrets, calls, seen, tok, target, tries, signin,
                   server, history>>

\* The abort signal ends the wait of one request, never the shared sign-in.
RequestCancelled(r) ==
    /\ r \in Requests /\ pc[r] \in Waiting \cup {"sent"}
    /\ pc' = [pc EXCEPT ![r] = "cancelled"]
    /\ UNCHANGED <<memory, secrets, calls, seen, tok, target, tries, signin,
                   server, budget, history>>

AlreadyRenewed(r) == seen[r] # NoToken /\ seen[r] # tok[r]

RenewNotNeeded(r) ==
    /\ pc[r] = "renew" /\ AlreadyRenewed(r)
    /\ Returns(r)
    /\ pc' = [pc EXCEPT ![r] = "again"]
    /\ UNCHANGED <<memory, secrets, seen, tok, target, tries, signin, server, budget,
                   history>>

RenewJoins(r) ==
    /\ pc[r] = "renew" /\ ~AlreadyRenewed(r)
    /\ inFlight # None
    /\ Returns(r)
    /\ pc' = [pc EXCEPT ![r] = "awaitRenew"]
    /\ UNCHANGED <<memory, secrets, seen, tok, target, tries, signin, server, budget,
                   history>>

\* The rejected token is deleted first; it is closed later if it may be alive.
RenewSignsIn(r) ==
    /\ pc[r] = "renew" /\ ~AlreadyRenewed(r)
    /\ inFlight = None
    /\ ReturnsAndCalls(r)
    /\ inFlight' = r
    /\ stored' = NoToken
    /\ step' = [step EXCEPT ![r] = "deleting"]
    /\ mode' = [mode EXCEPT ![r] = "renew"]
    /\ old' = [old EXCEPT ![r] = IF PresumedLive THEN tok[r] ELSE NoToken]
    /\ pc' = [pc EXCEPT ![r] = "awaitRenew"]
    /\ writtenOff' = IF PresumedLive THEN writtenOff ELSE writtenOff \cup {tok[r]}
    /\ UNCHANGED <<age, limits, password, seen, tok, target, tries, stamp,
                   answer, new, server, budget, rejections>>

\* deleteSessionToken returned: forget the age and call createSession.
RenewCleared(r) ==
    /\ step[r] = "deleting"
    /\ ReturnsAndCalls(r)
    /\ age' = Unknown
    /\ Starts(r, "renew", old[r])
    /\ UNCHANGED <<inFlight, limits, secrets, procvars, server, budget, history>>

-----------------------------------------------------------------------------
(***************************************************************************)
(* The Connect command: createSession with userInitiated, outside the       *)
(* registered sign-ins, retried with backoff.                               *)
(***************************************************************************)
ConnectStarts(c) ==
    /\ c \in Connects /\ pc[c] \in {"idle", "backoff"}
    /\ Calls(c)
    /\ pc' = [pc EXCEPT ![c] = "connecting"]
    /\ tries' = [tries EXCEPT ![c] = @ + 1]
    /\ Starts(c, "user", NoToken)
    /\ UNCHANGED <<memory, secrets, seen, tok, target, server, budget, history>>

ConnectSettles(c) ==
    /\ step[c] = "recording" /\ mode[c] = "user"
    /\ step' = [step EXCEPT ![c] = "idle"]
    /\ UNCHANGED <<memory, secrets, calls, seen, tok, target, tries, mode, old,
                   stamp, answer, new, server, budget, history>>

ConnectSucceeds(c) ==
    /\ answer[c] = "token"
    /\ ConnectSettles(c)
    /\ pc' = [pc EXCEPT ![c] = "ok"]

ConnectFails(c) ==
    /\ answer[c] # "token"
    /\ ConnectSettles(c)
    /\ pc' = [pc EXCEPT ![c] = "failed"]

\* isRetryableConnectError: 956 and a lost connection are, a rejection is not.
ConnectBacksOff(c) ==
    /\ answer[c] \in {"busy", "error"} /\ tries[c] < ConnectAttempts
    /\ ConnectSettles(c)
    /\ pc' = [pc EXCEPT ![c] = "backoff"]

-----------------------------------------------------------------------------
(***************************************************************************)
(* The Disconnect command: deleteSession.  It reads the stored token twice: *)
(* for the path of its DELETE and, in ensureSessionToken, for the header.   *)
(***************************************************************************)
DisconnectBegins(d) ==
    /\ d \in Disconnects /\ pc[d] = "idle"
    /\ Calls(d)
    /\ target' = [target EXCEPT ![d] = stored]
    /\ pc' = [pc EXCEPT ![d] = "lookup"]
    /\ UNCHANGED <<memory, secrets, seen, tok, tries, signin, server, budget, history>>

DisconnectHasNothing(d) ==
    /\ pc[d] = "lookup" /\ target[d] = NoToken
    /\ Returns(d)
    /\ pc' = [pc EXCEPT ![d] = "ok"]
    /\ UNCHANGED <<memory, secrets, seen, tok, target, tries, signin, server, budget,
                   history>>

DisconnectEnsures(d) ==
    /\ pc[d] = "lookup" /\ target[d] # NoToken
    /\ ReturnsAndCalls(d)
    /\ Reads(d, "ensure")
    /\ UNCHANGED <<memory, secrets, tok, target, tries, signin, server, budget, history>>

\* The server authenticates the header and closes the session in the path.
LogoutServed(d) ==
    /\ d \in Disconnects /\ pc[d] = "sent" /\ tok[d] \in live
    /\ live' = live \ {target[d]}
    /\ pc' = [pc EXCEPT ![d] = "answered"]
    /\ UNCHANGED <<memory, secrets, calls, seen, tok, target, tries, signin, issued,
                   accepted, retiring, budget, history>>

LogoutFails(d) ==
    /\ d \in Disconnects /\ pc[d] = "sent"
    /\ pc' = [pc EXCEPT ![d] = "answered"]
    /\ UNCHANGED <<memory, secrets, calls, seen, tok, target, tries, signin, server,
                   budget, history>>

\* The finally block: whatever happened, the stored token is deleted ...
SignOutDeletes(d) ==
    /\ pc[d] = "answered"
    /\ Calls(d)
    /\ stored' = NoToken
    /\ pc' = [pc EXCEPT ![d] = "signingOut"]
    /\ UNCHANGED <<memory, password, seen, tok, target, tries, signin, server, budget,
                   history>>

\* ... and its age forgotten.
SignOutDone(d) ==
    /\ pc[d] = "signingOut"
    /\ Returns(d)
    /\ age' = Unknown
    /\ pc' = [pc EXCEPT ![d] = "ok"]
    /\ UNCHANGED <<inFlight, limits, secrets, seen, tok, target, tries, signin,
                   server, budget, history>>

-----------------------------------------------------------------------------
(***************************************************************************)
(* retireSession and the world around the client.                          *)
(***************************************************************************)
RetireArrives(t) ==
    /\ t \in retiring
    /\ retiring' = retiring \ {t}
    /\ live' = live \ {t}
    /\ UNCHANGED <<memory, secrets, calls, procvars, signin, issued, accepted, budget,
                   history>>

RetireLost(t) ==
    /\ t \in retiring
    /\ Spend("loss")
    /\ retiring' = retiring \ {t}
    /\ writtenOff' = writtenOff \cup {t}
    /\ UNCHANGED <<memory, secrets, calls, procvars, signin, live, issued, accepted, rejections>>

\* Idle for 15 minutes, closed by the administrator, or the server restarted.
SessionEnds(t) ==
    /\ t \in live
    /\ live' = live \ {t}
    /\ UNCHANGED <<memory, secrets, calls, procvars, signin, issued, accepted,
                   retiring, budget, history>>

PasswordChanges(w) ==
    /\ w # accepted
    /\ Spend("admin")
    /\ accepted' = w
    /\ UNCHANGED <<memory, secrets, calls, procvars, signin, live, issued, retiring, history>>

\* Mutant: the wait is counted below zero.
TimePassesUnclamped ==
    /\ age' = IF age \in {Unknown, MaxAge} THEN age ELSE age + 1
    /\ waitLeft' = waitLeft - 1
    /\ UNCHANGED <<inFlight, pause, waitDelay, suspended, secrets, calls, procvars,
                   signin, server, budget, history>>

TimePasses ==
    /\ age' = IF age \in {Unknown, MaxAge} THEN age ELSE age + 1
    /\ waitLeft' = IF waitLeft = 0 THEN 0 ELSE waitLeft - 1
    /\ UNCHANGED <<inFlight, pause, waitDelay, suspended, secrets, calls, procvars,
                   signin, server, budget, history>>

\* The wizard saves the profile: clearAuthPause, then the password.
ProfileSaved(w) ==
    /\ Spend("save")
    /\ pause' = None /\ waitLeft' = 0 /\ waitDelay' = 0 /\ suspended' = FALSE
    /\ password' = w
    /\ CleanSlate
    /\ UNCHANGED <<age, inFlight, stored, calls, procvars, signin, server, writtenOff>>

\* The window reloads: memory and everything under way is gone.
WindowReloads ==
    /\ Spend("restart")
    /\ age' = Unknown /\ inFlight' = None
    /\ pause' = None /\ waitLeft' = 0 /\ waitDelay' = 0 /\ suspended' = FALSE
    /\ calls' = <<>>
    /\ pc' = [p \in Procs |-> IF pc[p] = "idle" THEN "idle"
                              ELSE IF pc[p] \in Finished THEN pc[p] ELSE "failed"]
    /\ step' = [p \in Procs |-> "idle"]
    /\ retiring' = {}
    /\ CleanSlate
    /\ writtenOff' = writtenOff \cup (live \ {stored})
    /\ UNCHANGED <<secrets, seen, tok, target, tries, mode, old, stamp, answer, new,
                   live, issued, accepted>>

-----------------------------------------------------------------------------
SignInStep(p) ==
    \/ SignInRefused(p) \/ SignInSent(p)
    \/ SignInAccepted(p) \/ SignInLost(p)
    \/ SignInRejected(p) \/ SignInRejectionLost(p) \/ SignInUnavailable(p)
    \/ SignInStored(p) \/ SignInNoted(p) \/ SignInFailed(p)
    \/ SettlesSignedIn(p) \/ SettlesWithOld(p) \/ SettlesFailed(p)

EnsureStep(p) == EnsureReuses(p) \/ EnsureJoins(p) \/ EnsureSignsIn(p)

RequestStep(r) ==
    \/ RequestBeginsAgain(r)
    \/ RequestServed(r) \/ RequestFails(r)
    \/ RequestRejected(r) \/ RequestRejectedAgain(r)
    \/ RenewNotNeeded(r) \/ RenewJoins(r) \/ RenewSignsIn(r) \/ RenewCleared(r)

ConnectStep(c) == ConnectSucceeds(c) \/ ConnectFails(c) \/ ConnectBacksOff(c)

DisconnectStep(d) ==
    \/ DisconnectHasNothing(d) \/ DisconnectEnsures(d)
    \/ LogoutServed(d) \/ LogoutFails(d)
    \/ SignOutDeletes(d) \/ SignOutDone(d)

\* What goes on by itself once begun: continuations run, timers fire, and every
\* HTTP call ends because axios bounds it by requestTimeoutMs.
Continues(p) ==
    \/ SignInStep(p) \/ EnsureStep(p) \/ RequestStep(p)
    \/ ConnectStep(p) \/ (pc[p] = "backoff" /\ ConnectStarts(p))
    \/ DisconnectStep(p)

Environment ==
    \/ \E t \in retiring : RetireArrives(t) \/ RetireLost(t)
    \/ \E t \in live : SessionEnds(t)
    \/ \E w \in Passwords : PasswordChanges(w) \/ ProfileSaved(w)
    \/ TimePasses
    \/ WindowReloads

Next ==
    \/ \E p \in Procs : Continues(p)
    \/ \E r \in Requests : RequestBegins(r) \/ RequestCancelled(r)
    \/ \E c \in Connects : ConnectStarts(c)
    \/ \E d \in Disconnects : DisconnectBegins(d)
    \/ Environment

Spec == Init /\ [][Next]_vars

FairSpec == Spec /\ \A p \in Procs : WF_vars(Continues(p))

-----------------------------------------------------------------------------
(***************************************************************************)
(* Properties.                                                             *)
(***************************************************************************)

\* At most one sign-in the user did not ask for is under way, and it is the
\* one registered in inFlightRefresh, so that whoever needs a token finds it.
OneAutomaticSignIn ==
    \A p \in Procs :
        Automatic(p) => (step[p] # "idle" <=> inFlight = p)

\* A request that waits has something to wait for: a sign-in never settles
\* leaving one of those that joined it behind.
NobodyWaitsForNothing ==
    \A p \in Procs : pc[p] \in Waiting => inFlight # None

\* Between two acts of the user (connecting, saving the profile, reloading the
\* window), or a sign-in that succeeds, the first rejection the client hears of
\* is the last: FileMaker does not reject the same credentials again, heard or
\* not, whatever requests, late answers and saves do.  Ahead of expiry it rejects
\* them once even when the answer is lost, because any failure suspends those.
\* A rejection of a NEEDED sign-in whose answer is lost has no FileMaker code and
\* pauses nothing: the code sends the same password again until one is heard.
LockoutBound ==
    \A w \in Passwords : strikes[w] <= 1 /\ earlyStrikes[w] <= 1

\* Requests alone leave no session behind on the server: every open session is
\* the stored one, or one that a sign-in or a logout under way accounts for.
Accounted ==
    {stored} \cup retiring \cup writtenOff
    \cup UNION {{old[p], new[p]} : p \in {q \in Procs : step[q] # "idle"}}
NoOrphan == live \subseteq Accounted

\* The background logout never closes the session requests are using.
RetireSparesStored == stored \notin retiring

\* A Disconnect authenticates its logout with the session it closes.
LogoutUsesItsOwnToken ==
    \A d \in Disconnects : pc[d] = "sent" => tok[d] = target[d]

\* Whatever was begun ends: no request, Connect or Disconnect hangs behind a
\* sign-in that failed, was cancelled by another, or lost its answer.
EverythingEnds ==
    \A p \in Procs : pc[p] # "idle" ~> pc[p] \in Finished
=============================================================================
