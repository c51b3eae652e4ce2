--------------------------- MODULE FMSessionProofs ---------------------------
(***************************************************************************)
(* What FMSession guarantees for every set of processes and passwords, every *)
(* configured age and every number of events.                               *)
(***************************************************************************)
EXTENDS FMSession, TLAPS, SequenceTheorems

USE DEF NoToken, Unknown

LEMMA CallsType ==
    ASSUME NEW p \in Procs, StoreType
    PROVE  /\ Calls(p) => calls' \in Seq(Procs)
           /\ Returns(p) => calls' \in Seq(Procs)
           /\ ReturnsAndCalls(p) => calls' \in Seq(Procs)
<1>1. calls \in Seq(Procs)
  BY DEF StoreType
<1>2. calls # <<>> => Tail(calls) \in Seq(Procs)
  BY <1>1, HeadTailProperties
<1>3. Append(calls, p) \in Seq(Procs)
  BY <1>1, AppendProperties
<1>4. calls # <<>> => Append(Tail(calls), p) \in Seq(Procs)
  BY <1>2, AppendProperties
<1>5. QED
  BY <1>2, <1>3, <1>4 DEF Calls, Returns, ReturnsAndCalls

\* A call to the secret store that leaves its contents alone.
LEMMA StoreKept ==
    ASSUME NEW p \in Procs, StoreType, UNCHANGED secrets,
           Calls(p) \/ Returns(p) \/ ReturnsAndCalls(p)
    PROVE  StoreType'
  BY CallsType DEF StoreType, secrets

\* A part of the state a step leaves alone keeps its type.
LEMMA Framed ==
    ASSUME TypeOK
    PROVE  /\ UNCHANGED memory => MemoryType'
           /\ UNCHANGED <<secrets, calls>> => StoreType'
           /\ UNCHANGED procvars => ProcType'
           /\ UNCHANGED signin => SignInType'
           /\ UNCHANGED <<server, budget>> => ServerType'
           /\ UNCHANGED history => HistoryType'
<1> USE DEF TypeOK
<1>1. UNCHANGED memory => MemoryType'
  BY DEF MemoryType, memory
<1>2. UNCHANGED <<secrets, calls>> => StoreType'
  BY DEF StoreType, secrets
<1>3. UNCHANGED procvars => ProcType'
  BY DEF ProcType, procvars
<1>4. UNCHANGED signin => SignInType'
  BY DEF SignInType, signin
<1>5. UNCHANGED <<server, budget>> => ServerType'
  BY DEF ServerType, server
<1>6. UNCHANGED history => HistoryType'
  BY DEF HistoryType, history, rejections
<1>7. QED
  BY <1>1, <1>2, <1>3, <1>4, <1>5, <1>6

LEMMA CleanSlateType ==
    ASSUME CleanSlate, UNCHANGED writtenOff, HistoryType PROVE HistoryType'
  BY DEF CleanSlate, HistoryType

LEMMA SpendType ==
    ASSUME ServerType, NEW e \in Events, Spend(e) PROVE budget' \in [Events -> Nat]
  BY DEF Spend, ServerType

LEMMA TypeInit == Init => TypeOK
<1> SUFFICES ASSUME Init PROVE TypeOK
  OBVIOUS
<1> USE DEF Init
<1>1. MemoryType
  BY DEF MemoryType
<1>2. StoreType
  BY DEF StoreType
<1>3. ProcType
  BY DEF ProcType, Steps
<1>4. SignInType
  BY <1>2 DEF SignInType, LoginSteps, Modes, Answers, StoreType
<1>5. ServerType
  BY BoundAssumption DEF ServerType
<1>6. HistoryType
  BY DEF HistoryType
<1>7. QED
  BY <1>1, <1>2, <1>3, <1>4, <1>5, <1>6 DEF TypeOK

LEMMA EnsureType ==
    ASSUME TypeOK, NEW p \in Procs, EnsureStep(p) PROVE TypeOK'
<1> USE Framed, StoreKept DEF TypeOK
<1>1. CASE EnsureReuses(p)
  BY <1>1 DEF EnsureReuses, ProcType, Steps
<1>2. CASE EnsureJoins(p)
  BY <1>2 DEF EnsureJoins, ProcType, Steps, Waiting
<1>3. CASE EnsureSignsIn(p)
  <2> USE <1>3 DEF EnsureSignsIn
  <2>1. MemoryType'
    BY DEF MemoryType, limits
  <2>2. ProcType'
    BY DEF ProcType, Steps, Waiting
  <2>3. SignInType'
    BY DEF Starts, SignInType, LoginSteps, Modes, Answers, ProcType, StoreType
  <2>4. QED
    BY <2>1, <2>2, <2>3
<1>4. QED
  BY <1>1, <1>2, <1>3 DEF EnsureStep

LEMMA SignInStepType ==
    ASSUME TypeOK, NEW p \in Procs, SignInStep(p) PROVE TypeOK'
<1> USE Framed, StoreKept DEF TypeOK
<1>1. CASE SignInRefused(p) \/ SignInSent(p)
  <2> USE <1>1 DEF SignInRefused, SignInSent
  <2>1. MemoryType'
    BY DEF MemoryType, PauseKept
  <2>2. SignInType'
    BY DEF SignInType, LoginSteps, Answers
  <2>3. QED
    BY <2>1, <2>2
<1>2. CASE SignInAccepted(p) \/ SignInLost(p)
  <2>1. {issued + 1} \subseteq Nat
    BY DEF ServerType
  <2>2. CASE SignInAccepted(p)
    <3>1. SignInType'
      BY <2>2 DEF SignInAccepted, SignInType, LoginSteps, Answers, ServerType
    <3>2. ServerType'
      BY <2>1, <2>2 DEF SignInAccepted, ServerType
    <3>3. QED
      BY <2>2, <3>1, <3>2 DEF SignInAccepted
  <2>3. CASE SignInLost(p)
    <3>1. SignInType'
      BY <2>3 DEF SignInLost, SignInType, LoginSteps, Answers
    <3>2. ServerType'
      BY <2>1, <2>3, SpendType DEF SignInLost, ServerType, Events
    <3>3. HistoryType'
      BY <2>1, <2>3 DEF SignInLost, HistoryType, rejections
    <3>4. QED
      BY <2>3, <3>1, <3>2, <3>3 DEF SignInLost
  <2>4. QED
    BY <1>2, <2>2, <2>3
<1>3. CASE SignInRejected(p) \/ SignInRejectionLost(p)
  <2>1. SignInType'
    BY <1>3 DEF SignInRejected, SignInRejectionLost, SignInType, LoginSteps, Answers
  <2>4. /\ RejectionCounted(p, TRUE) \/ RejectionCounted(p, FALSE)
        /\ writtenOff' = writtenOff
    BY <1>3 DEF SignInRejected, SignInRejectionLost
  <2>2. HistoryType'
    <3>1. \A h \in BOOLEAN : RejectionCounted(p, h) =>
            /\ strikes' \in [Passwords -> Nat] /\ earlyStrikes' \in [Passwords -> Nat]
      BY DEF RejectionCounted, HistoryType, SignInType
    <3>2. QED
      BY <2>4, <3>1 DEF HistoryType
  <2>3. ServerType'
    BY <1>3, SpendType DEF SignInRejected, SignInRejectionLost, ServerType, server, Events
  <2>5. QED
    BY <1>3, <2>1, <2>2, <2>3 DEF SignInRejected, SignInRejectionLost
<1>4. CASE SignInUnavailable(p)
  BY <1>4 DEF SignInUnavailable, SignInType, LoginSteps, Answers
<1>5. CASE SignInStored(p)
  <2> USE <1>5 DEF SignInStored
  <2>1. StoreType'
    BY CallsType DEF StoreType, SignInType
  <2>2. SignInType'
    BY DEF SignInType, LoginSteps
  <2>3. QED
    BY <2>1, <2>2
<1>6. CASE SignInNoted(p)
  <2> USE <1>6 DEF SignInNoted
  <2>1. 0 \in 0..MaxAge
    BY TimeAssumption
  <2>2. MemoryType'
    BY <2>1 DEF MemoryType
  <2>3. SignInType'
    BY DEF SignInType, LoginSteps
  <2>4. QED
    BY <2>2, <2>3, CleanSlateType
<1>7. CASE SignInFailed(p)
  <2> USE <1>7 DEF SignInFailed
  <2>1. MemoryType'
    BY TimeAssumption DEF MemoryType, SignInType, RecordsFailure, NextDelay
  <2>2. SignInType'
    BY DEF SignInType, LoginSteps
  <2>3. HistoryType'
    BY CleanSlateType DEF history
  <2>4. QED
    BY <2>1, <2>2, <2>3
<1>8. CASE SettlesSignedIn(p) \/ SettlesWithOld(p) \/ SettlesFailed(p)
  <2> USE <1>8 DEF SettlesSignedIn, SettlesWithOld, SettlesFailed, Settles
  <2>1. MemoryType'
    BY DEF MemoryType, limits
  <2>2. ProcType'
    BY DEF ProcType, SignInType, Resume, Steps, Waiting, Finished
  <2>3. SignInType'
    BY DEF SignInType, LoginSteps
  <2>4. ServerType'
    BY ZenonT(30) DEF ServerType, SignInType, server
  <2>5. old[p] \in Nat
    BY DEF SignInType
  <2>6. HistoryType'
    BY <2>5 DEF HistoryType, history, rejections
  <2>7. QED
    BY <2>1, <2>2, <2>3, <2>4, <2>6
<1>9. QED
  BY <1>1, <1>2, <1>3, <1>4, <1>5, <1>6, <1>7, <1>8 DEF SignInStep

LEMMA RequestStepType ==
    ASSUME TypeOK, NEW r \in Procs,
           RequestStep(r) \/ RequestBegins(r) \/ RequestCancelled(r)
    PROVE  TypeOK'
<1> USE Framed, StoreKept DEF TypeOK
<1>1. CASE RequestBegins(r) \/ RequestBeginsAgain(r)
  <2>1. pc' = [pc EXCEPT ![r] = "ensure"] /\ seen' = [seen EXCEPT ![r] = stored]
    BY <1>1 DEF RequestBegins, RequestBeginsAgain, Reads
  <2>2. tries' \in [Procs -> Nat]
    BY <1>1 DEF RequestBegins, RequestBeginsAgain, ProcType
  <2>3. ProcType'
    BY <1>1, <2>1, <2>2
    DEF RequestBegins, RequestBeginsAgain, ProcType, StoreType, Steps
  <2>4. QED
    BY <1>1, <2>3 DEF RequestBegins, RequestBeginsAgain
<1>2. CASE RequestServed(r) \/ RequestFails(r) \/ RequestCancelled(r)
  BY <1>2
  DEF RequestServed, RequestFails, RequestCancelled, ProcType, Steps, Finished
<1>3. CASE RequestRejected(r) \/ RequestRejectedAgain(r)
  <2> USE <1>3 DEF RequestRejected, RequestRejectedAgain
  <2>1. ProcType'
    BY DEF Reads, ProcType, StoreType, Steps, Finished
  <2>2. ServerType'
    BY SpendType DEF Unauthorized, ServerType, server, Events
  <2>3. QED
    BY <2>1, <2>2
<1>4. CASE RenewNotNeeded(r) \/ RenewJoins(r)
  BY <1>4 DEF RenewNotNeeded, RenewJoins, ProcType, Steps, Waiting
<1>5. CASE RenewSignsIn(r)
  <2> USE <1>5 DEF RenewSignsIn
  <2>1. MemoryType'
    BY DEF MemoryType, limits
  <2>2. StoreType'
    BY CallsType DEF StoreType
  <2>3. ProcType'
    BY DEF ProcType, Steps, Waiting
  <2>4. SignInType'
    BY DEF SignInType, LoginSteps, Modes, ProcType
  <2>5. HistoryType'
    BY DEF HistoryType, ProcType, rejections
  <2>6. QED
    BY <2>1, <2>2, <2>3, <2>4, <2>5
<1>6. CASE RenewCleared(r)
  <2> USE <1>6 DEF RenewCleared
  <2>1. MemoryType'
    BY DEF MemoryType, limits
  <2>2. SignInType'
    BY DEF Starts, SignInType, LoginSteps, Modes, Answers, StoreType
  <2>3. QED
    BY <2>1, <2>2
<1>7. QED
  BY <1>1, <1>2, <1>3, <1>4, <1>5, <1>6 DEF RequestStep

LEMMA ConnectType ==
    ASSUME TypeOK, NEW c \in Procs, ConnectStarts(c) \/ ConnectStep(c) PROVE TypeOK'
<1> USE Framed, StoreKept DEF TypeOK
<1>1. CASE ConnectStarts(c)
  <2> USE <1>1 DEF ConnectStarts
  <2>1. ProcType'
    BY DEF ProcType, Steps
  <2>2. SignInType'
    BY DEF Starts, SignInType, LoginSteps, Modes, Answers, StoreType
  <2>3. QED
    BY <2>1, <2>2
<1>2. CASE ConnectStep(c)
  <2> USE <1>2 DEF ConnectStep, ConnectSucceeds, ConnectFails, ConnectBacksOff,
                   ConnectSettles
  <2>1. ProcType'
    BY DEF ProcType, Steps, Finished
  <2>2. SignInType'
    BY DEF SignInType, LoginSteps
  <2>3. QED
    BY <2>1, <2>2
<1>3. QED
  BY <1>1, <1>2

LEMMA DisconnectType ==
    ASSUME TypeOK, NEW d \in Procs, DisconnectBegins(d) \/ DisconnectStep(d)
    PROVE  TypeOK'
<1> USE Framed, StoreKept DEF TypeOK
<1>1. CASE DisconnectBegins(d) \/ DisconnectHasNothing(d) \/ DisconnectEnsures(d)
  BY <1>1, ZenonT(30) DEF DisconnectBegins, DisconnectHasNothing, DisconnectEnsures, Reads,
              ProcType, StoreType, Steps, Finished
<1>2. CASE LogoutServed(d) \/ LogoutFails(d)
  <2> USE <1>2 DEF LogoutServed, LogoutFails
  <2>1. ProcType'
    BY DEF ProcType, Steps
  <2>2. ServerType'
    BY DEF ServerType, server
  <2>3. QED
    BY <2>1, <2>2
<1>3. CASE SignOutDeletes(d) \/ SignOutDone(d)
  <2> USE <1>3 DEF SignOutDeletes, SignOutDone
  <2>1. MemoryType'
    BY DEF MemoryType, memory, limits
  <2>2. StoreType'
    BY CallsType DEF StoreType, secrets
  <2>3. ProcType'
    BY DEF ProcType, Steps, Finished
  <2>4. QED
    BY <2>1, <2>2, <2>3
<1>4. QED
  BY <1>1, <1>2, <1>3 DEF DisconnectStep

LEMMA EnvironmentType == ASSUME TypeOK, Environment PROVE TypeOK'
<1> USE Framed DEF TypeOK
<1>1. CASE \E t \in retiring : RetireArrives(t) \/ RetireLost(t)
  <2> PICK t \in retiring : RetireArrives(t) \/ RetireLost(t)
    BY <1>1
  <2> USE DEF RetireArrives, RetireLost
  <2>1. ServerType'
    BY SpendType DEF ServerType, Events
  <2>2. HistoryType'
    BY DEF HistoryType, ServerType, history, rejections
  <2>3. QED
    BY <2>1, <2>2
<1>2. CASE \E t \in live : SessionEnds(t)
  BY <1>2 DEF SessionEnds, ServerType
<1>3. CASE \E w \in Passwords : PasswordChanges(w)
  <2> PICK w \in Passwords : PasswordChanges(w)
    BY <1>3
  <2>1. ServerType'
    BY SpendType DEF PasswordChanges, ServerType, Events
  <2>2. QED
    BY <2>1 DEF PasswordChanges
<1>4. CASE \E w \in Passwords : ProfileSaved(w)
  <2> PICK w \in Passwords : ProfileSaved(w)
    BY <1>4
  <2> USE DEF ProfileSaved
  <2>1. MemoryType'
    BY DEF MemoryType
  <2>2. StoreType'
    BY DEF StoreType
  <2>3. ServerType'
    BY SpendType DEF ServerType, server, Events
  <2>4. QED
    BY <2>1, <2>2, <2>3, CleanSlateType
<1>5. CASE TimePasses
  <2>1. MemoryType'
    BY <1>5, TimeAssumption DEF TimePasses, MemoryType
  <2>2. QED
    BY <1>5, <2>1 DEF TimePasses
<1>6. CASE WindowReloads
  <2> USE <1>6 DEF WindowReloads
  <2>1. MemoryType'
    BY DEF MemoryType
  <2>2. StoreType'
    BY DEF StoreType, secrets
  <2>3. ProcType'
    BY DEF ProcType, Steps, Waiting, Finished
  <2>4. SignInType'
    BY DEF SignInType, LoginSteps
  <2>5. ServerType'
    BY SpendType DEF ServerType, Events
  <2>6. HistoryType'
    BY DEF HistoryType, CleanSlate, ServerType
  <2>7. QED
    BY <2>1, <2>2, <2>3, <2>4, <2>5, <2>6
<1>7. QED
  BY <1>1, <1>2, <1>3, <1>4, <1>5, <1>6 DEF Environment

LEMMA NextCases ==
    ASSUME Next
    PROVE  \/ Environment
           \/ \E p \in Procs :
                \/ EnsureStep(p) \/ SignInStep(p)
                \/ RequestStep(p) \/ (p \in Requests /\ RequestBegins(p))
                \/ RequestCancelled(p)
                \/ ConnectStarts(p) \/ ConnectStep(p)
                \/ (p \in Disconnects /\ DisconnectBegins(p)) \/ DisconnectStep(p)
  BY DEF Next, Continues, Procs

LEMMA TypeStep == TypeOK /\ [Next]_vars => TypeOK'
<1> SUFFICES ASSUME TypeOK, [Next]_vars PROVE TypeOK'
  OBVIOUS
<1>1. CASE Next
  BY <1>1, NextCases, EnsureType, SignInStepType, RequestStepType, ConnectType,
     DisconnectType, EnvironmentType
<1>2. CASE UNCHANGED vars
  BY <1>2, Framed DEF vars, TypeOK
<1>3. QED
  BY <1>1, <1>2

\* FMSession keeps its types: tokens, ages, counters and places in the code.
THEOREM TypeCorrect == Spec => []TypeOK
  BY TypeInit, TypeStep, PTL DEF Spec

-----------------------------------------------------------------------------
(***************************************************************************)
(* The inductive invariant behind OneAutomaticSignIn and LockoutBound.      *)
(***************************************************************************)

\* Connect commands sign in on their own account and never register.
ConnectsApart ==
    /\ inFlight \notin Connects
    /\ \A p \in Procs :
         /\ p \in Connects <=> mode[p] = "user"
         /\ p \in Connects =>
              /\ pc[p] \notin Waiting \cup {"ensure", "renew", "again", "lookup"}
              /\ step[p] # "deleting"

Real(p) == mode[p] \in {"needed", "renew"}
Early(p) == mode[p] = "proactive"

\* A rejection of the stored credentials either paused the profile or is about to.
Pausing(w) ==
    \/ pause = w
    \/ \E p \in Procs : /\ Real(p) /\ stamp[p] = w
                         /\ step[p] = "answered" /\ answer[p] = "rejected"

RealInv ==
    /\ \A w \in Passwords : strikes[w] <= 1
    /\ strikes[password] = 1 => Pausing(password)
    /\ \A p \in Procs :
         Automatic(p) =>
           /\ step[p] \in {"password", "sent", "answered"} /\ stamp[p] # password
                => strikes[password] = 0
           /\ step[p] = "password" /\ stamp[p] # password => strikes[stamp[p]] = 0
           /\ step[p] = "sent" /\ Real(p) => strikes[stamp[p]] = 0

\* A rejected renewal ahead of expiry either suspended those or is about to.
Suspending(w) ==
    \/ suspended
    \/ \E p \in Procs : /\ Early(p) /\ stamp[p] = w
                         /\ step[p] \in {"answered", "recording"}
                         /\ answer[p] \in {"rejected", "error"}

EarlyInv ==
    /\ \A w \in Passwords : earlyStrikes[w] <= 1
    /\ earlyStrikes[password] = 1 => Suspending(password)
    /\ \A p \in Procs :
         Early(p) /\ step[p] \in {"password", "sent"} => earlyStrikes[stamp[p]] = 0

IInv == TypeOK /\ ConnectsApart /\ OneAutomaticSignIn /\ RealInv /\ EarlyInv

LEMMA ApartInit == Init => ConnectsApart
  BY ProcsAssumption DEF Init, ConnectsApart, Waiting, Procs

LEMMA ApartFramed ==
    ASSUME ConnectsApart, UNCHANGED <<inFlight, mode, pc>>,
           \A p \in Procs : step'[p] = "deleting" => step[p] = "deleting"
    PROVE  ConnectsApart'
  BY DEF ConnectsApart

LEMMA ApartStep == TypeOK /\ ConnectsApart /\ [Next]_vars => ConnectsApart'
<1> SUFFICES ASSUME TypeOK, ConnectsApart, [Next]_vars PROVE ConnectsApart'
  OBVIOUS
<1>1. /\ mode \in [Procs -> Modes] /\ pc \in [Procs -> Steps]
      /\ step \in [Procs -> LoginSteps]
  BY DEF TypeOK, SignInType, ProcType
<1> USE <1>1, ProcsAssumption
<1>2. ASSUME NEW p \in Procs, EnsureStep(p) PROVE ConnectsApart'
  BY <1>2 DEF EnsureStep, EnsureReuses, EnsureJoins, EnsureSignsIn, Starts, ConnectsApart,
              memory, signin, Waiting
<1>3. ASSUME NEW p \in Procs, SignInStep(p) PROVE ConnectsApart'
  <2>1. CASE SettlesSignedIn(p) \/ SettlesWithOld(p) \/ SettlesFailed(p)
    <3>1. inFlight' = None /\ mode' = mode /\ step' = [step EXCEPT ![p] = "idle"]
      BY <2>1 DEF SettlesSignedIn, SettlesWithOld, SettlesFailed, Settles
    <3>2. \A q \in Procs : pc[q] \notin Waiting => pc'[q] = pc[q]
      BY <2>1 DEF SettlesSignedIn, SettlesWithOld, SettlesFailed, Resume, Waiting
    <3>3. QED
      BY <3>1, <3>2 DEF ConnectsApart, Waiting, Procs
  <2>2. CASE SignInRefused(p) \/ SignInSent(p) \/ SignInAccepted(p) \/ SignInLost(p)
             \/ SignInRejected(p) \/ SignInRejectionLost(p) \/ SignInUnavailable(p)
    BY <2>2, ApartFramed DEF SignInRefused, SignInSent, SignInAccepted, SignInLost,
       SignInRejected, SignInRejectionLost, SignInUnavailable, memory, procvars
  <2>3. CASE SignInStored(p) \/ SignInNoted(p) \/ SignInFailed(p)
    BY <2>3, ApartFramed DEF SignInStored, SignInNoted, SignInFailed, memory, procvars
  <2>4. QED
    BY <1>3, <2>1, <2>2, <2>3 DEF SignInStep
<1>4. ASSUME NEW r \in Procs,
             RequestStep(r) \/ (r \in Requests /\ RequestBegins(r)) \/ RequestCancelled(r)
      PROVE ConnectsApart'
  <2>1. CASE RequestBeginsAgain(r) \/ RequestServed(r) \/ RequestFails(r)
    BY <2>1 DEF RequestBeginsAgain, RequestServed, RequestFails, Reads, memory, signin,
                ConnectsApart, Waiting
  <2>2. CASE (r \in Requests /\ RequestBegins(r)) \/ RequestCancelled(r)
    BY <2>2 DEF RequestBegins, RequestCancelled, Reads, memory, signin,
                ConnectsApart, Waiting
  <2>3. CASE RequestRejected(r) \/ RequestRejectedAgain(r)
    BY <2>3 DEF RequestRejected, RequestRejectedAgain, Reads, memory, signin,
                ConnectsApart, Waiting
  <2>4. CASE RenewNotNeeded(r) \/ RenewJoins(r)
    BY <2>4 DEF RenewNotNeeded, RenewJoins, memory, signin, ConnectsApart, Waiting
  <2>5. CASE RenewSignsIn(r)
    BY <2>5 DEF RenewSignsIn, ConnectsApart, Waiting
  <2>6. CASE RenewCleared(r)
    BY <2>6 DEF RenewCleared, Starts, procvars, ConnectsApart
  <2>7. QED
    BY <1>4, <2>1, <2>2, <2>3, <2>4, <2>5, <2>6 DEF RequestStep
<1>5. ASSUME NEW c \in Procs, ConnectStarts(c) \/ ConnectStep(c) PROVE ConnectsApart'
  BY <1>5 DEF ConnectStarts, Starts, ConnectStep, ConnectSucceeds, ConnectFails,
     ConnectBacksOff, ConnectSettles, memory, ConnectsApart, Waiting
<1>6. ASSUME NEW d \in Procs,
             (d \in Disconnects /\ DisconnectBegins(d)) \/ DisconnectStep(d)
      PROVE ConnectsApart'
  <2>1. CASE d \in Disconnects /\ DisconnectBegins(d)
    BY <2>1 DEF DisconnectBegins, memory, signin, ConnectsApart, Waiting
  <2>2. CASE DisconnectHasNothing(d)
    BY <2>2 DEF DisconnectHasNothing, memory, signin, ConnectsApart, Waiting
  <2>6. CASE DisconnectEnsures(d)
    BY <2>6 DEF DisconnectEnsures, Reads, memory, signin, ConnectsApart, Waiting
  <2>3. CASE LogoutServed(d) \/ LogoutFails(d)
    BY <2>3 DEF LogoutServed, LogoutFails, memory, signin, ConnectsApart, Waiting
  <2>4. CASE SignOutDeletes(d) \/ SignOutDone(d)
    BY <2>4 DEF SignOutDeletes, SignOutDone, memory, signin, ConnectsApart, Waiting
  <2>5. QED
    BY <1>6, <2>1, <2>2, <2>3, <2>4, <2>6 DEF DisconnectStep
<1>7. ASSUME Environment PROVE ConnectsApart'
  <2>1. CASE WindowReloads
    <3>1. inFlight' = None /\ mode' = mode
      BY <2>1 DEF WindowReloads
    <3>2. \A q \in Procs : step'[q] = "idle"
      BY <2>1 DEF WindowReloads
    <3>3. \A q \in Procs : pc'[q] = pc[q] \/ pc'[q] = "failed"
      BY <2>1 DEF WindowReloads
    <3>4. QED
      BY <3>1, <3>2, <3>3 DEF ConnectsApart, Waiting, Procs
  <2>2. CASE ~WindowReloads
    BY <1>7, <2>2, ApartFramed DEF Environment, RetireArrives, RetireLost, SessionEnds,
       PasswordChanges, ProfileSaved, TimePasses, memory, procvars, signin
  <2>3. QED
    BY <2>1, <2>2
<1>8. CASE UNCHANGED vars
  BY <1>8, ApartFramed DEF vars, memory, procvars, signin
<1>9. QED
  BY <1>2, <1>3, <1>4, <1>5, <1>6, <1>7, <1>8, NextCases

LEMMA MutexInit == Init => OneAutomaticSignIn
  BY ProcsAssumption DEF Init, OneAutomaticSignIn

LEMMA MutexFramed ==
    ASSUME OneAutomaticSignIn, UNCHANGED <<inFlight, mode>>,
           \A p \in Procs : step'[p] = "idle" <=> step[p] = "idle"
    PROVE  OneAutomaticSignIn'
  BY DEF OneAutomaticSignIn, Automatic

LEMMA MutexStep ==
    TypeOK /\ ConnectsApart /\ OneAutomaticSignIn /\ [Next]_vars => OneAutomaticSignIn'
<1> SUFFICES ASSUME TypeOK, ConnectsApart, OneAutomaticSignIn, [Next]_vars
             PROVE  OneAutomaticSignIn'
  OBVIOUS
<1>1. /\ mode \in [Procs -> Modes] /\ step \in [Procs -> LoginSteps]
      /\ inFlight \in Procs \cup {None}
  BY DEF TypeOK, SignInType, MemoryType
<1> USE <1>1, ProcsAssumption
<1>2. ASSUME NEW p \in Procs, EnsureStep(p) PROVE OneAutomaticSignIn'
  <2>1. CASE EnsureReuses(p) \/ EnsureJoins(p)
    BY <2>1, MutexFramed DEF EnsureReuses, EnsureJoins, memory, signin
  <2>2. CASE EnsureSignsIn(p)
    <3>1. inFlight = None /\ inFlight' = p
      BY <2>2 DEF EnsureSignsIn
    <3>2. \A q \in Procs : q # p => step'[q] = step[q] /\ mode'[q] = mode[q]
      BY <2>2 DEF EnsureSignsIn, Starts
    <3>3. step'[p] = "password"
      BY <2>2 DEF EnsureSignsIn, Starts
    <3>4. QED
      BY <3>1, <3>2, <3>3 DEF OneAutomaticSignIn, Automatic
  <2>3. QED
    BY <1>2, <2>1, <2>2 DEF EnsureStep
<1>3. ASSUME NEW p \in Procs, SignInStep(p) PROVE OneAutomaticSignIn'
  <2>1. CASE SettlesSignedIn(p) \/ SettlesWithOld(p) \/ SettlesFailed(p)
    <3>1. /\ inFlight' = None /\ mode' = mode /\ step' = [step EXCEPT ![p] = "idle"]
          /\ step[p] = "recording" /\ Automatic(p)
      BY <2>1 DEF SettlesSignedIn, SettlesWithOld, SettlesFailed, Settles
    <3>2. inFlight = p
      BY <3>1 DEF OneAutomaticSignIn
    <3>3. QED
      BY <3>1, <3>2 DEF OneAutomaticSignIn, Automatic
  <2>2. CASE SignInRefused(p) \/ SignInSent(p) \/ SignInAccepted(p) \/ SignInLost(p)
             \/ SignInRejected(p) \/ SignInRejectionLost(p) \/ SignInUnavailable(p)
    BY <2>2, MutexFramed DEF SignInRefused, SignInSent, SignInAccepted, SignInLost,
       SignInRejected, SignInRejectionLost, SignInUnavailable, memory
  <2>3. CASE SignInStored(p) \/ SignInNoted(p) \/ SignInFailed(p)
    BY <2>3, MutexFramed DEF SignInStored, SignInNoted, SignInFailed, memory
  <2>4. QED
    BY <1>3, <2>1, <2>2, <2>3 DEF SignInStep
<1>4. ASSUME NEW r \in Procs,
             RequestStep(r) \/ (r \in Requests /\ RequestBegins(r)) \/ RequestCancelled(r)
      PROVE OneAutomaticSignIn'
  <2>1. CASE RequestBeginsAgain(r) \/ RequestServed(r) \/ RequestFails(r)
    BY <2>1, MutexFramed DEF RequestBeginsAgain, RequestServed, RequestFails, memory, signin
  <2>2. CASE (r \in Requests /\ RequestBegins(r)) \/ RequestCancelled(r)
    BY <2>2, MutexFramed DEF RequestBegins, RequestCancelled, memory, signin
  <2>3. CASE RequestRejected(r) \/ RequestRejectedAgain(r)
    BY <2>3, MutexFramed DEF RequestRejected, RequestRejectedAgain, memory, signin
  <2>4. CASE RenewNotNeeded(r) \/ RenewJoins(r)
    BY <2>4, MutexFramed DEF RenewNotNeeded, RenewJoins, memory, signin
  <2>5. CASE RenewSignsIn(r)
    <3>1. /\ inFlight = None /\ inFlight' = r
          /\ step' = [step EXCEPT ![r] = "deleting"]
          /\ mode' = [mode EXCEPT ![r] = "renew"]
      BY <2>5 DEF RenewSignsIn
    <3>2. QED
      BY <3>1 DEF OneAutomaticSignIn, Automatic
  <2>6. CASE RenewCleared(r)
    <3>1. /\ inFlight' = inFlight /\ step[r] = "deleting"
          /\ step' = [step EXCEPT ![r] = "password"]
          /\ mode' = [mode EXCEPT ![r] = "renew"]
      BY <2>6 DEF RenewCleared, Starts
    <3>2. r \notin Connects /\ Automatic(r)
      BY <3>1 DEF ConnectsApart, Automatic
    <3>3. QED
      BY <3>1, <3>2 DEF OneAutomaticSignIn, Automatic
  <2>7. QED
    BY <1>4, <2>1, <2>2, <2>3, <2>4, <2>5, <2>6 DEF RequestStep
<1>5. ASSUME NEW c \in Procs, ConnectStarts(c) \/ ConnectStep(c)
      PROVE  OneAutomaticSignIn'
  <2>1. CASE ConnectStarts(c)
    <3>1. /\ inFlight' = inFlight /\ c \in Connects
          /\ step' = [step EXCEPT ![c] = "password"]
          /\ mode' = [mode EXCEPT ![c] = "user"]
      BY <2>1 DEF ConnectStarts, Starts, memory
    <3>2. QED
      BY <3>1 DEF OneAutomaticSignIn, Automatic
  <2>2. CASE ConnectStep(c)
    <3>1. /\ inFlight' = inFlight /\ mode[c] = "user" /\ mode' = mode
          /\ step' = [step EXCEPT ![c] = "idle"]
      BY <2>2 DEF ConnectStep, ConnectSucceeds, ConnectFails, ConnectBacksOff,
                  ConnectSettles, memory
    <3>2. QED
      BY <3>1 DEF OneAutomaticSignIn, Automatic
  <2>3. QED
    BY <1>5, <2>1, <2>2
<1>6. ASSUME NEW d \in Procs,
             (d \in Disconnects /\ DisconnectBegins(d)) \/ DisconnectStep(d)
      PROVE OneAutomaticSignIn'
  BY <1>6, MutexFramed DEF DisconnectBegins, DisconnectStep, DisconnectHasNothing,
     DisconnectEnsures, LogoutServed, LogoutFails, SignOutDeletes, SignOutDone,
     memory, signin
<1>7. ASSUME Environment PROVE OneAutomaticSignIn'
  <2>1. CASE WindowReloads
    <3>1. inFlight' = None /\ \A q \in Procs : step'[q] = "idle"
      BY <2>1 DEF WindowReloads
    <3>2. QED
      BY <3>1 DEF OneAutomaticSignIn
  <2>2. CASE ~WindowReloads
    BY <1>7, <2>2, MutexFramed DEF Environment, RetireArrives, RetireLost, SessionEnds,
       PasswordChanges, ProfileSaved, TimePasses, memory, signin
  <2>3. QED
    BY <2>1, <2>2
<1>8. CASE UNCHANGED vars
  BY <1>8, MutexFramed DEF vars, memory, signin
<1>9. QED
  BY <1>2, <1>3, <1>4, <1>5, <1>6, <1>7, <1>8, NextCases

\* Never two sign-ins the user did not ask for at once, and the one under way
\* is the one inFlightRefresh holds.
THEOREM OneSignInAtATime == Spec => []OneAutomaticSignIn
<1>1. Init => TypeOK /\ ConnectsApart /\ OneAutomaticSignIn
  BY TypeInit, ApartInit, MutexInit
<1>2. TypeOK /\ ConnectsApart /\ OneAutomaticSignIn /\ [Next]_vars
      => (TypeOK /\ ConnectsApart /\ OneAutomaticSignIn)'
  BY TypeStep, ApartStep, MutexStep
<1>3. QED
  BY <1>1, <1>2, PTL DEF Spec

-----------------------------------------------------------------------------
(***************************************************************************)
(* Real rejections: an automatic sign-in that fails pauses the credentials  *)
(* it sent, and the next one is refused before it reaches the server.       *)
(***************************************************************************)
SameElsewhere(p) ==
    \A q \in Procs : q # p =>
        /\ step'[q] = step[q] /\ mode'[q] = mode[q]
        /\ stamp'[q] = stamp[q] /\ answer'[q] = answer[q]

LEMMA RealInit == Init => RealInv
  BY DEF Init, RealInv

LEMMA RealFramed ==
    ASSUME RealInv, UNCHANGED <<pause, password, strikes, signin>>
    PROVE  RealInv'
  BY DEF RealInv, Pausing, Real, Automatic, signin

LEMMA RealCleared ==
    ASSUME CleanSlate, password' \in Passwords, stamp' \in [Procs -> Passwords]
    PROVE  RealInv'
  BY DEF CleanSlate, RealInv

\* A sign-in moves on without having been the reason of a pause to come.
LEMMA RealMoves ==
    ASSUME RealInv, UNCHANGED <<pause, password, strikes>>,
           NEW p \in Procs, SameElsewhere(p),
           ~(Real(p) /\ step[p] = "answered" /\ answer[p] = "rejected"),
           \/ mode'[p] = "user"
           \/ step'[p] \notin {"password", "sent", "answered"}
           \/ step'[p] = "password" /\ stamp'[p] = password
           \/ /\ step[p] = "sent" /\ step'[p] = "answered"
              /\ mode'[p] = mode[p] /\ stamp'[p] = stamp[p]
    PROVE  RealInv'
<1>1. strikes'[password'] = 1 => Pausing(password)'
  BY DEF RealInv, Pausing, Real, SameElsewhere
<1>2. ASSUME NEW q \in Procs, Automatic(q)'
      PROVE  /\ step'[q] \in {"password", "sent", "answered"} /\ stamp'[q] # password'
                  => strikes'[password'] = 0
             /\ step'[q] = "password" /\ stamp'[q] # password' => strikes'[stamp'[q]] = 0
             /\ step'[q] = "sent" /\ Real(q)' => strikes'[stamp'[q]] = 0
  <2>1. CASE q # p
    BY <1>2, <2>1 DEF RealInv, Real, Automatic, SameElsewhere
  <2>2. CASE q = p
    BY <1>2, <2>2 DEF RealInv, Real, Automatic
  <2>3. QED
    BY <2>1, <2>2
<1>3. \A w \in Passwords : strikes'[w] <= 1
  BY DEF RealInv
<1>4. QED
  BY <1>1, <1>2, <1>3 DEF RealInv

LEMMA RealStep ==
    TypeOK /\ ConnectsApart /\ OneAutomaticSignIn /\ RealInv /\ [Next]_vars => RealInv'
<1> SUFFICES ASSUME TypeOK, ConnectsApart, OneAutomaticSignIn, RealInv, [Next]_vars
             PROVE  RealInv'
  OBVIOUS
<1>1. /\ mode \in [Procs -> Modes] /\ step \in [Procs -> LoginSteps]
      /\ stamp \in [Procs -> Passwords] /\ answer \in [Procs -> Answers]
      /\ password \in Passwords /\ inFlight \in Procs \cup {None}
      /\ pause \in Passwords \cup {None} /\ strikes \in [Passwords -> Nat]
  BY DEF TypeOK, SignInType, MemoryType, StoreType, HistoryType
<1>13. TypeOK'
  BY TypeStep
<1>10. password' \in Passwords /\ stamp' \in [Procs -> Passwords]
  BY <1>13 DEF TypeOK, SignInType, StoreType
<1> USE <1>1, ProcsAssumption
<1>11. \A p, q \in Procs :
         Automatic(p) /\ Automatic(q) /\ step[p] # "idle" /\ step[q] # "idle" => p = q
  BY DEF OneAutomaticSignIn
<1>12. \A p \in Procs : Real(p) => Automatic(p)
  BY DEF Real, Automatic
<1>2. ASSUME NEW p \in Procs, EnsureStep(p) PROVE RealInv'
  <2>1. CASE EnsureReuses(p) \/ EnsureJoins(p)
    BY <2>1, RealFramed DEF EnsureReuses, EnsureJoins, memory, secrets, history, rejections
  <2>2. CASE EnsureSignsIn(p)
    <3>1. step[p] = "idle"
      BY <2>2 DEF EnsureSignsIn, OneAutomaticSignIn, ConnectsApart, Automatic
    <3>2. UNCHANGED <<pause, password, strikes>>
      BY <2>2 DEF EnsureSignsIn, limits, secrets, history, rejections
    <3>3. SameElsewhere(p) /\ step'[p] = "password" /\ stamp'[p] = password
      BY <2>2 DEF EnsureSignsIn, Starts, SameElsewhere
    <3>4. QED
      BY <3>1, <3>2, <3>3, RealMoves
  <2>3. QED
    BY <1>2, <2>1, <2>2 DEF EnsureStep
<1>3. ASSUME NEW p \in Procs, SignInStep(p) PROVE RealInv'
  <2>1. CASE SettlesSignedIn(p) \/ SettlesWithOld(p) \/ SettlesFailed(p)
    <3>1. UNCHANGED <<pause, password, strikes>>
      BY <2>1 DEF SettlesSignedIn, SettlesWithOld, SettlesFailed, limits, secrets,
                  history, rejections
    <3>2. SameElsewhere(p) /\ step[p] = "recording" /\ step'[p] = "idle"
      BY <2>1 DEF SettlesSignedIn, SettlesWithOld, SettlesFailed, Settles, SameElsewhere
    <3>3. QED
      BY <3>1, <3>2, RealMoves
  <2>9. CASE SignInRejectionLost(p)
    <3>1. UNCHANGED <<pause, password>>
      BY <2>9 DEF SignInRejectionLost, memory, secrets
    <3>2. /\ SameElsewhere(p) /\ step[p] = "sent" /\ step'[p] = "answered"
          /\ mode'[p] = mode[p] /\ stamp'[p] = stamp[p]
      BY <2>9 DEF SignInRejectionLost, SameElsewhere
    <3>3. Real(p) => strikes[stamp[p]] = 0
      BY <3>2, <1>12 DEF RealInv
    <3>4. strikes' = strikes
      BY <2>9, <3>3 DEF SignInRejectionLost, RejectionCounted, Real
    <3>5. QED
      BY <3>1, <3>2, <3>4, RealMoves
  <2>2. CASE SignInAccepted(p) \/ SignInLost(p) \/ SignInUnavailable(p)
    <3>1. UNCHANGED <<pause, password, strikes>>
      BY <2>2 DEF SignInAccepted, SignInLost, SignInUnavailable, memory, secrets,
                  history, rejections
    <3>2. /\ SameElsewhere(p) /\ step[p] = "sent" /\ step'[p] = "answered"
          /\ mode'[p] = mode[p] /\ stamp'[p] = stamp[p]
      BY <2>2 DEF SignInAccepted, SignInLost, SignInUnavailable, SameElsewhere
    <3>3. QED
      BY <3>1, <3>2, RealMoves
  <2>3. CASE SignInStored(p)
    <3>1. UNCHANGED <<pause, password, strikes>>
      BY <2>3 DEF SignInStored, memory, history, rejections
    <3>2. SameElsewhere(p) /\ answer[p] = "token" /\ step'[p] = "storing"
      BY <2>3 DEF SignInStored, SameElsewhere
    <3>3. QED
      BY <3>1, <3>2, RealMoves
  <2>4. CASE SignInNoted(p)
    BY <2>4, <1>10, RealCleared DEF SignInNoted
  <2>5. CASE SignInRefused(p) \/ SignInSent(p)
    <3>1. /\ step[p] = "password" /\ UNCHANGED <<password, strikes>>
          /\ SameElsewhere(p) /\ mode'[p] = mode[p] /\ stamp'[p] = stamp[p]
      BY <2>5 DEF SignInRefused, SignInSent, SameElsewhere, secrets, history, rejections
    <3>2. CASE ~Automatic(p)
      <4>1. pause' = pause /\ mode'[p] = "user"
        BY <2>5, <3>1, <3>2 DEF SignInRefused, Refused, SignInSent, Automatic
      <4>2. QED
        BY <3>1, <3>2, <4>1, <1>12, RealMoves
    <3>3. CASE Automatic(p)
      <4>1. strikes[password] = 1 => pause = password /\ stamp[p] = password
        BY <3>1, <3>3, <1>11, <1>12 DEF RealInv, Pausing
      <4>2. CASE SignInRefused(p)
        <5>1. step'[p] = "recording" /\ pause' = PauseKept(p)
          BY <4>2 DEF SignInRefused
        <5>2. strikes[password] = 1 => pause' = password
          BY <4>1, <5>1 DEF PauseKept
        <5>3. \A q \in Procs : Automatic(q)' =>
                 step'[q] \notin {"password", "sent", "answered"}
          <6>1. \A q \in Procs : q # p /\ Automatic(q) => step[q] = "idle"
            BY <1>11, <3>1, <3>3
          <6>2. QED
            BY <6>1, <5>1, <3>1 DEF SameElsewhere, Automatic
        <5>4. QED
          BY <3>1, <5>2, <5>3 DEF RealInv, Pausing
      <4>3. CASE SignInSent(p)
        <5>1. step'[p] = "sent" /\ pause # stamp[p]
          BY <4>3, <3>3 DEF SignInSent, Refused
        <5>2. strikes[password] = 0
          BY <4>1, <5>1 DEF RealInv
        <5>3. strikes[stamp[p]] = 0
          BY <5>2, <3>1, <3>3 DEF RealInv
        <5>4. \A q \in Procs : q # p /\ Automatic(q) => step[q] = "idle"
          BY <1>11, <3>1, <3>3
        <5>5. QED
          BY <3>1, <5>1, <5>2, <5>3, <5>4 DEF RealInv, Real, Automatic, SameElsewhere
      <4>4. QED
        BY <2>5, <4>2, <4>3
    <3>4. QED
      BY <3>2, <3>3
  <2>6. CASE SignInRejected(p)
    <3>1. /\ step[p] = "sent" /\ step'[p] = "answered" /\ answer'[p] = "rejected"
          /\ UNCHANGED <<pause, password>>
          /\ SameElsewhere(p) /\ mode'[p] = mode[p] /\ stamp'[p] = stamp[p]
      BY <2>6 DEF SignInRejected, SameElsewhere, memory, secrets
    <3>2. CASE ~Real(p)
      <4>1. strikes' = strikes
        BY <2>6, <3>2 DEF SignInRejected, RejectionCounted, Real
      <4>2. QED
        BY <3>1, <3>2, <4>1, RealMoves
    <3>3. CASE Real(p)
      <4>1. strikes' = [strikes EXCEPT ![stamp[p]] = @ + 1]
        BY <2>6, <3>3 DEF SignInRejected, RejectionCounted, Real
      <4>2. strikes[stamp[p]] = 0 /\ Automatic(p)
        BY <3>1, <3>3, <1>12 DEF RealInv
      <4>3. stamp[p] # password => strikes[password] = 0
        BY <3>1, <4>2 DEF RealInv
      <4>4. \A w \in Passwords : strikes'[w] <= 1
        BY <4>1, <4>2 DEF RealInv
      <4>5. strikes'[password'] = 1 => Pausing(password)'
        BY <3>1, <3>3, <4>1, <4>3 DEF Pausing, Real
      <4>6. \A q \in Procs : q # p /\ Automatic(q) => step[q] = "idle"
        BY <1>11, <3>1, <4>2
      <4>7. \A q \in Procs : q # p /\ Automatic(q)' => step'[q] = "idle"
        BY <4>6, <3>1 DEF SameElsewhere, Automatic
      <4>8. stamp'[p] # password' => strikes'[password'] = 0
        BY <3>1, <4>1, <4>3
      <4>9. QED
        BY <3>1, <4>4, <4>5, <4>7, <4>8 DEF RealInv
    <3>4. QED
      BY <3>2, <3>3
  <2>7. CASE SignInFailed(p)
    <3>1. /\ step[p] = "answered" /\ step'[p] = "recording" /\ password' = password
          /\ SameElsewhere(p) /\ mode'[p] = mode[p] /\ stamp'[p] = stamp[p]
      BY <2>7 DEF SignInFailed, SameElsewhere, secrets
    <3>2. CASE ~Automatic(p)
      BY <2>7, <3>2, <1>10, RealCleared DEF SignInFailed
    <3>3. CASE Automatic(p) /\ ~(Real(p) /\ answer[p] = "rejected")
      <4>1. UNCHANGED <<pause, strikes>>
        BY <2>7, <3>3 DEF SignInFailed, RecordsFailure, Real, Automatic, Modes, rejections
      <4>2. QED
        BY <3>1, <3>3, <4>1, RealMoves
    <3>4. CASE Real(p) /\ answer[p] = "rejected"
      <4>1. pause' = stamp[p] /\ strikes' = strikes /\ Automatic(p)
        BY <2>7, <3>4 DEF SignInFailed, RecordsFailure, Real, Automatic, rejections
      <4>2. stamp[p] # password => strikes[password] = 0
        BY <3>1, <4>1 DEF RealInv
      <4>3. strikes'[password'] = 1 => Pausing(password)'
        BY <3>1, <4>1, <4>2 DEF Pausing
      <4>4. \A q \in Procs : q # p /\ Automatic(q) => step[q] = "idle"
        BY <1>11, <3>1, <4>1
      <4>5. \A q \in Procs : Automatic(q)' => step'[q] \in {"idle", "recording"}
        BY <4>4, <3>1 DEF SameElsewhere, Automatic
      <4>6. QED
        BY <4>1, <4>3, <4>5 DEF RealInv
    <3>5. QED
      BY <3>2, <3>3, <3>4, <1>12
  <2>8. QED
    BY <1>3, <2>1, <2>2, <2>3, <2>4, <2>5, <2>6, <2>7, <2>9 DEF SignInStep
<1>4. ASSUME NEW r \in Procs,
             RequestStep(r) \/ (r \in Requests /\ RequestBegins(r)) \/ RequestCancelled(r)
      PROVE RealInv'
  <2>1. CASE RequestBeginsAgain(r) \/ RequestServed(r) \/ RequestFails(r)
    BY <2>1, RealFramed DEF RequestBeginsAgain, RequestServed, RequestFails, memory,
       secrets, history, rejections
  <2>2. CASE (r \in Requests /\ RequestBegins(r)) \/ RequestCancelled(r)
    BY <2>2, RealFramed DEF RequestBegins, RequestCancelled, memory, secrets, history,
       rejections
  <2>3. CASE RequestRejected(r) \/ RequestRejectedAgain(r)
    BY <2>3, RealFramed DEF RequestRejected, RequestRejectedAgain, memory, secrets,
       history, rejections
  <2>4. CASE RenewNotNeeded(r) \/ RenewJoins(r)
    BY <2>4, RealFramed DEF RenewNotNeeded, RenewJoins, memory, secrets, history,
       rejections
  <2>5. CASE RenewSignsIn(r)
    <3>1. step[r] = "idle"
      BY <2>5 DEF RenewSignsIn, OneAutomaticSignIn, ConnectsApart, Automatic
    <3>2. UNCHANGED <<pause, password, strikes>>
      BY <2>5 DEF RenewSignsIn, limits, rejections
    <3>3. SameElsewhere(r) /\ step'[r] = "deleting"
      BY <2>5 DEF RenewSignsIn, SameElsewhere
    <3>4. QED
      BY <3>1, <3>2, <3>3, RealMoves
  <2>6. CASE RenewCleared(r)
    <3>1. step[r] = "deleting" /\ UNCHANGED <<pause, password, strikes>>
      BY <2>6 DEF RenewCleared, limits, secrets, history, rejections
    <3>2. SameElsewhere(r) /\ step'[r] = "password" /\ stamp'[r] = password
      BY <2>6 DEF RenewCleared, Starts, SameElsewhere
    <3>3. QED
      BY <3>1, <3>2, RealMoves
  <2>7. QED
    BY <1>4, <2>1, <2>2, <2>3, <2>4, <2>5, <2>6 DEF RequestStep
<1>5. ASSUME NEW c \in Procs, ConnectStarts(c) \/ ConnectStep(c) PROVE RealInv'
  <2>1. UNCHANGED <<pause, password, strikes>>
    BY <1>5 DEF ConnectStarts, ConnectStep, ConnectSucceeds, ConnectFails,
       ConnectBacksOff, ConnectSettles, memory, secrets, history, rejections
  <2>2. mode[c] = "user" /\ mode'[c] = "user"
    BY <1>5 DEF ConnectStarts, Starts, ConnectStep, ConnectSucceeds, ConnectFails,
       ConnectBacksOff, ConnectSettles, ConnectsApart
  <2>3. SameElsewhere(c)
    BY <1>5 DEF ConnectStarts, Starts, ConnectStep, ConnectSucceeds, ConnectFails,
       ConnectBacksOff, ConnectSettles, SameElsewhere
  <2>4. QED
    BY <2>1, <2>2, <2>3, RealMoves DEF Real
<1>6. ASSUME NEW d \in Procs,
             (d \in Disconnects /\ DisconnectBegins(d)) \/ DisconnectStep(d)
      PROVE RealInv'
  BY <1>6, RealFramed DEF DisconnectBegins, DisconnectStep, DisconnectHasNothing,
     DisconnectEnsures, LogoutServed, LogoutFails, SignOutDeletes, SignOutDone,
     memory, limits, secrets, history, rejections
<1>7. ASSUME Environment PROVE RealInv'
  <2>1. CASE WindowReloads \/ \E w \in Passwords : ProfileSaved(w)
    BY <2>1, <1>10, RealCleared DEF WindowReloads, ProfileSaved
  <2>2. CASE \/ \E t \in retiring : RetireArrives(t) \/ RetireLost(t)
             \/ \E t \in live : SessionEnds(t)
    BY <2>2, RealFramed DEF RetireArrives, RetireLost, SessionEnds, memory, secrets,
       history, rejections
  <2>3. CASE TimePasses \/ \E w \in Passwords : PasswordChanges(w)
    BY <2>3, RealFramed DEF TimePasses, PasswordChanges, memory, secrets, history,
       rejections
  <2>4. QED
    BY <1>7, <2>1, <2>2, <2>3 DEF Environment
<1>8. CASE UNCHANGED vars
  BY <1>8, RealFramed DEF vars, memory, secrets, history, rejections
<1>9. QED
  BY <1>2, <1>3, <1>4, <1>5, <1>6, <1>7, <1>8, NextCases

-----------------------------------------------------------------------------
(***************************************************************************)
(* Rejections ahead of expiry: the first one suspends such sign-ins.        *)
(***************************************************************************)
LEMMA EarlyInit == Init => EarlyInv
  BY DEF Init, EarlyInv

LEMMA EarlyFramed ==
    ASSUME EarlyInv, UNCHANGED <<suspended, password, earlyStrikes, signin>>
    PROVE  EarlyInv'
  BY DEF EarlyInv, Suspending, Early, signin

LEMMA EarlyCleared ==
    ASSUME CleanSlate, password' \in Passwords, stamp' \in [Procs -> Passwords]
    PROVE  EarlyInv'
  BY DEF CleanSlate, EarlyInv

\* A sign-in moves on, and still answers for the suspension to come if it did.
LEMMA EarlyMoves ==
    ASSUME EarlyInv, UNCHANGED <<password, earlyStrikes>>, suspended => suspended',
           NEW p \in Procs, SameElsewhere(p),
           (Early(p) /\ step[p] \in {"answered", "recording"}
              /\ answer[p] \in {"rejected", "error"})
             => \/ suspended'
                \/ /\ step'[p] \in {"answered", "recording"}
                   /\ mode'[p] = mode[p] /\ stamp'[p] = stamp[p] /\ answer'[p] = answer[p],
           Early(p)' /\ step'[p] \in {"password", "sent"} => earlyStrikes[stamp'[p]] = 0
    PROVE  EarlyInv'
<1>1. earlyStrikes'[password'] = 1 => Suspending(password)'
  BY DEF EarlyInv, Suspending, Early, SameElsewhere
<1>2. ASSUME NEW q \in Procs, Early(q)', step'[q] \in {"password", "sent"}
      PROVE  earlyStrikes'[stamp'[q]] = 0
  <2>1. CASE q # p
    BY <1>2, <2>1 DEF EarlyInv, Early, SameElsewhere
  <2>2. CASE q = p
    BY <1>2, <2>2 DEF EarlyInv, Early
  <2>3. QED
    BY <2>1, <2>2
<1>3. \A w \in Passwords : earlyStrikes'[w] <= 1
  BY DEF EarlyInv
<1>4. QED
  BY <1>1, <1>2, <1>3 DEF EarlyInv

LEMMA EarlyStep ==
    TypeOK /\ ConnectsApart /\ OneAutomaticSignIn /\ EarlyInv /\ [Next]_vars => EarlyInv'
<1> SUFFICES ASSUME TypeOK, ConnectsApart, OneAutomaticSignIn, EarlyInv, [Next]_vars
             PROVE  EarlyInv'
  OBVIOUS
<1>1. /\ mode \in [Procs -> Modes] /\ step \in [Procs -> LoginSteps]
      /\ stamp \in [Procs -> Passwords] /\ answer \in [Procs -> Answers]
      /\ password \in Passwords /\ inFlight \in Procs \cup {None}
      /\ suspended \in BOOLEAN /\ earlyStrikes \in [Passwords -> Nat]
  BY DEF TypeOK, SignInType, MemoryType, StoreType, HistoryType
<1>13. TypeOK'
  BY TypeStep
<1>10. password' \in Passwords /\ stamp' \in [Procs -> Passwords]
  BY <1>13 DEF TypeOK, SignInType, StoreType
<1> USE <1>1, ProcsAssumption
<1>11. \A p, q \in Procs :
         Automatic(p) /\ Automatic(q) /\ step[p] # "idle" /\ step[q] # "idle" => p = q
  BY DEF OneAutomaticSignIn
<1>12. \A p \in Procs : Early(p) => Automatic(p)
  BY DEF Early, Automatic
<1>2. ASSUME NEW p \in Procs, EnsureStep(p) PROVE EarlyInv'
  <2>1. CASE EnsureReuses(p) \/ EnsureJoins(p)
    BY <2>1, EarlyFramed DEF EnsureReuses, EnsureJoins, memory, secrets, history, rejections
  <2>2. CASE EnsureSignsIn(p)
    <3>1. \A q \in Procs : Automatic(q) => step[q] = "idle"
      BY <2>2 DEF EnsureSignsIn, OneAutomaticSignIn
    <3>2. UNCHANGED <<suspended, password, earlyStrikes>>
      BY <2>2 DEF EnsureSignsIn, limits, secrets, history, rejections
    <3>3. SameElsewhere(p) /\ stamp'[p] = password
      BY <2>2 DEF EnsureSignsIn, Starts, SameElsewhere
    <3>4. Early(p)' => ~suspended
      <4>1. Early(p)' => seen[p] # NoToken
        BY <2>2 DEF EnsureSignsIn, Starts, Early
      <4>2. QED
        BY <4>1, <2>2 DEF EnsureSignsIn, Reusable
    <3>5. ~suspended => earlyStrikes[password] = 0
      BY <3>1, <1>12 DEF EarlyInv, Suspending
    <3>6. step[p] = "idle" \/ ~Early(p)
      BY <3>1, <1>12
    <3>7. QED
      BY <3>2, <3>3, <3>4, <3>5, <3>6, EarlyMoves
  <2>3. QED
    BY <1>2, <2>1, <2>2 DEF EnsureStep
<1>3. ASSUME NEW p \in Procs, SignInStep(p) PROVE EarlyInv'
  <2>1. CASE SettlesSignedIn(p) \/ SettlesWithOld(p) \/ SettlesFailed(p)
    <3>1. UNCHANGED <<password, earlyStrikes>>
      BY <2>1 DEF SettlesSignedIn, SettlesWithOld, SettlesFailed, secrets, history,
                  rejections
    <3>4. suspended' = suspended \/ suspended' = TRUE
      BY <2>1 DEF SettlesSignedIn, SettlesWithOld, SettlesFailed, limits
    <3>5. suspended' = TRUE \/ answer[p] = "token" \/ ~Early(p)
      BY <2>1 DEF SettlesSignedIn, SettlesWithOld, SettlesFailed, Early
    <3>2. SameElsewhere(p) /\ step'[p] = "idle"
      BY <2>1 DEF SettlesSignedIn, SettlesWithOld, SettlesFailed, Settles, SameElsewhere
    <3>3. QED
      BY <3>1, <3>2, <3>4, <3>5, EarlyMoves
  <2>2. CASE \/ SignInAccepted(p) \/ SignInLost(p) \/ SignInUnavailable(p)
             \/ SignInRefused(p) \/ SignInSent(p)
    <3>1. UNCHANGED <<suspended, password, earlyStrikes>>
      BY <2>2 DEF SignInAccepted, SignInLost, SignInUnavailable, SignInRefused, SignInSent,
                  memory, secrets, history, rejections
    <3>2. /\ SameElsewhere(p) /\ step[p] \in {"password", "sent"}
          /\ mode'[p] = mode[p] /\ stamp'[p] = stamp[p]
      BY <2>2 DEF SignInAccepted, SignInLost, SignInUnavailable, SignInRefused, SignInSent,
                  SameElsewhere
    <3>3. Early(p) => earlyStrikes[stamp[p]] = 0
      BY <3>2 DEF EarlyInv
    <3>4. QED
      BY <3>1, <3>2, <3>3, EarlyMoves DEF Early
  <2>3. CASE SignInStored(p)
    <3>1. UNCHANGED <<suspended, password, earlyStrikes>>
      BY <2>3 DEF SignInStored, memory, history, rejections
    <3>2. SameElsewhere(p) /\ answer[p] = "token" /\ step'[p] = "storing"
      BY <2>3 DEF SignInStored, SameElsewhere
    <3>3. QED
      BY <3>1, <3>2, EarlyMoves
  <2>4. CASE SignInNoted(p)
    BY <2>4, <1>10, EarlyCleared DEF SignInNoted
  <2>6. CASE SignInRejected(p) \/ SignInRejectionLost(p)
    <3>1. /\ step[p] = "sent" /\ step'[p] = "answered"
          /\ answer'[p] \in {"rejected", "error"}
          /\ UNCHANGED <<suspended, password>>
          /\ SameElsewhere(p) /\ mode'[p] = mode[p] /\ stamp'[p] = stamp[p]
      BY <2>6 DEF SignInRejected, SignInRejectionLost, SameElsewhere, memory, secrets
    <3>2. CASE ~Early(p)
      <4>1. earlyStrikes' = earlyStrikes
        BY <2>6, <3>2 DEF SignInRejected, SignInRejectionLost, RejectionCounted, Early
      <4>2. QED
        BY <3>1, <3>2, <4>1, EarlyMoves DEF Early
    <3>3. CASE Early(p)
      <4>1. earlyStrikes' = [earlyStrikes EXCEPT ![stamp[p]] = @ + 1]
        BY <2>6, <3>3 DEF SignInRejected, SignInRejectionLost, RejectionCounted, Early
      <4>2. earlyStrikes[stamp[p]] = 0
        BY <3>1, <3>3 DEF EarlyInv
      <4>3. \A w \in Passwords : earlyStrikes'[w] <= 1
        BY <4>1, <4>2 DEF EarlyInv
      <4>4. \A q \in Procs : q # p /\ Early(q) => step[q] = "idle"
        BY <1>11, <1>12, <3>1, <3>3
      <4>5. \A q \in Procs : Early(q)' => step'[q] \in {"idle", "answered"}
        BY <4>4, <3>1 DEF SameElsewhere, Early
      <4>6. earlyStrikes'[password'] = 1 => Suspending(password)'
        <5>1. CASE stamp[p] = password
          BY <5>1, <3>1, <3>3 DEF Suspending, Early
        <5>2. CASE stamp[p] # password
          <6>1. earlyStrikes[password] = 1 => suspended
            BY <3>1, <4>4 DEF EarlyInv, Suspending
          <6>2. QED
            BY <5>2, <6>1, <3>1, <4>1 DEF Suspending
        <5>3. QED
          BY <5>1, <5>2
      <4>7. QED
        BY <4>3, <4>5, <4>6 DEF EarlyInv
    <3>4. QED
      BY <3>2, <3>3
  <2>7. CASE SignInFailed(p)
    <3>1. /\ step'[p] = "recording" /\ UNCHANGED <<suspended, password>>
          /\ SameElsewhere(p) /\ UNCHANGED <<mode, stamp, answer>>
      BY <2>7 DEF SignInFailed, SameElsewhere, secrets
    <3>2. CASE ~Automatic(p)
      BY <2>7, <3>2, <1>10, EarlyCleared DEF SignInFailed
    <3>3. CASE Automatic(p)
      <4>1. step[p] = "answered" /\ earlyStrikes' = earlyStrikes
        BY <2>7, <3>3 DEF SignInFailed, rejections
      <4>2. QED
        BY <3>1, <4>1, EarlyMoves DEF Early
    <3>4. QED
      BY <3>2, <3>3
  <2>8. QED
    BY <1>3, <2>1, <2>2, <2>3, <2>4, <2>6, <2>7 DEF SignInStep
<1>4. ASSUME NEW r \in Procs,
             RequestStep(r) \/ (r \in Requests /\ RequestBegins(r)) \/ RequestCancelled(r)
      PROVE EarlyInv'
  <2>1. CASE RequestBeginsAgain(r) \/ RequestServed(r) \/ RequestFails(r)
    BY <2>1, EarlyFramed DEF RequestBeginsAgain, RequestServed, RequestFails, memory,
       secrets, history, rejections
  <2>2. CASE (r \in Requests /\ RequestBegins(r)) \/ RequestCancelled(r)
    BY <2>2, EarlyFramed DEF RequestBegins, RequestCancelled, memory, secrets, history,
       rejections
  <2>3. CASE RequestRejected(r) \/ RequestRejectedAgain(r)
    BY <2>3, EarlyFramed DEF RequestRejected, RequestRejectedAgain, memory, secrets,
       history, rejections
  <2>4. CASE RenewNotNeeded(r) \/ RenewJoins(r)
    BY <2>4, EarlyFramed DEF RenewNotNeeded, RenewJoins, memory, secrets, history,
       rejections
  <2>5. CASE RenewSignsIn(r) \/ RenewCleared(r)
    <3>1. UNCHANGED <<suspended, password, earlyStrikes>>
      BY <2>5 DEF RenewSignsIn, RenewCleared, limits, secrets, history, rejections
    <3>2. SameElsewhere(r) /\ ~Early(r)'
      BY <2>5 DEF RenewSignsIn, RenewCleared, Starts, SameElsewhere, Early
    <3>3. step[r] \in {"idle", "deleting"}
      BY <2>5 DEF RenewSignsIn, RenewCleared, OneAutomaticSignIn, ConnectsApart, Automatic
    <3>4. QED
      BY <3>1, <3>2, <3>3, EarlyMoves
  <2>7. QED
    BY <1>4, <2>1, <2>2, <2>3, <2>4, <2>5 DEF RequestStep
<1>5. ASSUME NEW c \in Procs, ConnectStarts(c) \/ ConnectStep(c) PROVE EarlyInv'
  <2>1. UNCHANGED <<suspended, password, earlyStrikes>>
    BY <1>5 DEF ConnectStarts, ConnectStep, ConnectSucceeds, ConnectFails,
       ConnectBacksOff, ConnectSettles, memory, secrets, history, rejections
  <2>2. mode[c] = "user" /\ mode'[c] = "user"
    BY <1>5 DEF ConnectStarts, Starts, ConnectStep, ConnectSucceeds, ConnectFails,
       ConnectBacksOff, ConnectSettles, ConnectsApart
  <2>3. SameElsewhere(c)
    BY <1>5 DEF ConnectStarts, Starts, ConnectStep, ConnectSucceeds, ConnectFails,
       ConnectBacksOff, ConnectSettles, SameElsewhere
  <2>4. QED
    BY <2>1, <2>2, <2>3, EarlyMoves DEF Early
<1>6. ASSUME NEW d \in Procs,
             (d \in Disconnects /\ DisconnectBegins(d)) \/ DisconnectStep(d)
      PROVE EarlyInv'
  BY <1>6, EarlyFramed DEF DisconnectBegins, DisconnectStep, DisconnectHasNothing,
     DisconnectEnsures, LogoutServed, LogoutFails, SignOutDeletes, SignOutDone,
     memory, limits, secrets, history, rejections
<1>7. ASSUME Environment PROVE EarlyInv'
  <2>1. CASE WindowReloads \/ \E w \in Passwords : ProfileSaved(w)
    BY <2>1, <1>10, EarlyCleared DEF WindowReloads, ProfileSaved
  <2>2. CASE \/ \E t \in retiring : RetireArrives(t) \/ RetireLost(t)
             \/ \E t \in live : SessionEnds(t)
    BY <2>2, EarlyFramed DEF RetireArrives, RetireLost, SessionEnds, memory, secrets,
       history, rejections
  <2>3. CASE TimePasses \/ \E w \in Passwords : PasswordChanges(w)
    BY <2>3, EarlyFramed DEF TimePasses, PasswordChanges, memory, secrets, history,
       rejections
  <2>4. QED
    BY <1>7, <2>1, <2>2, <2>3 DEF Environment
<1>8. CASE UNCHANGED vars
  BY <1>8, EarlyFramed DEF vars, memory, secrets, history, rejections
<1>9. QED
  BY <1>2, <1>3, <1>4, <1>5, <1>6, <1>7, <1>8, NextCases

\* Whatever requests, Connects, late answers and saves do, once the client hears
\* that FileMaker rejects its credentials, FileMaker does not reject them again
\* before the user acts or a sign-in succeeds; ahead of expiry it rejects them at
\* most once even when the answer is lost.  IInv is inductive and implies it.
THEOREM AccountNotLocked == Spec => []LockoutBound
<1>1. Init => IInv
  BY TypeInit, ApartInit, MutexInit, RealInit, EarlyInit DEF IInv
<1>2. IInv /\ [Next]_vars => IInv'
  BY TypeStep, ApartStep, MutexStep, RealStep, EarlyStep DEF IInv
<1>3. IInv => LockoutBound
  BY DEF IInv, RealInv, EarlyInv, LockoutBound
<1>4. QED
  BY <1>1, <1>2, <1>3, PTL DEF Spec

-----------------------------------------------------------------------------
(***************************************************************************)
(* Whoever waits for a sign-in is woken when it settles.                    *)
(***************************************************************************)
LEMMA WaitFramed ==
    ASSUME NobodyWaitsForNothing, UNCHANGED inFlight,
           \A p \in Procs : pc'[p] \in Waiting => pc[p] \in Waiting
    PROVE  NobodyWaitsForNothing'
  BY DEF NobodyWaitsForNothing

LEMMA WaitStep ==
    TypeOK /\ NobodyWaitsForNothing /\ [Next]_vars => NobodyWaitsForNothing'
<1> SUFFICES ASSUME TypeOK, NobodyWaitsForNothing, [Next]_vars
             PROVE  NobodyWaitsForNothing'
  OBVIOUS
<1>1. pc \in [Procs -> Steps]
  BY DEF TypeOK, ProcType
<1> USE <1>1, ProcsAssumption DEF Waiting
<1>2. ASSUME NEW p \in Procs, EnsureStep(p) PROVE NobodyWaitsForNothing'
  <2>1. CASE EnsureReuses(p)
    BY <2>1, WaitFramed DEF EnsureReuses, memory
  <2>2. CASE EnsureJoins(p) \/ EnsureSignsIn(p)
    BY <2>2 DEF EnsureJoins, EnsureSignsIn, memory, NobodyWaitsForNothing
  <2>3. QED
    BY <1>2, <2>1, <2>2 DEF EnsureStep
<1>3. ASSUME NEW p \in Procs, SignInStep(p) PROVE NobodyWaitsForNothing'
  <2>1. CASE SettlesSignedIn(p) \/ SettlesWithOld(p) \/ SettlesFailed(p)
    <3>1. \A q \in Procs : pc'[q] \notin Waiting
      BY <2>1 DEF SettlesSignedIn, SettlesWithOld, SettlesFailed, Resume
    <3>2. QED
      BY <3>1 DEF NobodyWaitsForNothing
  <2>2. CASE SignInRefused(p) \/ SignInSent(p) \/ SignInAccepted(p) \/ SignInLost(p)
             \/ SignInRejected(p) \/ SignInRejectionLost(p) \/ SignInUnavailable(p)
    BY <2>2, WaitFramed DEF SignInRefused, SignInSent, SignInAccepted, SignInLost,
       SignInRejected, SignInRejectionLost, SignInUnavailable, memory, procvars
  <2>3. CASE SignInStored(p) \/ SignInNoted(p) \/ SignInFailed(p)
    BY <2>3, WaitFramed DEF SignInStored, SignInNoted, SignInFailed, memory, procvars
  <2>4. QED
    BY <1>3, <2>1, <2>2, <2>3 DEF SignInStep
<1>4. ASSUME NEW r \in Procs,
             RequestStep(r) \/ (r \in Requests /\ RequestBegins(r)) \/ RequestCancelled(r)
      PROVE  NobodyWaitsForNothing'
  <2>1. CASE RequestBeginsAgain(r) \/ RequestServed(r) \/ RequestFails(r)
    BY <2>1, WaitFramed DEF RequestBeginsAgain, RequestServed, RequestFails, Reads, memory
  <2>2. CASE (r \in Requests /\ RequestBegins(r)) \/ RequestCancelled(r)
    BY <2>2, WaitFramed DEF RequestBegins, RequestCancelled, Reads, memory
  <2>3. CASE RequestRejected(r) \/ RequestRejectedAgain(r) \/ RenewNotNeeded(r)
    BY <2>3, WaitFramed DEF RequestRejected, RequestRejectedAgain, RenewNotNeeded, Reads,
       memory
  <2>4. CASE RenewJoins(r) \/ RenewSignsIn(r)
    BY <2>4 DEF RenewJoins, RenewSignsIn, memory, NobodyWaitsForNothing
  <2>5. CASE RenewCleared(r)
    BY <2>5, WaitFramed DEF RenewCleared, procvars
  <2>6. QED
    BY <1>4, <2>1, <2>2, <2>3, <2>4, <2>5 DEF RequestStep
<1>5. ASSUME NEW c \in Procs, ConnectStarts(c) \/ ConnectStep(c)
      PROVE  NobodyWaitsForNothing'
  BY <1>5, WaitFramed DEF ConnectStarts, ConnectStep, ConnectSucceeds, ConnectFails,
     ConnectBacksOff, ConnectSettles, memory
<1>6. ASSUME NEW d \in Procs,
             (d \in Disconnects /\ DisconnectBegins(d)) \/ DisconnectStep(d)
      PROVE  NobodyWaitsForNothing'
  <2>1. UNCHANGED inFlight
    BY <1>6 DEF DisconnectBegins, DisconnectStep, DisconnectHasNothing, DisconnectEnsures,
       LogoutServed, LogoutFails, SignOutDeletes, SignOutDone, memory
  <2>2. \A q \in Procs : pc'[q] \in Waiting => pc[q] \in Waiting
    BY <1>6 DEF DisconnectBegins, DisconnectStep, DisconnectHasNothing, DisconnectEnsures,
       LogoutServed, LogoutFails, SignOutDeletes, SignOutDone, Reads
  <2>3. QED
    BY <2>1, <2>2, WaitFramed
<1>7. ASSUME Environment PROVE NobodyWaitsForNothing'
  <2>1. CASE WindowReloads
    <3>1. \A q \in Procs : pc'[q] \notin Waiting
      BY <2>1 DEF WindowReloads, Finished
    <3>2. QED
      BY <3>1 DEF NobodyWaitsForNothing
  <2>2. CASE ~WindowReloads
    BY <1>7, <2>2, WaitFramed DEF Environment, RetireArrives, RetireLost, SessionEnds,
       PasswordChanges, ProfileSaved, TimePasses, memory, procvars
  <2>3. QED
    BY <2>1, <2>2
<1>8. CASE UNCHANGED vars
  BY <1>8, WaitFramed DEF vars, memory, procvars
<1>9. QED
  BY <1>2, <1>3, <1>4, <1>5, <1>6, <1>7, <1>8, NextCases

\* A request or a Disconnect that waits for a sign-in always has one registered
\* to wait for: whoever joined inFlightRefresh is woken when it is cleared.
THEOREM WaitersAreWoken == Spec => []NobodyWaitsForNothing
<1>1. Init => TypeOK /\ NobodyWaitsForNothing
  BY TypeInit DEF Init, NobodyWaitsForNothing, Waiting
<1>2. TypeOK /\ NobodyWaitsForNothing /\ [Next]_vars => (TypeOK /\ NobodyWaitsForNothing)'
  BY TypeStep, WaitStep
<1>3. QED
  BY <1>1, <1>2, PTL DEF Spec

-----------------------------------------------------------------------------
(***************************************************************************)
(* No token is stored twice: the one a sign-in is about to store is in       *)
(* nobody's hands yet, so the one it replaces never comes back.              *)
(***************************************************************************)
Unstored(p) == step[p] = "answered" /\ answer[p] = "token"
Done(p) == step[p] \in {"storing", "recording"} /\ answer[p] = "token"

Circulates(t) ==
    \/ t \in retiring \cup {NoToken, stored}
    \/ \E q \in Procs : t \in {seen[q], tok[q], old[q]} \/ (Done(q) /\ t = new[q])

Numbered ==
    /\ stored <= issued /\ live \subseteq 1..issued /\ retiring \subseteq 1..issued
    /\ \A p \in Procs : /\ seen[p] <= issued /\ tok[p] <= issued
                         /\ old[p] <= issued /\ new[p] <= issued

Fresh ==
    \A p \in Procs : Unstored(p) =>
        ~Circulates(new[p]) /\ \A q \in Procs \ {p} : new[q] # new[p]

Replaced == \A p \in Procs : Done(p) => old[p] = NoToken \/ old[p] # stored

TokenInv == Numbered /\ Fresh /\ Replaced /\ RetireSparesStored

LEMMA TokenInit == Init => TokenInv
  BY DEF Init, TokenInv, Numbered, Fresh, Unstored, Replaced, Done, RetireSparesStored

LEMMA CirculatingNumbered ==
    ASSUME Numbered, TypeOK, NEW t, Circulates(t) PROVE t \in 0..issued
<1>1. /\ stored \in Nat /\ issued \in Nat
      /\ \A q \in Procs : /\ seen[q] \in Nat /\ tok[q] \in Nat
                          /\ old[q] \in Nat /\ new[q] \in Nat
  BY DEF TypeOK, ProcType, SignInType, StoreType, ServerType
<1>2. CASE t \in retiring
  <2>1. t \in 1..issued
    BY <1>2 DEF Numbered
  <2>2. QED
    BY <1>1, <2>1
<1>3. CASE t \in {NoToken, stored}
  BY <1>1, <1>3 DEF Numbered
<1>4. CASE \E q \in Procs : t \in {seen[q], tok[q], old[q], new[q]}
  BY <1>1, <1>4 DEF Numbered
<1>5. QED
  BY <1>2, <1>3, <1>4 DEF Circulates

\* A step that issues and stores no token only passes on tokens in circulation.
LEMMA TokensPassedOn ==
    ASSUME TypeOK, TypeOK', TokenInv, UNCHANGED issued, live' \subseteq live,
           stored' \in {stored, NoToken},
           \A q \in Procs : /\ Circulates(seen'[q]) /\ Circulates(tok'[q])
                            /\ Circulates(old'[q])
                            /\ new'[q] \in {new[q], NoToken}
                            /\ Unstored(q)' => Unstored(q) /\ new'[q] = new[q]
                            /\ Done(q)' => Done(q) /\ old'[q] = old[q] /\ new'[q] = new[q],
           \A t \in retiring' : Circulates(t) /\ t \notin {NoToken, stored}
    PROVE  TokenInv'
<1>1. \A t : Circulates(t) => t \in 0..issued
  BY CirculatingNumbered DEF TokenInv
<1>2. issued \in Nat
  BY DEF TypeOK, ServerType
<1>3. \A q \in Procs : seen'[q] <= issued /\ tok'[q] <= issued /\ old'[q] <= issued
  BY <1>1, <1>2
<1>4. \A q \in Procs : new'[q] <= issued
  BY <1>2 DEF TokenInv, Numbered
<1>5. retiring' \subseteq 1..issued
  BY <1>1, <1>2
<1>6. Numbered'
  BY <1>2, <1>3, <1>4, <1>5 DEF TokenInv, Numbered
<1>7. Circulates(stored')
  BY DEF Circulates
<1>8. ASSUME NEW t, Circulates(t)' PROVE Circulates(t)
  <2>1. CASE t \in retiring' \cup {NoToken, stored'}
    BY <2>1, <1>7 DEF Circulates
  <2>2. CASE \E q \in Procs : t \in {seen'[q], tok'[q], old'[q]}
    BY <2>2
  <2>3. CASE \E q \in Procs : Done(q)' /\ t = new'[q]
    BY <2>3 DEF Circulates
  <2>4. QED
    BY <1>8, <2>1, <2>2, <2>3 DEF Circulates
<1>9. ASSUME NEW p \in Procs, Unstored(p)'
      PROVE  ~Circulates(new[p])' /\ \A q \in Procs \ {p} : new'[q] # new'[p]
  <2>1. Unstored(p) /\ new'[p] = new[p]
    BY <1>9
  <2>2. ~Circulates(new[p]) /\ \A q \in Procs \ {p} : new[q] # new[p]
    BY <2>1 DEF TokenInv, Fresh
  <2>3. new[p] # NoToken
    BY <2>2 DEF Circulates
  <2>4. QED
    BY <1>8, <2>1, <2>2, <2>3
<1>10. Replaced'
  BY DEF TokenInv, Replaced
<1>11. RetireSparesStored'
  BY DEF TokenInv, RetireSparesStored
<1>12. QED
  BY <1>6, <1>9, <1>10, <1>11 DEF TokenInv, Fresh

\* The same for a step that touches no token at all.
LEMMA TokensFramed ==
    ASSUME TypeOK, TypeOK', TokenInv, UNCHANGED <<stored, issued, seen, tok, old, new>>,
           live' \subseteq live, retiring' \subseteq retiring,
           \A q \in Procs : /\ Unstored(q)' => Unstored(q)
                            /\ Done(q)' => Done(q)
    PROVE  TokenInv'
<1>1. \A q \in Procs : Circulates(seen[q]) /\ Circulates(tok[q]) /\ Circulates(old[q])
  BY DEF Circulates
<1>2. \A t \in retiring' : Circulates(t) /\ t \notin {NoToken, stored}
  BY DEF Circulates, TokenInv, Numbered, RetireSparesStored
<1>3. QED
  BY <1>1, <1>2, TokensPassedOn

LEMMA TokensIssued ==
    ASSUME TypeOK, TypeOK', TokenInv, NEW p \in Procs, SignInAccepted(p) \/ SignInLost(p)
    PROVE  TokenInv'
<1>1. /\ issued \in Nat /\ issued' = issued + 1 /\ live' = live \cup {issued + 1}
      /\ UNCHANGED <<stored, retiring, seen, tok, old>>
      /\ step' = [step EXCEPT ![p] = "answered"]
  BY DEF SignInAccepted, SignInLost, secrets, procvars, TypeOK, ServerType
<1>2. /\ step \in [Procs -> LoginSteps] /\ answer \in [Procs -> Answers]
      /\ stored \in Nat /\ retiring \subseteq Nat
      /\ \A q \in Procs : /\ seen[q] \in Nat /\ tok[q] \in Nat
                          /\ old[q] \in Nat /\ new[q] \in Nat
  BY DEF TypeOK, SignInType, ProcType, StoreType, ServerType
<1>3. \A q \in Procs \ {p} : new'[q] = new[q] /\ answer'[q] = answer[q]
  BY DEF SignInAccepted, SignInLost, TypeOK, SignInType
<1>4. \/ answer'[p] = "token" /\ new'[p] = issued + 1
      \/ answer'[p] = "error" /\ new'[p] = new[p]
  BY <1>2 DEF SignInAccepted, SignInLost, TypeOK, SignInType
<1>5. Numbered'
  <2>1. \A q \in Procs : new'[q] <= issued'
    BY <1>1, <1>2, <1>3, <1>4 DEF TokenInv, Numbered
  <2>2. live' \subseteq 1..issued' /\ retiring' \subseteq 1..issued'
    <3>1. 1..issued \subseteq 1..issued' /\ issued + 1 \in 1..issued'
      BY <1>1
    <3>2. live \subseteq 1..issued /\ retiring \subseteq 1..issued
      BY DEF TokenInv, Numbered
    <3>3. QED
      BY <1>1, <3>1, <3>2
  <2>3. /\ stored' <= issued'
        /\ \A q \in Procs : seen'[q] <= issued' /\ tok'[q] <= issued' /\ old'[q] <= issued'
    BY <1>1, <1>2 DEF TokenInv, Numbered
  <2>4. QED
    BY <2>1, <2>2, <2>3 DEF Numbered
<1>6. ~Done(p) /\ ~Done(p)' /\ \A q \in Procs \ {p} : Done(q)' <=> Done(q)
  BY <1>1, <1>2, <1>3 DEF Done, SignInAccepted, SignInLost
<1>7. ASSUME NEW t, Circulates(t)' PROVE Circulates(t)
  BY <1>1, <1>3, <1>6, <1>7 DEF Circulates
<1>8. ASSUME NEW q \in Procs, Unstored(q)'
      PROVE  ~Circulates(new[q])' /\ \A r \in Procs \ {q} : new'[r] # new'[q]
  <2>1. CASE q = p
    <3>1. new'[p] = issued + 1
      BY <1>4, <1>8, <2>1 DEF Unstored
    <3>2. ~Circulates(issued + 1)
      BY <1>1, CirculatingNumbered DEF TokenInv
    <3>3. \A r \in Procs \ {p} : new[r] # issued + 1
      BY <1>1, <1>2 DEF TokenInv, Numbered
    <3>4. QED
      BY <1>3, <1>7, <2>1, <3>1, <3>2, <3>3
  <2>2. CASE q # p
    <3>1. Unstored(q) /\ new'[q] = new[q]
      BY <1>1, <1>2, <1>3, <1>8, <2>2 DEF Unstored
    <3>2. ~Circulates(new[q]) /\ \A r \in Procs \ {q} : new[r] # new[q]
      BY <3>1 DEF TokenInv, Fresh
    <3>3. new[q] # issued + 1
      BY <1>1, <1>2 DEF TokenInv, Numbered
    <3>4. QED
      BY <1>3, <1>4, <1>7, <3>1, <3>2, <3>3
  <2>3. QED
    BY <2>1, <2>2
<1>9. Replaced' /\ RetireSparesStored'
  BY <1>1, <1>6 DEF TokenInv, Replaced, RetireSparesStored
<1>10. QED
  BY <1>5, <1>8, <1>9 DEF TokenInv, Fresh

LEMMA TokenIsStored ==
    ASSUME TypeOK, TypeOK', TokenInv, NEW p \in Procs, SignInStored(p)
    PROVE  TokenInv'
<1>1. /\ Unstored(p) /\ stored' = new[p]
      /\ UNCHANGED <<live, issued, retiring, seen, tok, old, new, answer>>
      /\ step' = [step EXCEPT ![p] = "storing"]
  BY DEF SignInStored, Unstored, server, procvars
<1>2. step \in [Procs -> LoginSteps]
  BY DEF TypeOK, SignInType
<1>3. ~Circulates(new[p]) /\ \A q \in Procs \ {p} : new[q] # new[p]
  BY <1>1 DEF TokenInv, Fresh
<1>4. Numbered'
  BY <1>1 DEF TokenInv, Numbered
<1>5. Done(p)' /\ ~Unstored(p)'
      /\ \A q \in Procs \ {p} : (Done(q)' <=> Done(q)) /\ (Unstored(q)' <=> Unstored(q))
  BY <1>1, <1>2 DEF Done, Unstored
<1>6. ASSUME NEW t, Circulates(t)' PROVE Circulates(t) \/ t = new[p]
  BY <1>1, <1>5, <1>6 DEF Circulates
<1>7. Fresh'
  <2>1. ASSUME NEW q \in Procs, Unstored(q)'
        PROVE  ~Circulates(new[q])' /\ \A r \in Procs \ {q} : new'[r] # new'[q]
    <3>1. q # p /\ Unstored(q)
      BY <1>5, <2>1
    <3>2. ~Circulates(new[q]) /\ \A r \in Procs \ {q} : new[r] # new[q]
      BY <3>1 DEF TokenInv, Fresh
    <3>3. QED
      BY <1>1, <1>6, <3>1, <3>2
  <2>2. QED
    BY <2>1 DEF Fresh
<1>8. Replaced'
  BY <1>1, <1>3, <1>5 DEF Replaced, Circulates
<1>9. RetireSparesStored'
  BY <1>1, <1>3 DEF RetireSparesStored, Circulates
<1>10. QED
  BY <1>4, <1>7, <1>8, <1>9 DEF TokenInv

LEMMA TokenStep == TypeOK /\ TokenInv /\ [Next]_vars => TokenInv'
<1> SUFFICES ASSUME TypeOK, TokenInv, [Next]_vars PROVE TokenInv'
  OBVIOUS
<1>1. TypeOK' /\ /\ seen \in [Procs -> Nat] /\ tok \in [Procs -> Nat]
                 /\ old \in [Procs -> Nat] /\ new \in [Procs -> Nat]
                 /\ step \in [Procs -> LoginSteps] /\ answer \in [Procs -> Answers]
  BY TypeStep DEF TypeOK, ProcType, SignInType
<1>10. /\ Circulates(NoToken) /\ Circulates(stored)
       /\ \A q \in Procs : Circulates(seen[q]) /\ Circulates(tok[q]) /\ Circulates(old[q])
       /\ \A q \in Procs : Done(q) => Circulates(new[q])
       /\ \A t \in retiring : Circulates(t) /\ t \notin {NoToken, stored}
  BY DEF Circulates, TokenInv, Numbered, RetireSparesStored
<1> USE <1>1, <1>10
<1>2. ASSUME NEW p \in Procs, EnsureStep(p) PROVE TokenInv'
  <2>1. CASE EnsureReuses(p) \/ EnsureJoins(p)
    <3>1. UNCHANGED <<stored, issued, live, retiring, seen, step, answer, old, new>>
      BY <2>1 DEF EnsureReuses, EnsureJoins, secrets, server, signin
    <3>2. \A q \in Procs : tok'[q] \in {tok[q], seen[q]}
      BY <2>1 DEF EnsureReuses, EnsureJoins
    <3>3. QED
      BY <3>1, <3>2, TokensPassedOn DEF Unstored, Done
  <2>2. CASE EnsureSignsIn(p)
    <3>1. UNCHANGED <<stored, issued, live, retiring, seen, tok>>
      BY <2>2 DEF EnsureSignsIn, secrets, server
    <3>2. \A q \in Procs : /\ old'[q] \in {old[q], seen[q]}
                           /\ new'[q] \in {new[q], NoToken}
      BY <2>2 DEF EnsureSignsIn, Starts
    <3>3. \A q \in Procs : \/ step'[q] = "password"
                           \/ /\ step'[q] = step[q] /\ answer'[q] = answer[q]
                              /\ new'[q] = new[q] /\ old'[q] = old[q]
      BY <2>2 DEF EnsureSignsIn, Starts
    <3>4. QED
      BY <3>1, <3>2, <3>3, TokensPassedOn DEF Unstored, Done
  <2>3. QED
    BY <1>2, <2>1, <2>2 DEF EnsureStep
<1>3. ASSUME NEW p \in Procs, SignInStep(p) PROVE TokenInv'
  <2>1. CASE SettlesSignedIn(p)
    <3>1. /\ UNCHANGED <<stored, issued, live, seen, answer, old, new>> /\ Done(p)
          /\ step' = [step EXCEPT ![p] = "idle"]
      BY <2>1 DEF SettlesSignedIn, Settles, secrets, Done
    <3>2. \A q \in Procs : tok'[q] \in {tok[q], new[p]}
      BY <2>1 DEF SettlesSignedIn, Resume
    <3>3. \A t \in retiring' : t \in retiring \/ (t = old[p] /\ t # NoToken)
      BY <2>1 DEF SettlesSignedIn
    <3>4. old[p] = NoToken \/ old[p] # stored
      BY <3>1 DEF TokenInv, Replaced
    <3>5. QED
      BY <3>1, <3>2, <3>3, <3>4, TokensPassedOn DEF Unstored, Done
  <2>2. CASE SettlesWithOld(p) \/ SettlesFailed(p)
    <3>1. /\ UNCHANGED <<stored, issued, live, retiring, seen, answer, old, new>>
          /\ step' = [step EXCEPT ![p] = "idle"]
      BY <2>2 DEF SettlesWithOld, SettlesFailed, Settles, secrets, server
    <3>2. \A q \in Procs : tok'[q] \in {tok[q], old[p]}
      BY <2>2 DEF SettlesWithOld, SettlesFailed, Resume
    <3>3. QED
      BY <3>1, <3>2, TokensPassedOn DEF Unstored, Done
  <2>3. CASE SignInAccepted(p) \/ SignInLost(p)
    BY <2>3, TokensIssued
  <2>4. CASE SignInStored(p)
    BY <2>4, TokenIsStored
  <2>5. CASE SignInNoted(p) \/ SignInFailed(p)
    <3>1. UNCHANGED <<stored, issued, live, retiring, seen, tok, answer, old, new>>
      BY <2>5 DEF SignInNoted, SignInFailed, secrets, server, procvars
    <3>2. /\ step' = [step EXCEPT ![p] = "recording"]
          /\ step[p] = "storing" \/ answer[p] # "token"
      BY <2>5 DEF SignInNoted, SignInFailed
    <3>3. QED
      BY <3>1, <3>2, TokensFramed DEF Unstored, Done
  <2>6. CASE \/ SignInRefused(p) \/ SignInSent(p) \/ SignInRejected(p)
             \/ SignInRejectionLost(p) \/ SignInUnavailable(p)
    <3>1. UNCHANGED <<stored, issued, live, retiring, seen, tok, old, new>>
      BY <2>6 DEF SignInRefused, SignInSent, SignInRejected, SignInRejectionLost,
         SignInUnavailable, secrets, server, procvars
    <3>2. \A q \in Procs : \/ step'[q] = step[q] /\ answer'[q] = answer[q]
                           \/ step'[q] = "sent"
                           \/ answer'[q] # "token"
      BY <2>6 DEF SignInRefused, SignInSent, SignInRejected, SignInRejectionLost, SignInUnavailable
    <3>3. QED
      BY <3>1, <3>2, TokensFramed DEF Unstored, Done
  <2>7. QED
    BY <1>3, <2>1, <2>2, <2>3, <2>4, <2>5, <2>6 DEF SignInStep
<1>4. ASSUME NEW r \in Procs,
             RequestStep(r) \/ (r \in Requests /\ RequestBegins(r)) \/ RequestCancelled(r)
      PROVE  TokenInv'
  <2>1. CASE RequestBegins(r) \/ RequestBeginsAgain(r) \/ RequestRejected(r)
    <3>1. UNCHANGED <<stored, issued, live, retiring, tok, step, answer, old, new>>
      BY <2>1 DEF RequestBegins, RequestBeginsAgain, RequestRejected, secrets, server,
         signin
    <3>2. \A q \in Procs : seen'[q] \in {seen[q], stored}
      BY <2>1 DEF RequestBegins, RequestBeginsAgain, RequestRejected, Reads
    <3>3. QED
      BY <3>1, <3>2, TokensPassedOn DEF Unstored, Done
  <2>2. CASE \/ RequestServed(r) \/ RequestFails(r) \/ RequestRejectedAgain(r)
             \/ RequestCancelled(r) \/ RenewNotNeeded(r) \/ RenewJoins(r)
    <3>1. UNCHANGED <<stored, issued, live, retiring, seen, tok, step, answer, old, new>>
      BY <2>2 DEF RequestServed, RequestFails, RequestRejectedAgain, RequestCancelled,
         RenewNotNeeded, RenewJoins, secrets, server, signin
    <3>2. QED
      BY <3>1, TokensFramed DEF Unstored, Done
  <2>3. CASE RenewSignsIn(r)
    <3>1. /\ UNCHANGED <<issued, live, retiring, seen, tok, answer, new>>
          /\ stored' = NoToken /\ step' = [step EXCEPT ![r] = "deleting"]
      BY <2>3 DEF RenewSignsIn, server
    <3>2. \A q \in Procs : old'[q] = old[q] \/ (q = r /\ old'[q] \in {tok[q], NoToken})
      BY <2>3 DEF RenewSignsIn
    <3>3. \A q \in Procs : /\ Unstored(q)' => Unstored(q)
                           /\ Done(q)' => Done(q) /\ q # r
      BY <3>1 DEF Unstored, Done
    <3>4. QED
      BY <3>1, <3>2, <3>3, TokensPassedOn
  <2>4. CASE RenewCleared(r)
    <3>1. UNCHANGED <<stored, issued, live, retiring, seen, tok>>
      BY <2>4 DEF RenewCleared, secrets, server, procvars
    <3>2. /\ \A q \in Procs : old'[q] = old[q] /\ new'[q] \in {new[q], NoToken}
          /\ \A q \in Procs \ {r} : /\ step'[q] = step[q] /\ answer'[q] = answer[q]
                                    /\ new'[q] = new[q]
          /\ step'[r] = "password"
      BY <2>4 DEF RenewCleared, Starts
    <3>3. QED
      BY <3>1, <3>2, TokensPassedOn DEF Unstored, Done
  <2>5. QED
    BY <1>4, <2>1, <2>2, <2>3, <2>4 DEF RequestStep
<1>5. ASSUME NEW c \in Procs, ConnectStarts(c) \/ ConnectStep(c) PROVE TokenInv'
  <2>1. CASE ConnectStarts(c)
    <3>1. UNCHANGED <<stored, issued, live, retiring, seen, tok>>
      BY <2>1 DEF ConnectStarts, secrets, server
    <3>2. /\ \A q \in Procs \ {c} : /\ step'[q] = step[q] /\ answer'[q] = answer[q]
                                    /\ new'[q] = new[q] /\ old'[q] = old[q]
          /\ step'[c] = "password" /\ old'[c] = NoToken /\ new'[c] = NoToken
      BY <2>1 DEF ConnectStarts, Starts
    <3>3. QED
      BY <3>1, <3>2, TokensPassedOn DEF Unstored, Done
  <2>2. CASE ConnectStep(c)
    <3>1. /\ UNCHANGED <<stored, issued, live, retiring, seen, tok, answer, old, new>>
          /\ step' = [step EXCEPT ![c] = "idle"]
      BY <2>2 DEF ConnectStep, ConnectSucceeds, ConnectFails, ConnectBacksOff,
         ConnectSettles, secrets, server
    <3>2. QED
      BY <3>1, TokensFramed DEF Unstored, Done
  <2>3. QED
    BY <1>5, <2>1, <2>2
<1>6. ASSUME NEW d \in Procs,
             (d \in Disconnects /\ DisconnectBegins(d)) \/ DisconnectStep(d)
      PROVE  TokenInv'
  <2>1. /\ UNCHANGED <<issued, retiring, tok, step, answer, old, new>>
        /\ live' \subseteq live
    BY <1>6 DEF DisconnectBegins, DisconnectStep, DisconnectHasNothing, DisconnectEnsures,
       LogoutServed, LogoutFails, SignOutDeletes, SignOutDone, server, signin
  <2>2. stored' \in {stored, NoToken} /\ \A q \in Procs : seen'[q] \in {seen[q], stored}
    BY <1>6 DEF DisconnectBegins, DisconnectStep, DisconnectHasNothing, DisconnectEnsures,
       LogoutServed, LogoutFails, SignOutDeletes, SignOutDone, secrets, Reads
  <2>3. QED
    BY <2>1, <2>2, TokensPassedOn DEF Unstored, Done
<1>7. ASSUME Environment PROVE TokenInv'
  <2>1. CASE WindowReloads
    <3>1. /\ UNCHANGED <<stored, issued, live, seen, tok, old, new>> /\ retiring' = {}
          /\ step' = [p \in Procs |-> "idle"]
      BY <2>1 DEF WindowReloads, secrets
    <3>2. QED
      BY <3>1, TokensFramed DEF Unstored, Done
  <2>2. CASE ~WindowReloads
    <3>1. /\ UNCHANGED <<stored, issued, seen, tok, step, answer, old, new>>
          /\ live' \subseteq live /\ retiring' \subseteq retiring
      BY <1>7, <2>2 DEF Environment, RetireArrives, RetireLost, SessionEnds,
         PasswordChanges, ProfileSaved, TimePasses, server, secrets, procvars, signin
    <3>2. QED
      BY <3>1, TokensFramed DEF Unstored, Done
  <2>3. QED
    BY <2>1, <2>2
<1>8. CASE UNCHANGED vars
  BY <1>8, TokensFramed DEF vars, server, secrets, procvars, signin, Unstored, Done
<1>9. QED
  BY <1>2, <1>3, <1>4, <1>5, <1>6, <1>7, <1>8, NextCases

\* The background logout never closes the session requests are using, with any
\* number of Connects and Disconnects beside them: a token is stored only once,
\* by the sign-in that obtained it, so a replaced one does not come back.
THEOREM RetiredStaysRetired == Spec => []RetireSparesStored
<1>1. Init => TypeOK /\ TokenInv
  BY TypeInit, TokenInit
<1>2. TypeOK /\ TokenInv /\ [Next]_vars => (TypeOK /\ TokenInv)'
  BY TypeStep, TokenStep
<1>3. TokenInv => RetireSparesStored
  BY DEF TokenInv
<1>4. QED
  BY <1>1, <1>2, <1>3, PTL DEF Spec

-----------------------------------------------------------------------------
(***************************************************************************)
(* Requests alone: no session is forgotten.  The secret store returns its    *)
(* calls in order, so a process that read the stored token before a sign-in  *)
(* replaced it comes back while that sign-in is still registered.            *)
(***************************************************************************)
OnlyRequests == Connects = {} /\ Disconnects = {}

Places ==
    \A p \in Procs :
        /\ pc[p] \notin {"lookup", "answered", "signingOut"}
        /\ step[p] # "idle" => pc[p] \in Waiting \cup {"cancelled"}

Asking(p) == pc[p] \in {"ensure", "renew"}
Calling(p) == Asking(p) \/ step[p] \in {"deleting", "password", "storing"}

Queue ==
    /\ \A i, j \in 1..Len(calls) : i # j => calls[i] # calls[j]
    /\ \A i \in 1..Len(calls) : Calling(calls[i])
    /\ \A p \in Procs : Asking(p) => \E i \in 1..Len(calls) : calls[i] = p

\* Whoever read a token that is not the stored one any more comes back before
\* the call that changed it, made by a sign-in that is still under way.
Writing(p) == step[p] \in {"deleting", "storing"}
Overtaken(p) ==
    \E i, j \in 1..Len(calls) : i < j /\ calls[i] = p /\ Writing(calls[j])
Stale(p) == Asking(p) /\ seen[p] # stored
Ordered == \A p \in Procs : Stale(p) => Overtaken(p)

\* What is stored while a sign-in is under way: the token it replaces, nothing,
\* or the token it obtained.
Held ==
    \A p \in Procs :
        /\ step[p] = "storing" => answer[p] = "token"
        /\ Done(p) => stored = new[p]
        /\ step[p] # "idle" /\ ~Done(p) =>
              /\ stored \in {NoToken, old[p]}
              /\ mode[p] = "proactive" => stored = old[p]

Kept(t) ==
    \/ t \in {stored} \cup retiring \cup writtenOff
    \/ \E q \in Procs : step[q] # "idle" /\ t = old[q]
    \/ \E q \in Procs : Unstored(q) /\ t = new[q]
LiveKept == \A t \in live : Kept(t)

OrphanInv ==
    /\ TypeOK /\ ConnectsApart /\ OneAutomaticSignIn /\ TokenInv
    /\ Places /\ Queue /\ Ordered /\ Held /\ LiveKept

LEMMA OrphanInit == Init => Places /\ Queue /\ Ordered /\ Held /\ LiveKept
<1> SUFFICES ASSUME Init PROVE Places /\ Queue /\ Ordered /\ Held /\ LiveKept
  OBVIOUS
<1> USE DEF Init
<1>1. Places
  BY DEF Places
<1>2. Queue
  BY DEF Queue, Asking
<1>3. Ordered
  BY DEF Ordered, Stale, Asking
<1>4. Held
  BY DEF Held, Done
<1>5. LiveKept
  BY DEF LiveKept, Kept
<1>6. QED
  BY <1>1, <1>2, <1>3, <1>4, <1>5

\* All sign-ins are automatic, so at most one is under way.
LEMMA Alone ==
    ASSUME OnlyRequests, ConnectsApart, OneAutomaticSignIn
    PROVE  /\ \A p \in Procs : Automatic(p)
           /\ \A p \in Procs : step[p] # "idle" <=> inFlight = p
           /\ \A p, q \in Procs : step[p] # "idle" /\ step[q] # "idle" => p = q
  BY DEF OnlyRequests, ConnectsApart, OneAutomaticSignIn, Automatic

LEMMA OnlyRequestsNext ==
    ASSUME OnlyRequests, ConnectsApart, Places, Next
    PROVE  \/ Environment
           \/ \E p \in Procs : \/ EnsureStep(p) \/ SignInStep(p) \/ RequestStep(p)
                               \/ RequestBegins(p) \/ RequestCancelled(p)
<1>1. \A p \in Procs : ~ConnectStarts(p)
  BY DEF OnlyRequests, ConnectStarts
<1>2. \A p \in Procs : ~ConnectStep(p)
  BY DEF OnlyRequests, ConnectsApart, ConnectStep, ConnectSucceeds, ConnectFails,
     ConnectBacksOff, ConnectSettles
<1>3. \A p \in Procs : ~DisconnectStep(p)
  BY DEF OnlyRequests, Places, DisconnectStep, DisconnectHasNothing, DisconnectEnsures,
     LogoutServed, LogoutFails, SignOutDeletes, SignOutDone
<1>4. QED
  BY <1>1, <1>2, <1>3, NextCases DEF OnlyRequests

-----------------------------------------------------------------------------
LEMMA PlacesStep ==
    OnlyRequests /\ OrphanInv /\ [Next]_vars => Places'
<1> SUFFICES ASSUME OnlyRequests, OrphanInv, [Next]_vars PROVE Places'
  OBVIOUS
<1>1. pc \in [Procs -> Steps] /\ step \in [Procs -> LoginSteps]
  BY DEF OrphanInv, TypeOK, ProcType, SignInType
<1>2. Places /\ \A p, q \in Procs : step[p] # "idle" /\ step[q] # "idle" => p = q
  BY Alone DEF OrphanInv
<1> USE <1>1, <1>2 DEF Waiting
<1>3. ASSUME NEW p \in Procs, EnsureStep(p) PROVE Places'
  BY <1>3 DEF EnsureStep, EnsureReuses, EnsureJoins, EnsureSignsIn, Starts, signin, Places
<1>4. ASSUME NEW p \in Procs, SignInStep(p) PROVE Places'
  <2>1. CASE SettlesSignedIn(p) \/ SettlesWithOld(p) \/ SettlesFailed(p)
    <3>1. \A q \in Procs : step'[q] = "idle"
      BY <2>1 DEF SettlesSignedIn, SettlesWithOld, SettlesFailed, Settles
    <3>2. \A q \in Procs : pc'[q] \in {pc[q], "sent", "again", "failed"}
      BY <2>1 DEF SettlesSignedIn, SettlesWithOld, SettlesFailed, Resume, OnlyRequests
    <3>3. QED
      BY <3>1, <3>2 DEF Places
  <2>2. CASE ~(SettlesSignedIn(p) \/ SettlesWithOld(p) \/ SettlesFailed(p))
    <3>1. UNCHANGED pc /\ step[p] # "idle"
      BY <1>4, <2>2 DEF SignInStep, SignInRefused, SignInSent, SignInAccepted, SignInLost,
         SignInRejected, SignInRejectionLost, SignInUnavailable, SignInStored, SignInNoted, SignInFailed, procvars
    <3>2. \A q \in Procs \ {p} : step'[q] = step[q]
      BY <1>4, <2>2 DEF SignInStep, SignInRefused, SignInSent, SignInAccepted, SignInLost,
         SignInRejected, SignInRejectionLost, SignInUnavailable, SignInStored, SignInNoted, SignInFailed
    <3>3. QED
      BY <3>1, <3>2 DEF Places
  <2>3. QED
    BY <2>1, <2>2
<1>5. ASSUME NEW r \in Procs, RequestStep(r) \/ RequestBegins(r) \/ RequestCancelled(r)
      PROVE  Places'
  <2>1. CASE RenewSignsIn(r) \/ RenewCleared(r)
    BY <2>1 DEF RenewSignsIn, RenewCleared, Starts, procvars, Places
  <2>2. CASE ~(RenewSignsIn(r) \/ RenewCleared(r))
    <3>1. UNCHANGED step
      BY <1>5, <2>2 DEF RequestStep, RequestBegins, RequestBeginsAgain, RequestCancelled,
         RequestServed, RequestFails, RequestRejected, RequestRejectedAgain, RenewNotNeeded,
         RenewJoins, signin
    <3>2. \/ pc' = [pc EXCEPT ![r] = "cancelled"]
          \/ /\ pc[r] \notin Waiting \cup {"cancelled"}
             /\ \E c \in {"ensure", "ok", "failed", "renew", "again", "awaitRenew"} :
                    pc' = [pc EXCEPT ![r] = c]
      BY <1>5, <2>2 DEF RequestStep, RequestBegins, RequestBeginsAgain, RequestCancelled,
         RequestServed, RequestFails, RequestRejected, RequestRejectedAgain, RenewNotNeeded,
         RenewJoins, Reads
    <3>3. QED
      BY <3>1, <3>2 DEF Places
  <2>3. QED
    BY <2>1, <2>2
<1>6. ASSUME Environment PROVE Places'
  <2>1. CASE WindowReloads
    <3>1. \A q \in Procs : step'[q] = "idle" /\ pc'[q] \in {pc[q], "failed"}
      BY <2>1 DEF WindowReloads
    <3>2. QED
      BY <3>1 DEF Places
  <2>2. CASE ~WindowReloads
    BY <1>6, <2>2 DEF Environment, RetireArrives, RetireLost, SessionEnds,
       PasswordChanges, ProfileSaved, TimePasses, procvars, signin, Places
  <2>3. QED
    BY <2>1, <2>2
<1>7. CASE UNCHANGED vars
  BY <1>7 DEF vars, procvars, signin, Places
<1>8. QED
  BY <1>3, <1>4, <1>5, <1>6, <1>7, OnlyRequestsNext DEF OrphanInv

-----------------------------------------------------------------------------
(***************************************************************************)
(* The calls to the secret store: each process has at most one under way.   *)
(***************************************************************************)
LEMMA CallsAppended ==
    ASSUME StoreType, NEW p \in Procs, Calls(p)
    PROVE  /\ Len(calls) \in Nat /\ Len(calls') = Len(calls) + 1
           /\ \A i \in 1..Len(calls) : calls'[i] = calls[i] /\ calls[i] \in Procs
           /\ calls'[Len(calls) + 1] = p
<1>1. calls \in Seq(Procs)
  BY DEF StoreType
<1>2. QED
  BY <1>1, AppendProperties, LenProperties, ElementOfSeq DEF Calls

LEMMA CallsTail ==
    ASSUME StoreType, NEW p \in Procs, Returns(p)
    PROVE  /\ Len(calls) \in Nat \ {0} /\ calls[1] = p /\ Len(calls') = Len(calls) - 1
           /\ \A i \in 1..Len(calls) : calls[i] \in Procs
           /\ \A i \in 1..(Len(calls) - 1) : calls'[i] = calls[i + 1]
<1>1. calls \in Seq(Procs) /\ calls # <<>> /\ Head(calls) = p /\ calls' = Tail(calls)
  BY DEF StoreType, Returns
<1>2. Len(calls) \in Nat \ {0}
  BY <1>1, EmptySeq, LenProperties
<1>3. calls[1] = p
  BY <1>1, HeadTailProperties
<1>4. QED
  BY <1>1, <1>2, <1>3, HeadTailProperties, ElementOfSeq

LEMMA CallsTailAppended ==
    ASSUME StoreType, NEW p \in Procs, ReturnsAndCalls(p)
    PROVE  /\ Len(calls) \in Nat \ {0} /\ calls[1] = p /\ Len(calls') = Len(calls)
           /\ \A i \in 1..Len(calls) : calls[i] \in Procs
           /\ \A i \in 1..(Len(calls) - 1) : calls'[i] = calls[i + 1]
           /\ calls'[Len(calls)] = p
<1>1. /\ calls \in Seq(Procs) /\ calls # <<>> /\ Head(calls) = p
      /\ calls' = Append(Tail(calls), p)
  BY DEF StoreType, ReturnsAndCalls
<1>2. Len(calls) \in Nat \ {0}
  BY <1>1, EmptySeq, LenProperties
<1>3. /\ Tail(calls) \in Seq(Procs) /\ Len(Tail(calls)) = Len(calls) - 1
      /\ \A i \in 1..(Len(calls) - 1) : Tail(calls)[i] = calls[i + 1]
  BY <1>1, HeadTailProperties
<1>4. calls[1] = p
  BY <1>1, HeadTailProperties
<1>5. /\ Len(calls') = Len(Tail(calls)) + 1
      /\ \A i \in 1..Len(Tail(calls)) : calls'[i] = Tail(calls)[i]
      /\ calls'[Len(Tail(calls)) + 1] = p
  BY <1>1, <1>3, AppendProperties
<1>6. \A i \in 1..Len(calls) : calls[i] \in Procs
  BY <1>1, ElementOfSeq
<1>7. QED
  BY <1>2, <1>3, <1>4, <1>5, <1>6

LEMMA QueueFramed ==
    ASSUME StoreType, Queue, UNCHANGED calls,
           \A q \in Procs : /\ Calling(q) => Calling(q)'
                            /\ Asking(q)' => Asking(q)
    PROVE  Queue'
<1>1. calls \in Seq(Procs)
  BY DEF StoreType
<1>2. \A i \in 1..Len(calls) : calls[i] \in Procs
  BY <1>1, ElementOfSeq
<1>3. QED
  BY <1>2 DEF Queue

LEMMA QueueCalls ==
    ASSUME StoreType, Queue, NEW p \in Procs, Calls(p), ~Calling(p), Calling(p)',
           \A q \in Procs \ {p} : /\ Calling(q) => Calling(q)'
                                  /\ Asking(q)' => Asking(q)
    PROVE  Queue'
<1> DEFINE n == Len(calls)
<1>1. /\ n \in Nat /\ Len(calls') = n + 1
      /\ \A i \in 1..n : calls'[i] = calls[i] /\ calls[i] \in Procs
      /\ calls'[n + 1] = p
  BY CallsAppended
<1>2. \A i \in 1..n : calls[i] # p
  BY DEF Queue
<1>3. \A i \in 1..(n + 1) : i \in 1..n \/ i = n + 1
  BY <1>1
<1>4. \A i, j \in 1..(n + 1) : i # j => calls'[i] # calls'[j]
  BY <1>1, <1>2, <1>3 DEF Queue
<1>5. \A i \in 1..(n + 1) : Calling(calls[i])'
  BY <1>1, <1>2, <1>3 DEF Queue
<1>6. ASSUME NEW q \in Procs, Asking(q)' PROVE \E i \in 1..(n + 1) : calls'[i] = q
  <2>1. CASE q = p
    BY <1>1, <2>1
  <2>2. CASE q # p
    <3>1. PICK i \in 1..n : calls[i] = q
      BY <1>6, <2>2 DEF Queue
    <3>2. i \in 1..(n + 1) /\ calls'[i] = q
      BY <1>1, <3>1
    <3>3. QED
      BY <3>2
  <2>3. QED
    BY <2>1, <2>2
<1>7. QED
  BY <1>1, <1>4, <1>5, <1>6 DEF Queue

LEMMA QueueReturns ==
    ASSUME StoreType, Queue, NEW p \in Procs, Returns(p), ~Asking(p)',
           \A q \in Procs \ {p} : /\ Calling(q) => Calling(q)'
                                  /\ Asking(q)' => Asking(q)
    PROVE  Queue'
<1> DEFINE n == Len(calls)
<1>1. /\ n \in Nat \ {0} /\ calls[1] = p /\ Len(calls') = n - 1
      /\ \A i \in 1..n : calls[i] \in Procs
      /\ \A i \in 1..(n - 1) : calls'[i] = calls[i + 1]
  BY CallsTail
<1> HIDE DEF n
<1>2. \A i, j \in 1..n : i # j => calls[i] # calls[j]
  BY DEF Queue, n
<1>3. \A i \in 1..(n - 1) : i + 1 \in 1..n /\ i + 1 # 1 /\ 1 \in 1..n
  BY <1>1
<1>4. \A i \in 1..(n - 1) : calls'[i] # p
  BY <1>1, <1>2, <1>3
<1>5. \A i, j \in 1..(n - 1) : i # j => calls'[i] # calls'[j]
  <2> TAKE i, j \in 1..(n - 1)
  <2>1. i # j => i + 1 # j + 1
    BY <1>1
  <2>2. QED
    BY <1>1, <1>2, <1>3, <2>1
<1>6. \A i \in 1..(n - 1) : Calling(calls[i])'
  <2>1. \A i \in 1..n : Calling(calls[i])
    BY DEF Queue, n
  <2>2. QED
    BY <1>1, <1>3, <1>4, <2>1
<1>7. ASSUME NEW q \in Procs, Asking(q)' PROVE \E i \in 1..(n - 1) : calls'[i] = q
  <2>1. q # p
    BY <1>7
  <2>2. PICK i \in 1..n : calls[i] = q
    BY <1>7, <2>1 DEF Queue, n
  <2>3. i - 1 \in 1..(n - 1) /\ calls'[i - 1] = calls[i]
    BY <1>1, <2>1, <2>2
  <2>4. QED
    BY <2>2, <2>3
<1>8. QED
  BY <1>1, <1>5, <1>6, <1>7 DEF Queue, n

LEMMA QueueReturnsAndCalls ==
    ASSUME StoreType, Queue, NEW p \in Procs, ReturnsAndCalls(p), Calling(p)',
           \A q \in Procs \ {p} : /\ Calling(q) => Calling(q)'
                                  /\ Asking(q)' => Asking(q)
    PROVE  Queue'
<1> DEFINE n == Len(calls)
<1>1. /\ n \in Nat \ {0} /\ calls[1] = p /\ Len(calls') = n
      /\ \A i \in 1..n : calls[i] \in Procs
      /\ \A i \in 1..(n - 1) : calls'[i] = calls[i + 1]
      /\ calls'[n] = p
  BY CallsTailAppended
<1> HIDE DEF n
<1>2. \A i, j \in 1..n : i # j => calls[i] # calls[j]
  BY DEF Queue, n
<1>3. \A i \in 1..(n - 1) : i + 1 \in 1..n /\ i + 1 # 1 /\ 1 \in 1..n
  BY <1>1
<1>4. \A i \in 1..(n - 1) : calls'[i] # p
  BY <1>1, <1>2, <1>3
<1>5. \A i \in 1..n : i \in 1..(n - 1) \/ i = n
  BY <1>1
<1>6. \A i, j \in 1..n : i # j => calls'[i] # calls'[j]
  <2> TAKE i, j \in 1..n
  <2>1. i # j => i + 1 # j + 1
    BY <1>1
  <2>2. CASE i \in 1..(n - 1) /\ j \in 1..(n - 1)
    BY <1>1, <1>2, <1>3, <2>1, <2>2
  <2>3. CASE i = n \/ j = n
    BY <1>1, <1>4, <1>5, <2>3
  <2>4. QED
    BY <1>5, <2>2, <2>3
<1>7. \A i \in 1..n : Calling(calls[i])'
  <2>1. \A i \in 1..n : Calling(calls[i])
    BY DEF Queue, n
  <2>2. QED
    BY <1>1, <1>3, <1>4, <1>5, <2>1
<1>8. ASSUME NEW q \in Procs, Asking(q)' PROVE \E i \in 1..n : calls'[i] = q
  <2>1. CASE q = p
    BY <1>1, <2>1
  <2>2. CASE q # p
    <3>1. PICK i \in 1..n : calls[i] = q
      BY <1>8, <2>2 DEF Queue, n
    <3>2. i - 1 \in 1..(n - 1) /\ i - 1 \in 1..n /\ calls'[i - 1] = calls[i]
      BY <1>1, <2>2, <3>1
    <3>3. QED
      BY <3>1, <3>2
  <2>3. QED
    BY <2>1, <2>2
<1>9. QED
  BY <1>1, <1>6, <1>7, <1>8 DEF Queue, n

LEMMA QueueStep ==
    OnlyRequests /\ OrphanInv /\ [Next]_vars => Queue'
<1> SUFFICES ASSUME OnlyRequests, OrphanInv, [Next]_vars PROVE Queue'
  OBVIOUS
<1>1. /\ pc \in [Procs -> Steps] /\ step \in [Procs -> LoginSteps]
      /\ StoreType /\ Queue /\ Places
  BY DEF OrphanInv, TypeOK, ProcType, SignInType
<1>2. \A p \in Procs : step[p] # "idle" => ~Asking(p)
  BY <1>1 DEF Places, Asking, Waiting
<1> USE <1>1, <1>2
<1>3. ASSUME NEW p \in Procs, EnsureStep(p) PROVE Queue'
  <2>1. CASE EnsureReuses(p) \/ EnsureJoins(p)
    <3>1. /\ Returns(p) /\ UNCHANGED step
          /\ pc' = [pc EXCEPT ![p] = "sent"] \/ pc' = [pc EXCEPT ![p] = "await"]
      BY <2>1 DEF EnsureReuses, EnsureJoins, signin
    <3>2. QED
      BY <3>1, QueueReturns DEF Calling, Asking
  <2>2. CASE EnsureSignsIn(p)
    <3>1. /\ ReturnsAndCalls(p) /\ pc' = [pc EXCEPT ![p] = "await"]
          /\ step' = [step EXCEPT ![p] = "password"]
      BY <2>2 DEF EnsureSignsIn, Starts
    <3>2. QED
      BY <3>1, QueueReturnsAndCalls DEF Calling, Asking
  <2>3. QED
    BY <1>3, <2>1, <2>2 DEF EnsureStep
<1>4. ASSUME NEW p \in Procs, SignInStep(p) PROVE Queue'
  <2>1. CASE SettlesSignedIn(p) \/ SettlesWithOld(p) \/ SettlesFailed(p)
    <3>1. /\ UNCHANGED calls /\ step[p] = "recording"
          /\ step' = [step EXCEPT ![p] = "idle"]
      BY <2>1 DEF SettlesSignedIn, SettlesWithOld, SettlesFailed, Settles
    <3>2. \A q \in Procs : \/ pc'[q] = pc[q]
                           \/ ~Asking(q) /\ pc'[q] \in {"sent", "again", "failed"}
      BY <2>1 DEF SettlesSignedIn, SettlesWithOld, SettlesFailed, Resume, OnlyRequests,
         Asking, Waiting
    <3>3. QED
      BY <3>1, <3>2, QueueFramed DEF Calling, Asking
  <2>2. CASE SignInRefused(p) \/ SignInSent(p) \/ SignInNoted(p)
    <3>1. /\ Returns(p) /\ UNCHANGED pc /\ step[p] # "idle"
          /\ \A q \in Procs \ {p} : step'[q] = step[q]
      BY <2>2 DEF SignInRefused, SignInSent, SignInNoted, procvars
    <3>2. QED
      BY <3>1, QueueReturns DEF Calling, Asking
  <2>3. CASE SignInStored(p)
    <3>1. /\ Calls(p) /\ UNCHANGED pc /\ step[p] = "answered"
          /\ step' = [step EXCEPT ![p] = "storing"]
      BY <2>3 DEF SignInStored, procvars
    <3>2. QED
      BY <3>1, QueueCalls DEF Calling, Asking
  <2>4. CASE \/ SignInAccepted(p) \/ SignInLost(p) \/ SignInRejected(p) \/ SignInRejectionLost(p)
             \/ SignInUnavailable(p) \/ SignInFailed(p)
    <3>1. /\ UNCHANGED <<calls, pc>> /\ step[p] \in {"sent", "answered"}
          /\ \A q \in Procs \ {p} : step'[q] = step[q]
      BY <2>4 DEF SignInAccepted, SignInLost, SignInRejected, SignInRejectionLost, SignInUnavailable,
         SignInFailed, procvars
    <3>2. QED
      BY <3>1, QueueFramed DEF Calling, Asking
  <2>5. QED
    BY <1>4, <2>1, <2>2, <2>3, <2>4 DEF SignInStep
<1>5. ASSUME NEW r \in Procs, RequestStep(r) \/ RequestBegins(r) \/ RequestCancelled(r)
      PROVE  Queue'
  <2>1. CASE RequestBegins(r) \/ RequestBeginsAgain(r) \/ RequestRejected(r)
    <3>1. /\ Calls(r) /\ UNCHANGED step /\ pc[r] \in {"idle", "again", "sent"}
          /\ \/ pc' = [pc EXCEPT ![r] = "ensure"]
             \/ pc' = [pc EXCEPT ![r] = "renew"]
      BY <2>1 DEF RequestBegins, RequestBeginsAgain, RequestRejected, Reads, signin
    <3>2. step[r] = "idle"
      BY <3>1 DEF Places, Waiting
    <3>3. QED
      BY <3>1, <3>2, QueueCalls DEF Calling, Asking
  <2>2. CASE \/ RequestServed(r) \/ RequestFails(r) \/ RequestRejectedAgain(r)
             \/ RequestCancelled(r)
    <3>1. /\ UNCHANGED <<calls, step>> /\ pc[r] \in Waiting \cup {"sent"}
          /\ \E c \in Finished : pc' = [pc EXCEPT ![r] = c]
      BY <2>2 DEF RequestServed, RequestFails, RequestRejectedAgain, RequestCancelled,
         signin, Finished
    <3>2. QED
      BY <3>1, QueueFramed DEF Calling, Asking, Waiting, Finished
  <2>3. CASE RenewNotNeeded(r) \/ RenewJoins(r)
    <3>1. /\ Returns(r) /\ UNCHANGED step
          /\ \/ pc' = [pc EXCEPT ![r] = "again"]
             \/ pc' = [pc EXCEPT ![r] = "awaitRenew"]
      BY <2>3 DEF RenewNotNeeded, RenewJoins, signin
    <3>2. QED
      BY <3>1, QueueReturns DEF Calling, Asking
  <2>4. CASE RenewSignsIn(r)
    <3>1. /\ ReturnsAndCalls(r) /\ pc' = [pc EXCEPT ![r] = "awaitRenew"]
          /\ step' = [step EXCEPT ![r] = "deleting"]
      BY <2>4 DEF RenewSignsIn
    <3>2. QED
      BY <3>1, QueueReturnsAndCalls DEF Calling, Asking
  <2>5. CASE RenewCleared(r)
    <3>1. /\ ReturnsAndCalls(r) /\ UNCHANGED pc /\ step' = [step EXCEPT ![r] = "password"]
      BY <2>5 DEF RenewCleared, Starts, procvars
    <3>2. QED
      BY <3>1, QueueReturnsAndCalls DEF Calling, Asking
  <2>6. QED
    BY <1>5, <2>1, <2>2, <2>3, <2>4, <2>5 DEF RequestStep
<1>6. ASSUME Environment PROVE Queue'
  <2>1. CASE WindowReloads
    <3>1. calls' = <<>> /\ \A q \in Procs : pc'[q] \in {"idle", pc[q], "failed"}
                                            /\ (Asking(q) => pc'[q] = "failed")
      BY <2>1 DEF WindowReloads, Asking, Finished
    <3>2. QED
      BY <3>1 DEF Queue, Asking
  <2>2. CASE ~WindowReloads
    BY <1>6, <2>2, QueueFramed DEF Environment, RetireArrives, RetireLost, SessionEnds,
       PasswordChanges, ProfileSaved, TimePasses, procvars, signin, Calling, Asking
  <2>3. QED
    BY <2>1, <2>2
<1>7. CASE UNCHANGED vars
  BY <1>7, QueueFramed DEF vars, procvars, signin, Calling, Asking
<1>8. QED
  BY <1>3, <1>4, <1>5, <1>6, <1>7, OnlyRequestsNext DEF OrphanInv

-----------------------------------------------------------------------------
(***************************************************************************)
(* Reads of the stored token and the calls that change it, in order.        *)
(***************************************************************************)
LEMMA OrderFramed ==
    ASSUME StoreType, Ordered, UNCHANGED calls,
           \A q \in Procs : /\ Stale(q)' => Stale(q)
                            /\ Writing(q) => Writing(q)'
    PROVE  Ordered'
<1>1. \A i \in 1..Len(calls) : calls[i] \in Procs
  BY ElementOfSeq DEF StoreType
<1>2. QED
  BY <1>1 DEF Ordered, Overtaken

LEMMA OrderCalls ==
    ASSUME StoreType, Ordered, NEW p \in Procs, Calls(p),
           \A q \in Procs : /\ Stale(q)' => Stale(q)
                            /\ Writing(q) => Writing(q)'
    PROVE  Ordered'
<1> DEFINE n == Len(calls)
<1>1. /\ n \in Nat /\ Len(calls') = n + 1
      /\ \A i \in 1..n : calls'[i] = calls[i] /\ calls[i] \in Procs
  BY CallsAppended
<1>2. \A i \in 1..n : i \in 1..(n + 1)
  BY <1>1
<1>3. ASSUME NEW q \in Procs, Overtaken(q) PROVE Overtaken(q)'
  <2>1. PICK i, j \in 1..n : i < j /\ calls[i] = q /\ Writing(calls[j])
    BY <1>3 DEF Overtaken
  <2>2. i \in 1..Len(calls') /\ j \in 1..Len(calls')
    BY <1>1, <1>2
  <2>3. calls'[i] = q /\ calls'[j] = calls[j] /\ Writing(calls[j])'
    BY <1>1, <2>1
  <2>4. QED
    BY <2>1, <2>2, <2>3 DEF Overtaken
<1>4. QED
  BY <1>3 DEF Ordered

\* The oldest call returns to a process that asks no more and was not writing.
LEMMA OrderReturns ==
    ASSUME StoreType, Ordered, NEW p \in Procs, Returns(p), ~Asking(p)',
           \A q \in Procs \ {p} : Stale(q)' => Stale(q),
           \A q \in Procs : Writing(q) => Writing(q)'
    PROVE  Ordered'
<1> DEFINE n == Len(calls)
<1>1. /\ n \in Nat \ {0} /\ calls[1] = p /\ Len(calls') = n - 1
      /\ \A i \in 1..n : calls[i] \in Procs
      /\ \A i \in 1..(n - 1) : calls'[i] = calls[i + 1]
  BY CallsTail
<1>2. ASSUME NEW q \in Procs, Stale(q)' PROVE Overtaken(q)'
  <2>1. q # p /\ Stale(q)
    BY <1>2 DEF Stale
  <2>2. PICK i, j \in 1..n : i < j /\ calls[i] = q /\ Writing(calls[j])
    BY <2>1 DEF Ordered, Overtaken
  <2>3. i # 1
    BY <1>1, <2>1, <2>2
  <2>4. i - 1 \in 1..(n - 1) /\ j - 1 \in 1..(n - 1) /\ i - 1 < j - 1
    BY <1>1, <2>2, <2>3
  <2>5. calls'[i - 1] = q /\ calls'[j - 1] = calls[j]
    BY <1>1, <2>2, <2>4
  <2>6. Writing(calls[j - 1])' /\ Len(calls') = n - 1
    BY <1>1, <2>2, <2>5
  <2>7. QED
    BY <2>4, <2>5, <2>6 DEF Overtaken
<1>3. QED
  BY <1>2 DEF Ordered

\* The call that changes the stored token is queued behind every read of it.
LEMMA OrderWrites ==
    ASSUME StoreType, Queue, NEW p \in Procs, Calls(p), ~Asking(p)', Writing(p)',
           \A q \in Procs \ {p} : Asking(q)' => Asking(q)
    PROVE  Ordered'
<1> DEFINE n == Len(calls)
<1>1. /\ n \in Nat /\ Len(calls') = n + 1
      /\ \A i \in 1..n : calls'[i] = calls[i] /\ calls[i] \in Procs
      /\ calls'[n + 1] = p
  BY CallsAppended
<1>2. ASSUME NEW q \in Procs, Stale(q)' PROVE Overtaken(q)'
  <2>1. q # p /\ Asking(q)
    BY <1>2 DEF Stale
  <2>2. PICK i \in 1..n : calls[i] = q
    BY <2>1 DEF Queue
  <2>3. i \in 1..Len(calls') /\ n + 1 \in 1..Len(calls') /\ i < n + 1
    BY <1>1
  <2>4. calls'[i] = q /\ calls'[n + 1] = p
    BY <1>1, <2>2
  <2>5. QED
    BY <2>3, <2>4 DEF Overtaken
<1>3. QED
  BY <1>2 DEF Ordered

LEMMA OrderReturnsAndWrites ==
    ASSUME StoreType, Queue, NEW p \in Procs, ReturnsAndCalls(p), ~Asking(p)', Writing(p)',
           \A q \in Procs \ {p} : Asking(q)' => Asking(q)
    PROVE  Ordered'
<1> DEFINE n == Len(calls)
<1>1. /\ n \in Nat \ {0} /\ calls[1] = p /\ Len(calls') = n
      /\ \A i \in 1..n : calls[i] \in Procs
      /\ \A i \in 1..(n - 1) : calls'[i] = calls[i + 1]
      /\ calls'[n] = p
  BY CallsTailAppended
<1>2. ASSUME NEW q \in Procs, Stale(q)' PROVE Overtaken(q)'
  <2>1. q # p /\ Asking(q)
    BY <1>2 DEF Stale
  <2>2. PICK i \in 1..n : calls[i] = q
    BY <2>1 DEF Queue
  <2>3. i - 1 \in 1..(n - 1)
    BY <1>1, <2>1, <2>2
  <2>4. i - 1 \in 1..Len(calls') /\ n \in 1..Len(calls') /\ i - 1 < n
    BY <1>1, <2>3
  <2>5. calls'[i - 1] = q /\ calls'[n] = p
    BY <1>1, <2>2, <2>3
  <2>6. QED
    BY <2>4, <2>5 DEF Overtaken
<1>3. QED
  BY <1>2 DEF Ordered

\* When the only sign-in is not writing, or its call is the oldest, all reads are
\* up to date.
LEMMA NobodyStale ==
    ASSUME OnlyRequests, OrphanInv, NEW p \in Procs,
           \A q \in Procs \ {p} : ~Writing(q),
           ~Writing(p) \/ Returns(p) \/ ReturnsAndCalls(p)
    PROVE  \A q \in Procs : ~Stale(q)
<1> SUFFICES ASSUME NEW q \in Procs, Overtaken(q) PROVE FALSE
  BY DEF OrphanInv, Ordered
<1>1. StoreType /\ Queue
  BY DEF OrphanInv, TypeOK
<1>2. \A i \in 1..Len(calls) : calls[i] \in Procs
  BY <1>1, ElementOfSeq DEF StoreType
<1>3. PICK i, j \in 1..Len(calls) : i < j /\ calls[i] = q /\ Writing(calls[j])
  BY DEF Overtaken
<1>4. calls[j] = p /\ Writing(p)
  BY <1>2, <1>3
<1>5. Len(calls) \in Nat \ {0} /\ calls[1] = p
  BY <1>1, <1>4, CallsTail, CallsTailAppended
<1>6. 1 \in 1..Len(calls) /\ j # 1
  BY <1>3, <1>5
<1>7. QED
  BY <1>1, <1>4, <1>5, <1>6 DEF Queue

LEMMA OrderStep ==
    OnlyRequests /\ OrphanInv /\ [Next]_vars => Ordered'
<1> SUFFICES ASSUME OnlyRequests, OrphanInv, [Next]_vars PROVE Ordered'
  OBVIOUS
<1>1. /\ pc \in [Procs -> Steps] /\ step \in [Procs -> LoginSteps]
      /\ seen \in [Procs -> Nat]
      /\ StoreType /\ Queue /\ Places /\ Ordered
  BY DEF OrphanInv, TypeOK, ProcType, SignInType
<1>2. \A p \in Procs : step[p] # "idle" => ~Asking(p)
  BY <1>1 DEF Places, Asking, Waiting
<1>3. /\ \A p, q \in Procs : step[p] # "idle" /\ step[q] # "idle" => p = q
      /\ inFlight = None => \A p \in Procs : step[p] = "idle"
  BY Alone, ProcsAssumption DEF OrphanInv
<1> USE <1>1, <1>2
<1>4. ASSUME NEW p \in Procs, EnsureStep(p) PROVE Ordered'
  <2>1. CASE EnsureReuses(p) \/ EnsureJoins(p)
    <3>1. /\ Returns(p) /\ UNCHANGED <<step, seen, stored>>
          /\ pc' = [pc EXCEPT ![p] = "sent"] \/ pc' = [pc EXCEPT ![p] = "await"]
      BY <2>1 DEF EnsureReuses, EnsureJoins, signin, secrets
    <3>2. QED
      BY <3>1, OrderReturns DEF Stale, Asking, Writing
  <2>2. CASE EnsureSignsIn(p)
    <3>1. \A q \in Procs : ~Writing(q)
      BY <2>2, <1>3 DEF EnsureSignsIn, Writing
    <3>2. \A q \in Procs : ~Stale(q)
      BY <3>1, NobodyStale
    <3>3. pc' = [pc EXCEPT ![p] = "await"] /\ UNCHANGED <<seen, stored>>
      BY <2>2 DEF EnsureSignsIn, secrets
    <3>4. QED
      BY <3>2, <3>3 DEF Ordered, Stale, Asking
  <2>3. QED
    BY <1>4, <2>1, <2>2 DEF EnsureStep
<1>5. ASSUME NEW p \in Procs, SignInStep(p) PROVE Ordered'
  <2>1. CASE SettlesSignedIn(p) \/ SettlesWithOld(p) \/ SettlesFailed(p)
    <3>1. /\ UNCHANGED <<calls, seen, stored>> /\ step[p] = "recording"
          /\ step' = [step EXCEPT ![p] = "idle"]
      BY <2>1 DEF SettlesSignedIn, SettlesWithOld, SettlesFailed, Settles, secrets
    <3>2. \A q \in Procs : pc'[q] \in {pc[q], "sent", "again", "failed"}
      BY <2>1 DEF SettlesSignedIn, SettlesWithOld, SettlesFailed, Resume, OnlyRequests
    <3>3. QED
      BY <3>1, <3>2, OrderFramed DEF Stale, Asking, Writing
  <2>2. CASE SignInRefused(p) \/ SignInSent(p)
    <3>1. /\ Returns(p) /\ UNCHANGED <<pc, seen, stored>> /\ step[p] = "password"
          /\ \A q \in Procs \ {p} : step'[q] = step[q]
      BY <2>2 DEF SignInRefused, SignInSent, procvars, secrets
    <3>2. QED
      BY <3>1, OrderReturns DEF Stale, Asking, Writing
  <2>3. CASE SignInNoted(p)
    <3>1. /\ Returns(p) /\ UNCHANGED <<pc, seen, stored>> /\ step[p] = "storing"
      BY <2>3 DEF SignInNoted, procvars, secrets
    <3>2. \A q \in Procs \ {p} : ~Writing(q)
      BY <3>1, <1>3 DEF Writing
    <3>3. \A q \in Procs : ~Stale(q)
      BY <3>1, <3>2, NobodyStale
    <3>4. QED
      BY <3>1, <3>3 DEF Ordered, Stale, Asking
  <2>4. CASE SignInStored(p)
    <3>1. /\ Calls(p) /\ UNCHANGED pc /\ step[p] # "idle"
          /\ step' = [step EXCEPT ![p] = "storing"]
      BY <2>4 DEF SignInStored, procvars
    <3>2. QED
      BY <3>1, OrderWrites DEF Asking, Writing
  <2>5. CASE \/ SignInAccepted(p) \/ SignInLost(p) \/ SignInRejected(p) \/ SignInRejectionLost(p)
             \/ SignInUnavailable(p) \/ SignInFailed(p)
    <3>1. /\ UNCHANGED <<calls, pc, seen, stored>> /\ step[p] \in {"sent", "answered"}
          /\ \A q \in Procs \ {p} : step'[q] = step[q]
      BY <2>5 DEF SignInAccepted, SignInLost, SignInRejected, SignInRejectionLost, SignInUnavailable,
         SignInFailed, procvars, secrets
    <3>2. QED
      BY <3>1, OrderFramed DEF Stale, Asking, Writing
  <2>6. QED
    BY <1>5, <2>1, <2>2, <2>3, <2>4, <2>5 DEF SignInStep
<1>6. ASSUME NEW r \in Procs, RequestStep(r) \/ RequestBegins(r) \/ RequestCancelled(r)
      PROVE  Ordered'
  <2>1. CASE RequestBegins(r) \/ RequestBeginsAgain(r) \/ RequestRejected(r)
    <3>1. /\ Calls(r) /\ UNCHANGED <<step, stored>> /\ seen' = [seen EXCEPT ![r] = stored]
          /\ \/ pc' = [pc EXCEPT ![r] = "ensure"]
             \/ pc' = [pc EXCEPT ![r] = "renew"]
      BY <2>1 DEF RequestBegins, RequestBeginsAgain, RequestRejected, Reads, signin, secrets
    <3>2. QED
      BY <3>1, OrderCalls DEF Stale, Asking, Writing
  <2>2. CASE \/ RequestServed(r) \/ RequestFails(r) \/ RequestRejectedAgain(r)
             \/ RequestCancelled(r)
    <3>1. /\ UNCHANGED <<calls, step, seen, stored>>
          /\ \E c \in Finished : pc' = [pc EXCEPT ![r] = c]
      BY <2>2 DEF RequestServed, RequestFails, RequestRejectedAgain, RequestCancelled,
         signin, Finished, secrets
    <3>2. QED
      BY <3>1, OrderFramed DEF Stale, Asking, Writing, Finished
  <2>3. CASE RenewNotNeeded(r) \/ RenewJoins(r)
    <3>1. /\ Returns(r) /\ UNCHANGED <<step, seen, stored>>
          /\ \/ pc' = [pc EXCEPT ![r] = "again"]
             \/ pc' = [pc EXCEPT ![r] = "awaitRenew"]
      BY <2>3 DEF RenewNotNeeded, RenewJoins, signin, secrets
    <3>2. QED
      BY <3>1, OrderReturns DEF Stale, Asking, Writing
  <2>4. CASE RenewSignsIn(r)
    <3>1. /\ ReturnsAndCalls(r) /\ pc' = [pc EXCEPT ![r] = "awaitRenew"]
          /\ step' = [step EXCEPT ![r] = "deleting"]
      BY <2>4 DEF RenewSignsIn
    <3>2. QED
      BY <3>1, OrderReturnsAndWrites DEF Asking, Writing
  <2>5. CASE RenewCleared(r)
    <3>1. /\ ReturnsAndCalls(r) /\ UNCHANGED <<pc, seen, stored>> /\ step[r] = "deleting"
      BY <2>5 DEF RenewCleared, procvars, secrets
    <3>2. \A q \in Procs \ {r} : ~Writing(q)
      BY <3>1, <1>3 DEF Writing
    <3>3. \A q \in Procs : ~Stale(q)
      BY <3>1, <3>2, NobodyStale
    <3>4. QED
      BY <3>1, <3>3 DEF Ordered, Stale, Asking
  <2>6. QED
    BY <1>6, <2>1, <2>2, <2>3, <2>4, <2>5 DEF RequestStep
<1>7. ASSUME Environment PROVE Ordered'
  <2>1. CASE WindowReloads
    <3>1. \A q \in Procs : pc'[q] \in Finished \cup {"idle"}
      BY <2>1 DEF WindowReloads, Finished
    <3>2. QED
      BY <3>1 DEF Ordered, Stale, Asking, Finished
  <2>2. CASE ~WindowReloads
    BY <1>7, <2>2, OrderFramed DEF Environment, RetireArrives, RetireLost, SessionEnds,
       PasswordChanges, ProfileSaved, TimePasses, procvars, signin, secrets, Stale, Asking,
       Writing
  <2>3. QED
    BY <2>1, <2>2
<1>8. CASE UNCHANGED vars
  BY <1>8, OrderFramed DEF vars, procvars, signin, secrets, Stale, Asking, Writing
<1>9. QED
  BY <1>4, <1>5, <1>6, <1>7, <1>8, OnlyRequestsNext DEF OrphanInv

-----------------------------------------------------------------------------
(***************************************************************************)
(* What is stored while a sign-in is under way.                             *)
(***************************************************************************)
LEMMA HeldFramed ==
    ASSUME Held, UNCHANGED <<stored, mode, old, new, answer>>,
           \A q \in Procs : step'[q] \in {step[q], "idle"}
    PROVE  Held'
  BY DEF Held, Done

\* A sign-in goes on without having obtained a token.
LEMMA HeldGoesOn ==
    ASSUME Held, UNCHANGED <<stored, mode, old>>,
           NEW p \in Procs, step[p] # "idle", ~Done(p), step'[p] # "storing", ~Done(p)',
           \A q \in Procs \ {p} : step[q] = "idle" /\ step'[q] = "idle"
    PROVE  Held'
  BY DEF Held, Done

LEMMA HeldStep ==
    OnlyRequests /\ OrphanInv /\ [Next]_vars => Held'
<1> SUFFICES ASSUME OnlyRequests, OrphanInv, [Next]_vars PROVE Held'
  OBVIOUS
<1>1. /\ step \in [Procs -> LoginSteps] /\ mode \in [Procs -> Modes]
      /\ old \in [Procs -> Nat] /\ new \in [Procs -> Nat]
      /\ answer \in [Procs -> Answers] /\ Held
  BY DEF OrphanInv, TypeOK, SignInType
<1>2. /\ \A p, q \in Procs : step[p] # "idle" /\ step[q] # "idle" => p = q
      /\ inFlight = None => \A p \in Procs : step[p] = "idle"
  BY Alone, ProcsAssumption DEF OrphanInv
<1> USE <1>1
<1>4. ASSUME NEW p \in Procs, EnsureStep(p) PROVE Held'
  <2>1. CASE EnsureReuses(p) \/ EnsureJoins(p)
    BY <2>1, HeldFramed DEF EnsureReuses, EnsureJoins, secrets, signin
  <2>2. CASE EnsureSignsIn(p)
    <3>1. \A q \in Procs : step[q] = "idle"
      BY <2>2, <1>2 DEF EnsureSignsIn
    <3>2. seen[p] = stored
      BY <2>2, <3>1, NobodyStale DEF EnsureSignsIn, Writing, Stale, Asking
    <3>3. stored' = stored /\ old'[p] = seen[p] /\ step' = [step EXCEPT ![p] = "password"]
      BY <2>2 DEF EnsureSignsIn, Starts, secrets
    <3>4. QED
      BY <3>1, <3>2, <3>3 DEF Held, Done
  <2>3. QED
    BY <1>4, <2>1, <2>2 DEF EnsureStep
<1>5. ASSUME NEW p \in Procs, SignInStep(p) PROVE Held'
  <2>1. CASE SettlesSignedIn(p) \/ SettlesWithOld(p) \/ SettlesFailed(p)
    BY <2>1, HeldFramed DEF SettlesSignedIn, SettlesWithOld, SettlesFailed, Settles, secrets
  <2>2. CASE \/ SignInRefused(p) \/ SignInSent(p) \/ SignInAccepted(p) \/ SignInLost(p)
             \/ SignInRejected(p) \/ SignInRejectionLost(p) \/ SignInUnavailable(p) \/ SignInFailed(p)
    <3>1. /\ UNCHANGED <<stored, mode, old>> /\ step[p] \in {"password", "sent", "answered"}
          /\ \A q \in Procs \ {p} : step'[q] = step[q]
      BY <2>2 DEF SignInRefused, SignInSent, SignInAccepted, SignInLost, SignInRejected, SignInRejectionLost,
         SignInUnavailable, SignInFailed, secrets
    <3>2. step'[p] # "storing" /\ ~Done(p)'
      BY <2>2 DEF SignInRefused, SignInSent, SignInAccepted, SignInLost, SignInRejected, SignInRejectionLost,
         SignInUnavailable, SignInFailed, Done
    <3>3. ~Done(p) /\ \A q \in Procs \ {p} : step[q] = "idle"
      BY <1>2, <3>1 DEF Done
    <3>4. QED
      BY <3>1, <3>2, <3>3, HeldGoesOn
  <2>3. CASE SignInStored(p)
    <3>1. /\ stored' = new[p] /\ UNCHANGED <<old, new, answer>> /\ answer[p] = "token"
          /\ step[p] # "idle" /\ step' = [step EXCEPT ![p] = "storing"]
      BY <2>3 DEF SignInStored
    <3>2. \A q \in Procs \ {p} : step[q] = "idle"
      BY <1>2, <3>1
    <3>3. QED
      BY <3>1, <3>2 DEF Held, Done
  <2>4. CASE SignInNoted(p)
    <3>1. /\ UNCHANGED <<stored, mode, old, new, answer>> /\ step[p] = "storing"
          /\ step' = [step EXCEPT ![p] = "recording"]
      BY <2>4 DEF SignInNoted, secrets
    <3>2. QED
      BY <3>1 DEF Held, Done
  <2>5. QED
    BY <1>5, <2>1, <2>2, <2>3, <2>4 DEF SignInStep
<1>6. ASSUME NEW r \in Procs, RequestStep(r) \/ RequestBegins(r) \/ RequestCancelled(r)
      PROVE  Held'
  <2>1. CASE RenewSignsIn(r)
    <3>1. \A q \in Procs : step[q] = "idle"
      BY <2>1, <1>2 DEF RenewSignsIn
    <3>2. /\ stored' = NoToken /\ mode'[r] = "renew"
          /\ step' = [step EXCEPT ![r] = "deleting"]
      BY <2>1 DEF RenewSignsIn
    <3>3. QED
      BY <3>1, <3>2 DEF Held, Done
  <2>2. CASE RenewCleared(r)
    <3>1. /\ UNCHANGED stored /\ step[r] = "deleting" /\ old'[r] = old[r]
          /\ mode'[r] = "renew" /\ step' = [step EXCEPT ![r] = "password"]
      BY <2>2 DEF RenewCleared, Starts, secrets
    <3>2. \A q \in Procs \ {r} : step[q] = "idle"
      BY <1>2, <3>1
    <3>3. QED
      BY <3>1, <3>2 DEF Held, Done
  <2>3. CASE ~(RenewSignsIn(r) \/ RenewCleared(r))
    <3>1. UNCHANGED <<stored, mode, old, new, answer, step>>
      BY <1>6, <2>3 DEF RequestStep, RequestBegins, RequestBeginsAgain, RequestCancelled,
         RequestServed, RequestFails, RequestRejected, RequestRejectedAgain, RenewNotNeeded,
         RenewJoins, signin, secrets
    <3>2. QED
      BY <3>1, HeldFramed
  <2>4. QED
    BY <2>1, <2>2, <2>3
<1>7. ASSUME Environment PROVE Held'
  BY <1>7, HeldFramed DEF Environment, RetireArrives, RetireLost, SessionEnds,
     PasswordChanges, ProfileSaved, TimePasses, WindowReloads, signin, secrets
<1>8. CASE UNCHANGED vars
  BY <1>8, HeldFramed DEF vars, signin, secrets
<1>9. QED
  BY <1>4, <1>5, <1>6, <1>7, <1>8, OnlyRequestsNext DEF OrphanInv

-----------------------------------------------------------------------------
(***************************************************************************)
(* Every open session is accounted for.                                     *)
(***************************************************************************)
LEMMA KeptFramed ==
    ASSUME LiveKept, live' \subseteq live, UNCHANGED <<stored, step, answer, old, new>>,
           \A t \in live' : t \in retiring \cup writtenOff => t \in (retiring \cup writtenOff)'
    PROVE  LiveKept'
  BY DEF LiveKept, Kept, Unstored

LEMMA KeptSettled ==
    ASSUME OnlyRequests, OrphanInv, NEW p \in Procs,
           SettlesSignedIn(p) \/ SettlesWithOld(p) \/ SettlesFailed(p)
    PROVE  LiveKept'
<1>1. /\ step[p] = "recording" /\ step' = [step EXCEPT ![p] = "idle"]
      /\ UNCHANGED <<live, stored, old, new, answer>>
  BY DEF SettlesSignedIn, SettlesWithOld, SettlesFailed, Settles, secrets, server
<1>2. \A q \in Procs : step[q] # "idle" => q = p
  BY <1>1, Alone DEF OrphanInv
<1>3. \A q \in Procs : ~Unstored(q)
  BY <1>1, <1>2 DEF Unstored
<1>4. retiring \subseteq retiring' /\ writtenOff \subseteq writtenOff'
  BY DEF SettlesSignedIn, SettlesWithOld, SettlesFailed, server, history
<1>5. \A t \in live : t \in {stored} \cup retiring \cup writtenOff \/ t = old[p]
  BY <1>2, <1>3 DEF OrphanInv, LiveKept, Kept
<1>6. \A t \in live : t # NoToken
  BY DEF OrphanInv, TokenInv, Numbered
<1>7. old[p] \in live => old[p] \in {stored} \cup retiring' \cup writtenOff'
  <2>1. CASE SettlesSignedIn(p)
    <3>1. stored = new[p]
      BY <1>1, <2>1 DEF SettlesSignedIn, OrphanInv, Held, Done
    <3>2. old[p] \in {NoToken, new[p]} \/ old[p] \in retiring'
      BY <2>1 DEF SettlesSignedIn
    <3>3. QED
      BY <1>6, <3>1, <3>2
  <2>2. CASE SettlesWithOld(p)
    BY <1>1, <2>2 DEF SettlesWithOld, OrphanInv, Held, Done
  <2>3. CASE SettlesFailed(p)
    BY <1>6, <2>3 DEF SettlesFailed
  <2>4. QED
    BY <2>1, <2>2, <2>3
<1>8. QED
  BY <1>1, <1>4, <1>5, <1>7 DEF LiveKept, Kept

LEMMA KeptStep ==
    OnlyRequests /\ OrphanInv /\ [Next]_vars => LiveKept'
<1> SUFFICES ASSUME OnlyRequests, OrphanInv, [Next]_vars PROVE LiveKept'
  OBVIOUS
<1>1. /\ step \in [Procs -> LoginSteps] /\ answer \in [Procs -> Answers]
      /\ old \in [Procs -> Nat] /\ new \in [Procs -> Nat] /\ LiveKept
  BY DEF OrphanInv, TypeOK, SignInType
<1>2. /\ \A p, q \in Procs : step[p] # "idle" /\ step[q] # "idle" => p = q
      /\ inFlight = None => \A p \in Procs : step[p] = "idle"
  BY Alone, ProcsAssumption DEF OrphanInv
<1>3. \A t \in live : t # NoToken
  BY DEF OrphanInv, TokenInv, Numbered
<1> USE <1>1
<1>4. ASSUME NEW p \in Procs, EnsureStep(p) PROVE LiveKept'
  <2>1. CASE EnsureReuses(p) \/ EnsureJoins(p)
    BY <2>1, KeptFramed DEF EnsureReuses, EnsureJoins, secrets, signin, server, history
  <2>2. CASE EnsureSignsIn(p)
    <3>1. \A q \in Procs : step[q] = "idle"
      BY <2>2, <1>2 DEF EnsureSignsIn
    <3>2. UNCHANGED <<live, stored, retiring, writtenOff>>
      BY <2>2 DEF EnsureSignsIn, secrets, server, history
    <3>3. QED
      BY <3>1, <3>2 DEF LiveKept, Kept, Unstored
  <2>3. QED
    BY <1>4, <2>1, <2>2 DEF EnsureStep
<1>5. ASSUME NEW p \in Procs, SignInStep(p) PROVE LiveKept'
  <2>1. CASE SettlesSignedIn(p) \/ SettlesWithOld(p) \/ SettlesFailed(p)
    BY <2>1, KeptSettled
  <2>2. CASE SignInAccepted(p) \/ SignInLost(p)
    <3>1. /\ step[p] = "sent" /\ step' = [step EXCEPT ![p] = "answered"]
          /\ live' = live \cup {issued + 1}
          /\ UNCHANGED <<stored, old, retiring>> /\ writtenOff \subseteq writtenOff'
          /\ \A q \in Procs \ {p} : answer'[q] = answer[q] /\ new'[q] = new[q]
      BY <2>2 DEF SignInAccepted, SignInLost, secrets, history
    <3>2. \/ answer'[p] = "token" /\ new'[p] = issued + 1
          \/ issued + 1 \in writtenOff'
      BY <2>2 DEF SignInAccepted, SignInLost
    <3>3. ~Unstored(p) /\ \A q \in Procs \ {p} : Unstored(q) => Unstored(q)'
      BY <3>1 DEF Unstored
    <3>4. \A t \in live : Kept(t)'
      BY <3>1, <3>3 DEF LiveKept, Kept
    <3>5. ASSUME NEW t, t = issued + 1 PROVE Kept(t)'
      BY <3>1, <3>2, <3>5 DEF Kept, Unstored
    <3>6. QED
      BY <3>1, <3>4, <3>5 DEF LiveKept
  <2>3. CASE SignInStored(p)
    <3>1. /\ stored' = new[p] /\ UNCHANGED <<live, retiring, writtenOff, old, new, answer>>
          /\ step[p] = "answered" /\ answer[p] = "token"
          /\ step' = [step EXCEPT ![p] = "storing"]
      BY <2>3 DEF SignInStored, server, history
    <3>2. stored \in {NoToken, old[p]}
      BY <3>1 DEF OrphanInv, Held, Done
    <3>3. \A q \in Procs : Unstored(q) => q = p
      BY <3>1, <1>2 DEF Unstored
    <3>4. \A t \in live : t = stored => Kept(t)'
      BY <3>1, <3>2, <1>3 DEF Kept
    <3>5. \A t \in live : t # stored => Kept(t)'
      BY <3>1, <3>3 DEF LiveKept, Kept
    <3>6. QED
      BY <3>1, <3>4, <3>5 DEF LiveKept
  <2>4. CASE \/ SignInRefused(p) \/ SignInSent(p) \/ SignInRejected(p) \/ SignInRejectionLost(p)
             \/ SignInUnavailable(p) \/ SignInNoted(p) \/ SignInFailed(p)
    <3>1. /\ UNCHANGED <<live, stored, retiring, writtenOff, old, new>>
          /\ step[p] # "idle" /\ step'[p] # "idle" /\ ~Unstored(p)
          /\ \A q \in Procs \ {p} : step'[q] = step[q] /\ answer'[q] = answer[q]
      BY <2>4 DEF SignInRefused, SignInSent, SignInRejected, SignInRejectionLost, SignInUnavailable,
         SignInNoted, SignInFailed, secrets, server, history, Unstored
    <3>2. QED
      BY <3>1 DEF LiveKept, Kept, Unstored
  <2>5. QED
    BY <1>5, <2>1, <2>2, <2>3, <2>4 DEF SignInStep
<1>6. ASSUME NEW r \in Procs, RequestStep(r) \/ RequestBegins(r) \/ RequestCancelled(r)
      PROVE  LiveKept'
  <2>1. CASE RenewSignsIn(r)
    <3>1. \A q \in Procs : step[q] = "idle"
      BY <2>1, <1>2 DEF RenewSignsIn
    <3>2. seen[r] = stored /\ stored \in {NoToken, tok[r]}
      BY <2>1, <3>1, NobodyStale
      DEF RenewSignsIn, Writing, Stale, Asking, AlreadyRenewed
    <3>3. /\ UNCHANGED <<live, retiring>> /\ writtenOff \subseteq writtenOff'
          /\ step'[r] = "deleting"
          /\ old'[r] = tok[r] \/ tok[r] \in writtenOff'
      BY <2>1 DEF RenewSignsIn, server
    <3>4. \A t \in live : t \in {stored} \cup retiring \cup writtenOff
      BY <3>1 DEF LiveKept, Kept, Unstored
    <3>5. \A t \in live : t = tok[r] \/ t \in retiring' \cup writtenOff'
      BY <3>2, <3>3, <3>4, <1>3
    <3>6. QED
      BY <3>3, <3>5 DEF LiveKept, Kept
  <2>2. CASE RenewCleared(r)
    <3>1. /\ UNCHANGED <<live, stored, retiring, writtenOff, old>> /\ step[r] = "deleting"
          /\ step'[r] # "idle"
          /\ \A q \in Procs \ {r} : /\ step'[q] = step[q] /\ answer'[q] = answer[q]
                                    /\ new'[q] = new[q]
      BY <2>2 DEF RenewCleared, Starts, secrets, server, history
    <3>2. QED
      BY <3>1 DEF LiveKept, Kept, Unstored
  <2>3. CASE ~(RenewSignsIn(r) \/ RenewCleared(r))
    <3>1. UNCHANGED <<live, stored, retiring, writtenOff, old, new, answer, step>>
      BY <1>6, <2>3 DEF RequestStep, RequestBegins, RequestBeginsAgain, RequestCancelled,
         RequestServed, RequestFails, RequestRejected, RequestRejectedAgain, RenewNotNeeded,
         RenewJoins, signin, secrets, server, history
    <3>2. QED
      BY <3>1, KeptFramed
  <2>4. QED
    BY <2>1, <2>2, <2>3
<1>7. ASSUME Environment PROVE LiveKept'
  <2>1. CASE WindowReloads
    <3>1. live' = live /\ stored' = stored /\ writtenOff' = writtenOff \cup (live \ {stored})
      BY <2>1 DEF WindowReloads, secrets
    <3>2. QED
      BY <3>1 DEF LiveKept, Kept
  <2>2. CASE ~WindowReloads
    <3>1. UNCHANGED <<stored, step, answer, old, new>> /\ live' \subseteq live
      BY <1>7, <2>2 DEF Environment, RetireArrives, RetireLost, SessionEnds,
         PasswordChanges, ProfileSaved, TimePasses, signin, secrets, server
    <3>2. \A t \in live' : t \in retiring \cup writtenOff => t \in (retiring \cup writtenOff)'
      BY <1>7, <2>2 DEF Environment, RetireArrives, RetireLost, SessionEnds,
         PasswordChanges, ProfileSaved, TimePasses, server, history
    <3>3. QED
      BY <3>1, <3>2, KeptFramed
  <2>3. QED
    BY <2>1, <2>2
<1>8. CASE UNCHANGED vars
  BY <1>8, KeptFramed DEF vars, signin, secrets, server, history
<1>9. QED
  BY <1>4, <1>5, <1>6, <1>7, <1>8, OnlyRequestsNext DEF OrphanInv

\* Requests alone leave no session behind, however many there are and whatever
\* is lost, rejected, cancelled or reloaded: each open session is the stored
\* one, or a logout, a sign-in under way or the record of losses accounts for it.
\* A Connect or a Disconnect beside them does leave sessions behind.
THEOREM RequestsLeaveNothingOpen == OnlyRequests => (Spec => []NoOrphan)
<1> SUFFICES ASSUME OnlyRequests PROVE Spec => []NoOrphan
  OBVIOUS
<1>1. Init => OrphanInv
  BY TypeInit, ApartInit, MutexInit, TokenInit, OrphanInit DEF OrphanInv
<1>2. OrphanInv /\ [Next]_vars => OrphanInv'
  BY TypeStep, ApartStep, MutexStep, TokenStep, PlacesStep, QueueStep, OrderStep,
     HeldStep, KeptStep DEF OrphanInv
<1>3. OrphanInv => NoOrphan
  BY DEF OrphanInv, LiveKept, Kept, NoOrphan, Accounted, Unstored
<1>4. QED
  BY <1>1, <1>2, <1>3, PTL DEF Spec

=============================================================================
