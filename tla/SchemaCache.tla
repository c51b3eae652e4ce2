----------------------------- MODULE SchemaCache -----------------------------
(***************************************************************************)
(* Layout metadata on its way from the server to the user: the validators  *)
(* and metadata of the client (services/fmClient/metadata.ts), the cached  *)
(* answers of the schema service (services/schemaService.ts), the offline  *)
(* cache below them, and the sign-ins that drop all of these               *)
(* (fmClient.ts invalidateProfileCache).  One profile; the layouts on the  *)
(* server change with every tick of the clock.                             *)
(***************************************************************************)
EXTENDS OfflineCache

CONSTANTS
    Accounts,    \* accounts the profile may sign in with
    Ttl,         \* getCacheTtlMs, in ticks
    MaxTime,     \* bound: ticks
    MaxCalls,    \* bound: calls that begin
    MaxToggles,  \* bound: switches of offline mode
    MaxEvents    \* bound: sign-ins, sign-outs, reloads and failed writes

ASSUME CacheAssumption ==
    Ttl \in Nat \ {0} /\ MaxTime \in Nat /\ MaxCalls \in Nat
    /\ MaxToggles \in Nat /\ MaxEvents \in Nat

VARIABLES
    now,         \* Date.now()
    account,     \* the account of the open session
    validators,  \* server: it sends ETags
    offlineMode, \* filemaker.offline.mode
    etags,       \* client: layoutMetadataEtags
    metadata,    \* client: layoutMetadataCache
    answers,     \* schema service: cache
    place,       \* where each call waits
    layout,      \* the layout of each call
    todo,        \* layouts a refresh of the offline cache has still to read
    begun,       \* the clock when the call looked at the cache
    sent,        \* If-None-Match of the request
    seen,        \* cachedMetadata, read before the request
    reply,       \* the server's answer on its way
    got,         \* the metadata the call has
    late,        \* history: calls under way when the caches were last dropped
    kept,        \* history: layouts cached for offline use since index writes last overlapped or broke off
    newer,       \* history: the layouts cached for offline use after each layout
    lastOffline, \* history: the clock when offline mode was last on
    calls, toggles, events

env == <<now, account, validators, offlineMode>>
clientVars == <<etags, metadata, answers>>
callVars == <<place, layout, todo, begun, sent, seen, reply, got>>
history == <<late, kept, newer, lastOffline>>
counters == <<calls, toggles, events>>
vars == <<offlineVars, env, clientVars, callVars, history, counters>>

Value == [account : Accounts, at : 0..MaxTime]
MetadataFile == [layout : Layouts, value : Value]
IndexItem == [file : MetadataFile, ahead : SUBSET Layouts]

ASSUME NothingAssumption == Nothing \notin Value /\ Nothing \notin IndexItem

Maybe == Value \cup {Nothing}
Entry == [value : Maybe, expires : Nat, from : {"server", "disk"}, late : BOOLEAN]
NoReply == [kind |-> "none", value |-> Nothing]
Reply == [kind : {"full", "same"}, value : Value] \cup {NoReply, [kind |-> "unsupported", value |-> Nothing]}
Places == {"idle", "list", "request", "reply", "file", "index", "change", "write", "lookup", "load"}

\* What a layout looks like at this moment to the account that is signed in.
Current == [account |-> account, at |-> now]
Valid(l) == answers[l] # Nothing /\ answers[l].expires > now

Init ==
    /\ InitOffline
    /\ now = 0 /\ account \in Accounts /\ validators \in BOOLEAN /\ offlineMode = FALSE
    /\ etags = Empty /\ metadata = Empty /\ answers = Empty
    /\ place = [c \in Calls |-> "idle"]
    /\ layout \in [Calls -> Layouts]
    /\ todo = [c \in Calls |-> {}]
    /\ begun = [c \in Calls |-> 0]
    /\ sent = [c \in Calls |-> Nothing]
    /\ seen = [c \in Calls |-> Nothing]
    /\ reply = [c \in Calls |-> NoReply]
    /\ got = [c \in Calls |-> Nothing]
    /\ late = {} /\ kept = {} /\ newer = [l \in Layouts |-> {}]
    /\ lastOffline = 0 - Ttl
    /\ calls = 0 /\ toggles = 0 /\ events = 0

Goes(c, where) == place' = [place EXCEPT ![c] = where]

\* The cached metadata and its validator are read together, before the request.
Asks(c, l) ==
    /\ Goes(c, "request")
    /\ layout' = [layout EXCEPT ![c] = l]
    /\ sent' = [sent EXCEPT ![c] = etags[l]]
    /\ seen' = [seen EXCEPT ![c] = metadata[l]]
    /\ begun' = [begun EXCEPT ![c] = now]
    /\ late' = late \ {c}

\* getLayoutSchema; a valid answer in the cache ends the call at once.
GetBegins(c, l) ==
    /\ place[c] = "idle" /\ calls < MaxCalls
    /\ calls' = calls + 1
    /\ IF offlineMode
       THEN /\ Goes(c, "lookup")
            /\ layout' = [layout EXCEPT ![c] = l]
            /\ begun' = [begun EXCEPT ![c] = now]
            /\ UNCHANGED <<sent, seen, late>>
       ELSE ~Valid(l) /\ Asks(c, l)
    /\ UNCHANGED <<offlineVars, env, clientVars, todo, reply, got, kept, newer, lastOffline, toggles, events>>

\* Refresh Offline Metadata Cache: every layout the server lists, in turn.
RefreshBegins(c) ==
    /\ place[c] = "idle" /\ calls < MaxCalls
    /\ calls' = calls + 1
    /\ Goes(c, "list")
    /\ \E listed \in SUBSET Layouts \ {{}} : todo' = [todo EXCEPT ![c] = listed]
    /\ UNCHANGED <<offlineVars, env, clientVars, layout, begun, sent, seen, reply, got, history, toggles, events>>

RefreshNext(c) ==
    /\ place[c] = "list"
    /\ \E l \in todo[c] : Asks(c, l)
    /\ UNCHANGED <<offlineVars, env, clientVars, todo, reply, got, kept, newer, lastOffline, counters>>

\* A call ends; a refresh goes on to the layouts it has left.
Refreshing(c) == todo[c] # {}
Left(c) == todo[c] \ {layout[c]}
Done(c) ==
    /\ todo' = [todo EXCEPT ![c] = Left(c)]
    /\ Goes(c, IF Left(c) = {} THEN "idle" ELSE "list")

Answers(c, answer) == reply' = [reply EXCEPT ![c] = answer] /\ Goes(c, "reply")

ServerAnswers(c) ==
    /\ place[c] = "request"
    /\ \/ Answers(c, [kind |-> IF sent[c] = Current THEN "same" ELSE "full", value |-> Current])
       \/ Answers(c, [kind |-> "unsupported", value |-> Nothing])
    /\ UNCHANGED <<offlineVars, env, clientVars, layout, todo, begun, sent, seen, got, history, counters>>

RequestFails(c) ==
    /\ place[c] = "request"
    /\ Done(c)
    /\ UNCHANGED <<offlineVars, env, clientVars, layout, begun, sent, seen, reply, got, history, counters>>

\* Mutant: the answer counts as new when it is stored.
ExpiryLate(c) == now + Ttl
Expiry(c) == begun[c] + Ttl

Stores(c, value, from) ==
    answers' = [answers EXCEPT ![layout[c]] =
        [value |-> value, expires |-> Expiry(c), from |-> from, late |-> c \in late]]

\* Mutant: "not modified" gives what is in the cache when it arrives.
ConfirmedLate(c) == metadata[layout[c]]
Confirmed(c) == seen[c]

\* getLayoutMetadata after its await, up to the first await of the offline cache
Arrives(c) ==
    /\ place[c] = "reply"
    /\ LET l == layout[c] answer == reply[c] IN
       \/ /\ answer.kind = "full"
          /\ etags' = IF validators THEN [etags EXCEPT ![l] = answer.value] ELSE etags
          /\ metadata' = [metadata EXCEPT ![l] = answer.value]
          /\ got' = [got EXCEPT ![c] = answer.value]
          /\ Goes(c, "file")
          /\ UNCHANGED <<answers, todo>>
       \/ /\ answer.kind = "same"
          /\ got' = [got EXCEPT ![c] = Confirmed(c)]
          /\ Goes(c, "file")
          /\ UNCHANGED <<etags, metadata, answers, todo>>
       \/ /\ answer.kind = "unsupported"
          /\ IF Refreshing(c) THEN UNCHANGED answers ELSE Stores(c, Nothing, "server")
          /\ Done(c)
          /\ UNCHANGED <<etags, metadata, got>>
    /\ UNCHANGED <<offlineVars, env, layout, begun, sent, seen, reply, history, counters>>

SavesFile(c) ==
    /\ place[c] = "file"
    /\ WriteFile(layout[c], got[c])
    /\ Goes(c, "index")
    /\ UNCHANGED <<env, clientVars, layout, todo, begun, sent, seen, reply, got, history, counters>>

ReadsIndex(c) ==
    /\ place[c] = "index"
    /\ ReadIndex(c)
    /\ Goes(c, "change")
    /\ UNCHANGED <<env, clientVars, layout, todo, begun, sent, seen, reply, got, history, counters>>

OpensIndex(c) ==
    /\ place[c] = "change"
    /\ OpenIndex(c)
    /\ Goes(c, "write")
    /\ UNCHANGED <<env, clientVars, layout, todo, begun, sent, seen, reply, got, history, counters>>

AnotherWrites(c) == \E d \in Calls \ {c} : place[d] \in {"change", "write"}

\* The index is written; getLayoutSchema puts its answer in the cache.
WritesIndex(c) ==
    /\ place[c] = "write"
    /\ WriteIndex(c, layout[c], got[c])
    /\ kept' = IF index.whole \/ AnotherWrites(c) THEN {} ELSE kept \cup {layout[c]}
    /\ newer' = [l \in Layouts |-> IF l = layout[c] THEN {} ELSE newer[l] \cup {layout[c]}]
    /\ IF Refreshing(c) THEN UNCHANGED answers ELSE Stores(c, got[c], "server")
    /\ Done(c)
    /\ UNCHANGED <<env, etags, metadata, layout, begun, sent, seen, reply, got, late, lastOffline, counters>>

\* A write fails: getLayoutSchema fails with it, a refresh goes on.
WriteFails(c) ==
    /\ place[c] \in {"file", "change", "write"} /\ events < MaxEvents
    /\ events' = events + 1
    /\ kept' = IF place[c] = "write" THEN {} ELSE kept
    /\ Done(c)
    /\ UNCHANGED <<offlineVars, env, clientVars, layout, begun, sent, seen, reply, got, late, newer, lastOffline, calls, toggles>>

\* Offline: the index, then the file it names.
LooksUp(c) ==
    /\ place[c] = "lookup"
    /\ ReadIndex(c)
    /\ Goes(c, "load")
    /\ UNCHANGED <<env, clientVars, layout, todo, begun, sent, seen, reply, got, history, counters>>

Loads(c) ==
    /\ place[c] = "load"
    /\ LET value == Offline(c, layout[c]) IN
       IF value = Nothing THEN UNCHANGED answers ELSE Stores(c, value, "disk")
    /\ Goes(c, "idle")
    /\ UNCHANGED <<offlineVars, env, etags, metadata, layout, todo, begun, sent, seen, reply, got, history, counters>>

(***************************************************************************)
(* invalidateProfileCache: after a sign-in, perhaps as another account,    *)
(* after a sign-out and for Refresh Schema Cache.                          *)
(***************************************************************************)
\* Mutant: the schema service keeps its answers.
InvalidatesHalf == etags' = Empty /\ metadata' = Empty /\ UNCHANGED answers
Invalidates == etags' = Empty /\ metadata' = Empty /\ answers' = Empty

Drops ==
    /\ events < MaxEvents
    /\ events' = events + 1
    /\ account' \in Accounts
    /\ Invalidates
    /\ late' = {c \in Calls : place[c] # "idle"}
    /\ UNCHANGED <<offlineVars, now, validators, offlineMode, callVars, kept, newer, lastOffline, calls, toggles>>

ToggleOffline ==
    /\ toggles < MaxToggles
    /\ toggles' = toggles + 1
    /\ offlineMode' = ~offlineMode
    /\ lastOffline' = now
    /\ UNCHANGED <<offlineVars, now, account, validators, clientVars, callVars, late, kept, newer, calls, events>>

TimePasses ==
    /\ now < MaxTime
    /\ now' = now + 1
    /\ lastOffline' = IF offlineMode THEN now' ELSE lastOffline
    /\ UNCHANGED <<offlineVars, account, validators, offlineMode, clientVars, callVars, late, kept, newer, counters>>

\* The extension host restarts: the memory is gone, the disk stays.
Reload ==
    /\ events < MaxEvents
    /\ events' = events + 1
    /\ Invalidates
    /\ place' = [c \in Calls |-> "idle"]
    /\ todo' = [c \in Calls |-> {}]
    /\ kept' = IF \E c \in Calls : place[c] = "write" THEN {} ELSE kept
    /\ UNCHANGED <<offlineVars, env, layout, begun, sent, seen, reply, got, late, newer, lastOffline, calls, toggles>>

CallStep(c) ==
    \/ RefreshNext(c) \/ ServerAnswers(c) \/ RequestFails(c) \/ Arrives(c)
    \/ SavesFile(c) \/ ReadsIndex(c) \/ OpensIndex(c) \/ WritesIndex(c) \/ WriteFails(c)
    \/ LooksUp(c) \/ Loads(c)

Next ==
    \/ \E c \in Calls : \/ \E l \in Layouts : GetBegins(c, l)
                        \/ RefreshBegins(c)
                        \/ CallStep(c)
    \/ Drops \/ ToggleOffline \/ TimePasses \/ Reload

Spec == Init /\ [][Next]_vars

-----------------------------------------------------------------------------
CacheTypeOK ==
    /\ files \subseteq MetadataFile
    /\ index \in [whole : BOOLEAN, names : [Layouts -> IndexItem \cup {Nothing}]]
    /\ read \in [Calls -> [Layouts -> IndexItem \cup {Nothing}]]
    /\ now \in 0..MaxTime /\ account \in Accounts /\ validators \in BOOLEAN /\ offlineMode \in BOOLEAN
    /\ etags \in [Layouts -> Maybe] /\ metadata \in [Layouts -> Maybe]
    /\ answers \in [Layouts -> Entry \cup {Nothing}]
    /\ place \in [Calls -> Places] /\ layout \in [Calls -> Layouts] /\ todo \in [Calls -> SUBSET Layouts]
    /\ begun \in [Calls -> 0..MaxTime] /\ sent \in [Calls -> Maybe] /\ seen \in [Calls -> Maybe]
    /\ reply \in [Calls -> Reply] /\ got \in [Calls -> Maybe]
    /\ late \subseteq Calls /\ kept \subseteq Layouts /\ calls \in 0..MaxCalls /\ events \in 0..MaxEvents

PastTypeOK == newer \in [Layouts -> SUBSET Layouts] /\ lastOffline \in Int /\ toggles \in 0..MaxToggles

TypeOK == CacheTypeOK /\ PastTypeOK

\* An answer read from the offline cache, while the mode is on or was on within Ttl.
FromDisk(l) == answers[l].from = "disk" /\ now - lastOffline < Ttl

(***************************************************************************)
(* An answer the schema service still gives from its cache was current     *)
(* less than its time to live ago: slow requests and a slow disk do not    *)
(* add to it (getLayoutSchema).  What offline mode reads from the disk may *)
(* be of any age, enters the cache as new (schemaService.ts:91-94) and is  *)
(* given online once the mode is off, but only until the mode has been off *)
(* for one time to live, however late a call that began under it ends.     *)
(***************************************************************************)
OldOnlyFromDisk ==
    \A l \in Layouts :
      Valid(l) /\ answers[l].value # Nothing => now - answers[l].value.at < Ttl \/ FromDisk(l)

(***************************************************************************)
(* A call told "not modified" gives the metadata the server confirmed,     *)
(* whatever other calls, sign-ins and invalidations did to the caches      *)
(* while it waited (getLayoutMetadata).                                    *)
(***************************************************************************)
NotModifiedMeansCurrent ==
    \A c \in Calls :
      place[c] \in {"file", "index", "change", "write"} => got[c] = reply[c].value

(***************************************************************************)
(* The cache shows what the signed-in account sees, with two exceptions:   *)
(* an answer of a call that was under way when the caches were dropped     *)
(* (schemaService.ts onInvalidate, invalidateProfileCache), and, until     *)
(* offline mode has been off for one time to live, an answer it read from  *)
(* the disk, where the files of all accounts of the profile are.           *)
(***************************************************************************)
ForeignIsLateOrFromDisk ==
    \A l \in Layouts :
      Valid(l) /\ answers[l].value # Nothing =>
        answers[l].value.account = account \/ answers[l].late \/ FromDisk(l)

(***************************************************************************)
(* A layout cached for offline use stays in the index until MaxIndexed     *)
(* other layouts have been cached after it, whatever is read, refreshed or *)
(* restarted meanwhile, unless two calls write the index at the same time  *)
(* or a write breaks off (cacheLayoutMetadata).                            *)
(***************************************************************************)
KeptIsFound ==
    (\A c \in Calls : place[c] # "write") =>
      \A l \in kept : Cardinality(newer[l]) < MaxIndexed => index.names[l] # Nothing
=============================================================================
