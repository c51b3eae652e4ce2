-------------------------- MODULE SchemaCacheProofs --------------------------
(***************************************************************************)
(* Proofs about SchemaCache: for any calls, layouts, accounts, times to    *)
(* live, lengths of the index and sequences of sign-ins and switches of    *)
(* offline mode, only what was read from the disk outlives its time to     *)
(* live, only that and late answers are foreign, "not modified" means what *)
(* the server confirmed, and the offline index names files that are there  *)
(* and keeps the layouts it has room for.                                  *)
(***************************************************************************)
EXTENDS SchemaCache, FiniteSetTheorems, TLAPS

\* Places at which a call has its answer from the server.
Held == {"file", "index", "change", "write"}
HasAnswer(c) == place[c] \in Held \/ (place[c] = "reply" /\ reply[c].kind # "unsupported")

(***************************************************************************)
(* The inductive invariant.                                                *)
(***************************************************************************)
\* A validator in the cache belongs to the metadata beside it.
ValidatorsMatch ==
    \A l \in Layouts : etags[l] # Nothing => validators = TRUE /\ metadata[l] = etags[l]

\* What a call has read and been told.
CallInv(c) ==
    /\ begun[c] <= now
    /\ place[c] = "request" /\ sent[c] # Nothing => seen[c] = sent[c]
    /\ place[c] = "reply" => reply[c].kind # "none"
    /\ place[c] = "reply" /\ reply[c].kind = "same" => seen[c] = reply[c].value
    /\ HasAnswer(c) => /\ reply[c].value \in Value
                       /\ begun[c] <= reply[c].value.at
                       /\ c \notin late => reply[c].value.account = account
    /\ place[c] \in Held => got[c] = reply[c].value

\* What the schema service keeps.
AnswerInv(l) ==
    answers[l] # Nothing /\ answers[l].from = "server" /\ answers[l].value # Nothing =>
      /\ answers[l].expires <= answers[l].value.at + Ttl
      /\ answers[l].late = TRUE \/ answers[l].value.account = account

\* An item of the index has its file.
Backed(item, there) == item # Nothing => item.file \in there

\* The disk: an entry of the index is written after its file.
DiskInv ==
    /\ IndexNamesFiles
    /\ \A c \in Calls, l \in Layouts : Backed(read[c][l], files)
    /\ \A c \in Calls : place[c] \in {"index", "change", "write"} => File(layout[c], got[c]) \in files

IInv ==
    /\ CacheTypeOK /\ ValidatorsMatch /\ DiskInv
    /\ \A c \in Calls : CallInv(c)
    /\ \A l \in Layouts : AnswerInv(l)

-----------------------------------------------------------------------------
LEMMA InvInit == ASSUME Init PROVE IInv
<1> USE CacheAssumption DEF Init, InitOffline, Empty, Whole
<1>1. 0 \in 0..MaxTime /\ NoReply \in Reply /\ [l \in Layouts |-> Nothing] \in [Layouts -> Maybe]
  BY DEF Reply, Maybe
<1>5. index \in [whole : BOOLEAN, names : [Layouts -> IndexItem \cup {Nothing}]]
      /\ read \in [Calls -> [Layouts -> IndexItem \cup {Nothing}]]
  OBVIOUS
<1>6. /\ etags \in [Layouts -> Maybe] /\ metadata \in [Layouts -> Maybe]
      /\ answers \in [Layouts -> Entry \cup {Nothing}]
  BY <1>1
<1>7. /\ sent \in [Calls -> Maybe] /\ seen \in [Calls -> Maybe] /\ got \in [Calls -> Maybe]
      /\ reply \in [Calls -> Reply]
  BY <1>1 DEF Maybe
<1>9. /\ place \in [Calls -> Places] /\ todo \in [Calls -> SUBSET Layouts] /\ begun \in [Calls -> 0..MaxTime]
      /\ layout \in [Calls -> Layouts]
  BY <1>1 DEF Places
<1>8. validators \in BOOLEAN /\ offlineMode \in BOOLEAN
  BY Zenon
<1>10. now \in 0..MaxTime /\ account \in Accounts /\ calls \in 0..MaxCalls /\ events \in 0..MaxEvents
  OBVIOUS
<1>11. files \subseteq MetadataFile /\ late \subseteq Calls /\ kept \subseteq Layouts
  OBVIOUS
<1>2. ValidatorsMatch /\ DiskInv
  BY DEF ValidatorsMatch, DiskInv, Backed, IndexNamesFiles
<1>3. \A c \in Calls : CallInv(c)
  BY DEF CallInv, HasAnswer, Held
<1>4. \A l \in Layouts : AnswerInv(l)
  BY DEF AnswerInv
<1> QED
  BY <1>2, <1>3, <1>4, <1>5, <1>6, <1>7, <1>8, <1>9, <1>10, <1>11 DEF IInv, CacheTypeOK, MetadataFile

\* A call that a step leaves where it is keeps what is true of it.
LEMMA CallUntouched ==
  ASSUME NEW c \in Calls, CallInv(c), UNCHANGED <<now, account>>,
         place'[c] = place[c], begun'[c] = begun[c], sent'[c] = sent[c], seen'[c] = seen[c],
         reply'[c] = reply[c], got'[c] = got[c], c \notin late' => c \notin late
  PROVE  CallInv(c)'
  BY DEF CallInv, HasAnswer

\* A call that ends, whatever it knows.
LEMMA CallEnds ==
  ASSUME NEW c \in Calls, place'[c] \in {"idle", "list", "lookup", "load"}, begun'[c] <= now'
  PROVE  CallInv(c)'
  BY DEF CallInv, HasAnswer, Held

LEMMA AnswerUntouched ==
  ASSUME NEW l \in Layouts, AnswerInv(l), answers'[l] = answers[l] \/ answers'[l] = Nothing,
         account' = account \/ answers'[l] = Nothing
  PROVE  AnswerInv(l)'
  BY DEF AnswerInv

LEMMA DiskUntouched ==
  ASSUME DiskInv, UNCHANGED offlineVars,
         \A c \in Calls : place'[c] \in {"index", "change", "write"} =>
           place[c] \in {"index", "change", "write"} /\ layout'[c] = layout[c] /\ got'[c] = got[c]
  PROVE  DiskInv'
  BY DEF DiskInv, Backed, IndexNamesFiles, offlineVars, File

\* Done: the call is over or goes on to another layout.
LEMMA DoneTo ==
  ASSUME CacheTypeOK, NEW c \in Calls, Done(c)
  PROVE  /\ place' \in [Calls -> Places] /\ todo' \in [Calls -> SUBSET Layouts]
         /\ place'[c] \in {"idle", "list"} /\ \A d \in Calls : d # c => place'[d] = place[d]
  BY DEF Done, Left, Goes, CacheTypeOK, Places

LEMMA InvNext == ASSUME IInv, [Next]_vars PROVE IInv'
<1> USE CacheAssumption DEF offlineVars, env, clientVars, callVars, history, counters
<1>0. CacheTypeOK /\ ValidatorsMatch /\ DiskInv /\ (\A c \in Calls : CallInv(c)) /\ (\A l \in Layouts : AnswerInv(l))
  BY DEF IInv
<1>1. ASSUME CacheTypeOK', ValidatorsMatch', DiskInv', \A c \in Calls : CallInv(c)', \A l \in Layouts : AnswerInv(l)'
      PROVE  IInv'
  BY <1>1 DEF IInv
\* The cached metadata and validator are read, and the request is sent.
<1>2. ASSUME NEW c \in Calls, NEW l \in Layouts, Asks(c, l), calls' \in 0..MaxCalls, todo' = todo,
             UNCHANGED <<offlineVars, env, clientVars, reply, got, kept, events>>
      PROVE  IInv'
  <2>1. CacheTypeOK'
    BY <1>0, <1>2 DEF Asks, Goes, CacheTypeOK, Places
  <2>2. ValidatorsMatch'
    BY <1>0, <1>2 DEF ValidatorsMatch
  <2>3. DiskInv'
    BY <1>0, <1>2, DiskUntouched DEF Asks, Goes, CacheTypeOK
  <2>4. ASSUME NEW d \in Calls PROVE CallInv(d)'
    <3>1. CASE d = c
      BY <1>0, <1>2, <3>1 DEF Asks, Goes, CacheTypeOK, CallInv, HasAnswer, Held, ValidatorsMatch
    <3>2. CASE d # c
      BY <1>0, <1>2, <3>2, CallUntouched DEF Asks, Goes, CacheTypeOK
    <3> QED
      BY <3>1, <3>2
  <2>5. ASSUME NEW k \in Layouts PROVE AnswerInv(k)'
    BY <1>0, <1>2, AnswerUntouched
  <2> QED
    BY <1>1, <2>1, <2>2, <2>3, <2>4, <2>5
\* A step that moves one call to a place without an answer of the server and changes no cache.
<1>3. ASSUME NEW c \in Calls, CacheTypeOK', UNCHANGED <<files, index, env, clientVars, late>>,
             \A d \in Calls, l \in Layouts : Backed(read'[d][l], files),
             place'[c] \in {"idle", "list", "lookup", "load"}, begun'[c] \in {begun[c], now},
             \A d \in Calls : d # c => /\ place'[d] = place[d] /\ layout'[d] = layout[d] /\ begun'[d] = begun[d]
                                       /\ sent'[d] = sent[d] /\ seen'[d] = seen[d] /\ reply'[d] = reply[d]
                                       /\ got'[d] = got[d]
      PROVE  IInv'
  <2>1. DiskInv'
    BY <1>0, <1>3 DEF DiskInv, Backed, IndexNamesFiles, File
  <2>2. ASSUME NEW d \in Calls PROVE CallInv(d)'
    <3>1. CASE d = c
      <4>1. begun'[c] <= now'
        BY <1>0, <1>3 DEF CallInv, CacheTypeOK
      <4> QED
        BY <1>3, <3>1, <4>1, CallEnds
    <3>2. CASE d # c
      BY <1>0, <1>3, <3>2, CallUntouched DEF CacheTypeOK
    <3> QED
      BY <3>1, <3>2
  <2>3. ASSUME NEW l \in Layouts PROVE AnswerInv(l)'
    BY <1>0, <1>3, AnswerUntouched
  <2>4. ValidatorsMatch'
    BY <1>0, <1>3 DEF ValidatorsMatch
  <2> QED
    BY <1>1, <1>3, <2>1, <2>2, <2>3, <2>4
<1>4. ASSUME NEW c \in Calls, NEW l \in Layouts, GetBegins(c, l) PROVE IInv'
  <2>0. calls' \in 0..MaxCalls /\ UNCHANGED <<offlineVars, env, clientVars, todo, reply, got, kept, events>>
    BY <1>0, <1>4 DEF GetBegins, CacheTypeOK
  <2>1. CASE offlineMode
    <3>1. /\ place' = [place EXCEPT ![c] = "lookup"] /\ layout' = [layout EXCEPT ![c] = l]
          /\ begun' = [begun EXCEPT ![c] = now] /\ UNCHANGED <<sent, seen, late>>
      BY <1>4, <2>1, Zenon DEF GetBegins, Goes
    <3>2. CacheTypeOK'
      BY <1>0, <2>0, <3>1 DEF CacheTypeOK, Places
    <3>3. /\ place'[c] = "lookup" /\ begun'[c] = now
          /\ \A d \in Calls : d # c => place'[d] = place[d] /\ layout'[d] = layout[d] /\ begun'[d] = begun[d]
      BY <1>0, <3>1 DEF CacheTypeOK
    <3>4. \A d \in Calls, k \in Layouts : Backed(read'[d][k], files)
      BY <1>0, <2>0 DEF DiskInv, Backed
    <3> QED
      BY <1>3, <2>0, <3>1, <3>2, <3>3, <3>4
  <2>2. CASE ~offlineMode
    <3>1. Asks(c, l)
      BY <1>4, <2>2, Zenon DEF GetBegins
    <3> QED
      BY <1>2, <2>0, <3>1
  <2> QED
    BY <2>1, <2>2
<1>5. ASSUME NEW c \in Calls, RefreshBegins(c) PROVE IInv'
  <2>1. CacheTypeOK'
    BY <1>0, <1>5 DEF RefreshBegins, Goes, CacheTypeOK, Places
  <2> QED
    BY <1>0, <1>3, <1>5, <2>1 DEF RefreshBegins, Goes, CacheTypeOK, DiskInv
<1>6. ASSUME NEW c \in Calls, RefreshNext(c) PROVE IInv'
  <2>1. PICK l \in todo[c] : Asks(c, l)
    BY <1>6 DEF RefreshNext
  <2>2. l \in Layouts
    BY <1>0 DEF CacheTypeOK
  <2> QED
    BY <1>0, <1>2, <1>6, <2>1, <2>2 DEF RefreshNext, CacheTypeOK
<1>7. ASSUME NEW c \in Calls, ServerAnswers(c) PROVE IInv'
  <2>1. PICK answer \in Reply : Answers(c, answer) /\ answer.kind \in {"same", "full", "unsupported"}
             /\ (answer.kind # "unsupported" => answer.value = Current)
             /\ (answer.kind = "same" => sent[c] = Current)
    <3>1. Current \in Value
      BY <1>0 DEF Current, Value, CacheTypeOK
    <3>2. CASE Answers(c, [kind |-> IF sent[c] = Current THEN "same" ELSE "full", value |-> Current])
      BY <3>1, <3>2 DEF Reply
    <3>3. CASE Answers(c, [kind |-> "unsupported", value |-> Nothing])
      BY <3>3 DEF Reply
    <3> QED
      BY <1>7, <3>2, <3>3 DEF ServerAnswers
  <2>2. /\ place[c] = "request" /\ reply' = [reply EXCEPT ![c] = answer] /\ place' = [place EXCEPT ![c] = "reply"]
        /\ UNCHANGED <<offlineVars, env, clientVars, layout, todo, begun, sent, seen, got, late, kept, calls, events>>
    BY <1>7, <2>1 DEF ServerAnswers, Answers, Goes
  <2>3. CacheTypeOK'
    BY <1>0, <2>2 DEF CacheTypeOK, Places
  <2>4. ValidatorsMatch' /\ DiskInv'
    BY <1>0, <2>2, DiskUntouched DEF ValidatorsMatch, CacheTypeOK
  <2>5. ASSUME NEW d \in Calls PROVE CallInv(d)'
    <3>1. CASE d = c
      <4>1. Current \in Value /\ Current.at = now /\ Current.account = account /\ Current # Nothing
        BY <1>0, NothingAssumption DEF Current, Value, CacheTypeOK
      <4>2. place'[c] = "reply" /\ reply'[c] = answer
        BY <1>0, <2>2 DEF CacheTypeOK
      <4> QED
        BY <1>0, <2>1, <2>2, <3>1, <4>1, <4>2 DEF CallInv, HasAnswer, Held, CacheTypeOK
    <3>2. CASE d # c
      BY <1>0, <2>2, <3>2, CallUntouched DEF CacheTypeOK
    <3> QED
      BY <3>1, <3>2
  <2>6. ASSUME NEW l \in Layouts PROVE AnswerInv(l)'
    BY <1>0, <2>2, AnswerUntouched
  <2> QED
    BY <1>1, <2>3, <2>4, <2>5, <2>6
<1>8. ASSUME NEW c \in Calls, RequestFails(c) PROVE IInv'
  <2>1. CacheTypeOK'
    BY <1>0, <1>8, DoneTo DEF RequestFails, CacheTypeOK
  <2> QED
    BY <1>0, <1>3, <1>8, <2>1, DoneTo DEF RequestFails, CacheTypeOK, DiskInv
\* An answer arrives: it is stored, confirmed, or there is none.
<1>9. ASSUME NEW c \in Calls, Arrives(c) PROVE IInv'
  <2>0. /\ place[c] = "reply"
        /\ UNCHANGED <<files, index, read, now, account, validators, offlineMode, layout, begun, sent, seen, reply, late,
                       kept, calls, events>>
    BY <1>9 DEF Arrives
  <2>1. CASE reply[c].kind = "full" /\ got' = [got EXCEPT ![c] = reply[c].value] /\ Goes(c, "file")
             /\ etags' = (IF validators THEN [etags EXCEPT ![layout[c]] = reply[c].value] ELSE etags)
             /\ metadata' = [metadata EXCEPT ![layout[c]] = reply[c].value] /\ UNCHANGED <<answers, todo>>
    <3>1. reply[c].value \in Value
      BY <1>0, <2>0, <2>1 DEF CallInv, HasAnswer
    <3>2. CacheTypeOK'
      BY <1>0, <2>0, <2>1, <3>1 DEF Goes, CacheTypeOK, Places, Maybe
    <3>3. ValidatorsMatch'
      BY <1>0, <2>0, <2>1 DEF ValidatorsMatch, CacheTypeOK
    <3>4. DiskInv'
      BY <1>0, <2>0, <2>1, DiskUntouched DEF Goes, CacheTypeOK
    <3>5. ASSUME NEW d \in Calls PROVE CallInv(d)'
      <4>1. CASE d = c
        BY <1>0, <2>0, <2>1, <4>1 DEF Goes, CacheTypeOK, CallInv, HasAnswer, Held
      <4>2. CASE d # c
        BY <1>0, <2>0, <2>1, <4>2, CallUntouched DEF Goes, CacheTypeOK
      <4> QED
        BY <4>1, <4>2
    <3>6. ASSUME NEW l \in Layouts PROVE AnswerInv(l)'
      BY <1>0, <2>0, <2>1, AnswerUntouched
    <3> QED
      BY <1>1, <3>2, <3>3, <3>4, <3>5, <3>6
  <2>2. CASE reply[c].kind = "same" /\ got' = [got EXCEPT ![c] = seen[c]] /\ Goes(c, "file")
             /\ UNCHANGED <<etags, metadata, answers, todo>>
    <3>1. CacheTypeOK'
      BY <1>0, <2>0, <2>2 DEF Goes, CacheTypeOK, Places
    <3>2. ValidatorsMatch'
      BY <1>0, <2>0, <2>2 DEF ValidatorsMatch
    <3>3. DiskInv'
      BY <1>0, <2>0, <2>2, DiskUntouched DEF Goes, CacheTypeOK
    <3>4. ASSUME NEW d \in Calls PROVE CallInv(d)'
      <4>1. CASE d = c
        BY <1>0, <2>0, <2>2, <4>1 DEF Goes, CacheTypeOK, CallInv, HasAnswer, Held
      <4>2. CASE d # c
        BY <1>0, <2>0, <2>2, <4>2, CallUntouched DEF Goes, CacheTypeOK
      <4> QED
        BY <4>1, <4>2
    <3>5. ASSUME NEW l \in Layouts PROVE AnswerInv(l)'
      BY <1>0, <2>0, <2>2, AnswerUntouched
    <3> QED
      BY <1>1, <3>1, <3>2, <3>3, <3>4, <3>5
  <2>3. CASE Done(c) /\ UNCHANGED <<etags, metadata, got>>
             /\ (IF Refreshing(c) THEN UNCHANGED answers ELSE Stores(c, Nothing, "server"))
    <3>1. /\ place' \in [Calls -> Places] /\ todo' \in [Calls -> SUBSET Layouts]
          /\ place'[c] \in {"idle", "list"} /\ \A d \in Calls : d # c => place'[d] = place[d]
      BY <1>0, <2>3, DoneTo
    <3>2. \/ UNCHANGED answers
          \/ answers' = [answers EXCEPT ![layout[c]] =
                           [value |-> Nothing, expires |-> Expiry(c), from |-> "server", late |-> c \in late]]
      BY <2>3 DEF Stores
    <3>3. [value |-> Nothing, expires |-> Expiry(c), from |-> "server", late |-> c \in late] \in Entry
      BY <1>0 DEF Entry, Maybe, Expiry, CacheTypeOK
    <3>4. answers' \in [Layouts -> Entry \cup {Nothing}]
      BY <1>0, <3>2, <3>3, SMTT(30) DEF CacheTypeOK
    <3>5. CacheTypeOK'
      BY <1>0, <2>0, <2>3, <3>1, <3>4 DEF CacheTypeOK
    <3>6. ValidatorsMatch' /\ DiskInv'
      BY <1>0, <2>0, <2>3, <3>1, DiskUntouched DEF ValidatorsMatch
    <3>7. ASSUME NEW d \in Calls PROVE CallInv(d)'
      <4>1. CASE d = c
        BY <1>0, <2>0, <3>1, <4>1, CallEnds DEF CallInv
      <4>2. CASE d # c
        BY <1>0, <2>0, <2>3, <3>1, <4>2, CallUntouched DEF CacheTypeOK
      <4> QED
        BY <4>1, <4>2
    <3>8. ASSUME NEW l \in Layouts PROVE AnswerInv(l)'
      <4>1. CASE answers'[l] = answers[l]
        BY <1>0, <2>0, <4>1, AnswerUntouched
      <4>2. CASE answers'[l] # answers[l]
        BY <1>0, <3>2, <4>2 DEF AnswerInv, CacheTypeOK
      <4> QED
        BY <4>1, <4>2
    <3> QED
      BY <1>1, <3>5, <3>6, <3>7, <3>8
  <2> QED
    BY <1>9, <2>1, <2>2, <2>3 DEF Arrives, Confirmed
\* A call that holds its answer moves on along the disk.
<1>10. ASSUME NEW c \in Calls, NEW from \in Held, NEW to \in Held, place[c] = from, Goes(c, to), CacheTypeOK', DiskInv',
              UNCHANGED <<env, clientVars, layout, begun, sent, seen, reply, got, late>>
       PROVE  IInv'
  <2>1. ValidatorsMatch'
    BY <1>0, <1>10 DEF ValidatorsMatch
  <2>2. ASSUME NEW d \in Calls PROVE CallInv(d)'
    <3>1. CASE d = c
      BY <1>0, <1>10, <3>1 DEF Goes, CacheTypeOK, CallInv, HasAnswer, Held
    <3>2. CASE d # c
      BY <1>0, <1>10, <3>2, CallUntouched DEF Goes, CacheTypeOK
    <3> QED
      BY <3>1, <3>2
  <2>3. ASSUME NEW l \in Layouts PROVE AnswerInv(l)'
    BY <1>0, <1>10, AnswerUntouched
  <2> QED
    BY <1>1, <1>10, <2>1, <2>2, <2>3
<1>11. ASSUME NEW c \in Calls, place[c] \in Held PROVE got[c] \in Value /\ File(layout[c], got[c]) \in MetadataFile
  BY <1>0, <1>11 DEF CallInv, HasAnswer, File, MetadataFile, CacheTypeOK
<1>12. ASSUME NEW c \in Calls, SavesFile(c) PROVE IInv'
  <2>1. File(layout[c], got[c]) \in MetadataFile
    BY <1>11, <1>12 DEF SavesFile, Held
  <2>2. /\ place[c] = "file" /\ files' = files \cup {File(layout[c], got[c])} /\ place' = [place EXCEPT ![c] = "index"]
        /\ UNCHANGED <<index, read, now, account, validators, offlineMode, etags, metadata, answers, layout, todo, begun,
                       sent, seen, reply, got, late, kept, calls, events>>
    BY <1>12 DEF SavesFile, WriteFile, Goes
  <2>3. CacheTypeOK'
    BY <1>0, <2>1, <2>2 DEF CacheTypeOK, Places, MetadataFile
  <2>4. DiskInv'
    BY <1>0, <2>2 DEF DiskInv, Backed, IndexNamesFiles, File, CacheTypeOK
  <2> QED
    BY <1>10, <2>2, <2>3, <2>4 DEF Goes, Held
<1>13. ASSUME NEW c \in Calls, ReadsIndex(c) PROVE IInv'
  <2>1. /\ place[c] = "index" /\ read' = [read EXCEPT ![c] = index.names] /\ place' = [place EXCEPT ![c] = "change"]
        /\ UNCHANGED <<files, index, now, account, validators, offlineMode, etags, metadata, answers, layout, todo, begun,
                       sent, seen, reply, got, late, kept, calls, events>>
    BY <1>13 DEF ReadsIndex, ReadIndex, Goes
  <2>2. CacheTypeOK'
    BY <1>0, <2>1 DEF CacheTypeOK, Places
  <2>3. DiskInv'
    BY <1>0, <2>1 DEF DiskInv, Backed, IndexNamesFiles, File, CacheTypeOK
  <2> QED
    BY <1>10, <2>1, <2>2, <2>3 DEF Goes, Held
<1>14. ASSUME NEW c \in Calls, OpensIndex(c) PROVE IInv'
  <2>1. /\ place[c] = "change" /\ index' = Torn /\ place' = [place EXCEPT ![c] = "write"]
        /\ UNCHANGED <<files, read, now, account, validators, offlineMode, etags, metadata, answers, layout, todo, begun,
                       sent, seen, reply, got, late, kept, calls, events>>
    BY <1>14 DEF OpensIndex, OpenIndex, Goes
  <2>2. CacheTypeOK'
    BY <1>0, <2>1 DEF CacheTypeOK, Places, Torn, Empty
  <2>3. DiskInv'
    BY <1>0, <2>1 DEF DiskInv, Backed, IndexNamesFiles, File, CacheTypeOK, Torn, Empty
  <2> QED
    BY <1>10, <2>1, <2>2, <2>3 DEF Goes, Held

\* The answer of a call is stored; nothing else of the caches changes.
<1>15. ASSUME NEW c \in Calls, NEW value \in Maybe, NEW from \in {"server", "disk"},
              UNCHANGED answers \/ Stores(c, value, from), CacheTypeOK', DiskInv',
              from = "server" => /\ place[c] \in Held /\ value = reply[c].value,
              UNCHANGED <<env, etags, metadata, layout, begun, sent, seen, reply, got, late>>,
              place'[c] \in {"idle", "list"}, \A d \in Calls : d # c => place'[d] = place[d]
       PROVE  IInv'
  <2>1. ValidatorsMatch'
    BY <1>0, <1>15 DEF ValidatorsMatch
  <2>2. ASSUME NEW d \in Calls PROVE CallInv(d)'
    <3>1. CASE d = c
      BY <1>0, <1>15, <3>1, CallEnds DEF CallInv
    <3>2. CASE d # c
      BY <1>0, <1>15, <3>2, CallUntouched DEF CacheTypeOK
    <3> QED
      BY <3>1, <3>2
  <2>3. ASSUME NEW l \in Layouts PROVE AnswerInv(l)'
    <3>1. CASE answers'[l] = answers[l]
      BY <1>0, <1>15, <3>1, AnswerUntouched
    <3>2. CASE answers'[l] # answers[l]
      <4>1. l = layout[c] /\ answers'[l] = [value |-> value, expires |-> begun[c] + Ttl, from |-> from, late |-> c \in late]
        BY <1>0, <1>15, <3>2 DEF Stores, Expiry, CacheTypeOK
      <4>2. CASE from = "disk"
        BY <4>1, <4>2 DEF AnswerInv
      <4>3. CASE from = "server"
        <5>1. value \in Value /\ begun[c] <= value.at /\ (c \notin late => value.account = account)
          BY <1>0, <1>15, <4>3 DEF CallInv, HasAnswer
        <5>2. begun[c] \in Int /\ value.at \in Int /\ Ttl \in Int
          BY <1>0, <5>1 DEF CacheTypeOK, Value
        <5>3. answers'[l].late = TRUE \/ value.account = account
          <6>1. CASE c \in late
            <7>1. answers'[l].late = (c \in late)
              BY <4>1
            <7> QED
              BY <6>1, <7>1, Zenon
          <6>2. CASE c \notin late
            BY <5>1, <6>2
          <6> QED
            BY <6>1, <6>2
        <5> QED
          BY <1>15, <4>1, <5>1, <5>2, <5>3 DEF AnswerInv
      <4> QED
        BY <4>2, <4>3
    <3> QED
      BY <3>1, <3>2
  <2> QED
    BY <1>1, <1>15, <2>1, <2>2, <2>3
<1>16. ASSUME NEW c \in Calls, NEW value \in Maybe, NEW from \in {"server", "disk"}, Stores(c, value, from)
       PROVE  answers' \in [Layouts -> Entry \cup {Nothing}]
  <2>1. [value |-> value, expires |-> Expiry(c), from |-> from, late |-> c \in late] \in Entry
    BY <1>0 DEF Entry, Expiry, CacheTypeOK
  <2> QED
    BY <1>0, <1>16, <2>1 DEF Stores, CacheTypeOK
<1>17. ASSUME NEW c \in Calls, WritesIndex(c) PROVE IInv'
  <2>1. /\ place[c] = "write" /\ Done(c)
        /\ UNCHANGED answers \/ Stores(c, got[c], "server")
        /\ index' \in {Whole(Unshifted(read[c], layout[c], got[c])), Torn}
        /\ kept' \subseteq Layouts
        /\ UNCHANGED <<files, read, now, account, validators, offlineMode, etags, metadata, layout, begun, sent, seen,
                       reply, got, late, calls, events>>
    BY <1>0, <1>17 DEF WritesIndex, WriteIndex, CacheTypeOK
  <2>2. got[c] \in Value /\ File(layout[c], got[c]) \in MetadataFile /\ got[c] = reply[c].value
    BY <1>0, <1>11, <2>1 DEF Held, CallInv
  <2>3. /\ place' \in [Calls -> Places] /\ todo' \in [Calls -> SUBSET Layouts]
        /\ place'[c] \in {"idle", "list"} /\ \A d \in Calls : d # c => place'[d] = place[d]
    BY <1>0, <2>1, DoneTo
  <2>4. index' \in [whole : BOOLEAN, names : [Layouts -> IndexItem \cup {Nothing}]]
    <3>1. Unshifted(read[c], layout[c], got[c]) \in [Layouts -> IndexItem \cup {Nothing}]
      <4>1. layout[c] \in Layouts /\ read[c] \in [Layouts -> IndexItem \cup {Nothing}]
        BY <1>0 DEF CacheTypeOK
      <4>2. Item(File(layout[c], got[c]), {}) \in IndexItem
        BY <2>2 DEF Item, IndexItem
      <4>3. ASSUME NEW l \in Layouts, read[c][l] # Nothing
            PROVE  Item(read[c][l].file, read[c][l].ahead \cup {layout[c]}) \in IndexItem
        BY <4>1, <4>3 DEF Item, IndexItem
      <4> QED
        BY <4>2, <4>3 DEF Unshifted, Fits
    <3>2. Empty \in [Layouts -> IndexItem \cup {Nothing}]
      BY DEF Empty
    <3>3. Torn \in [whole : BOOLEAN, names : [Layouts -> IndexItem \cup {Nothing}]]
      BY <3>2 DEF Torn
    <3>4. Whole(Unshifted(read[c], layout[c], got[c]))
            \in [whole : BOOLEAN, names : [Layouts -> IndexItem \cup {Nothing}]]
      BY <3>1 DEF Whole
    <3> QED
      BY <2>1, <3>3, <3>4
  <2>5. answers' \in [Layouts -> Entry \cup {Nothing}]
    BY <1>0, <1>16, <2>1, <2>2 DEF Maybe, CacheTypeOK
  <2>6. CacheTypeOK'
    BY <1>0, <2>1, <2>3, <2>4, <2>5 DEF CacheTypeOK, MetadataFile
  <2>7. DiskInv'
    <3>1. (\A l \in Layouts : Backed(read[c][l], files)) /\ File(layout[c], got[c]) \in files
      BY <1>0, <2>1 DEF DiskInv
    <3>2. IndexNamesFiles'
      <4>1. CASE index' = Torn
        BY <4>1 DEF IndexNamesFiles, Torn, Empty
      <4>2. CASE index'.names = Unshifted(read[c], layout[c], got[c])
        <5>1. ASSUME NEW l \in Layouts PROVE Backed(index'.names[l], files)
          BY <3>1, <4>2 DEF Unshifted, Fits, Item, Backed
        <5> QED
          BY <2>1, <5>1 DEF IndexNamesFiles, Backed
      <4> QED
        BY <2>1, <4>1, <4>2 DEF Whole
    <3> QED
      BY <1>0, <2>1, <2>3, <3>2 DEF DiskInv, Backed, File
  <2> QED
    BY <1>15, <2>1, <2>2, <2>3, <2>6, <2>7 DEF Held, Maybe
<1>18. ASSUME NEW c \in Calls, WriteFails(c) PROVE IInv'
  <2>1. /\ Done(c) /\ events' \in 0..MaxEvents /\ kept' \subseteq Layouts
        /\ UNCHANGED <<offlineVars, env, clientVars, layout, begun, sent, seen, reply, got, late, calls>>
    BY <1>0, <1>18 DEF WriteFails, CacheTypeOK
  <2>2. CacheTypeOK'
    BY <1>0, <2>1, DoneTo DEF CacheTypeOK
  <2> QED
    BY <1>0, <1>3, <2>1, <2>2, DoneTo DEF CacheTypeOK, DiskInv
<1>19. ASSUME NEW c \in Calls, LooksUp(c) PROVE IInv'
  <2>1. /\ read' = [read EXCEPT ![c] = index.names] /\ place' = [place EXCEPT ![c] = "load"]
        /\ UNCHANGED <<files, index, env, clientVars, layout, todo, begun, sent, seen, reply, got, late, kept, calls, events>>
    BY <1>19 DEF LooksUp, ReadIndex, Goes
  <2>2. CacheTypeOK'
    BY <1>0, <2>1 DEF CacheTypeOK, Places
  <2>3. \A d \in Calls, l \in Layouts : Backed(read'[d][l], files)
    BY <1>0, <2>1 DEF DiskInv, Backed, IndexNamesFiles, CacheTypeOK
  <2>4. place'[c] = "load" /\ \A d \in Calls : d # c => place'[d] = place[d]
    BY <1>0, <2>1 DEF CacheTypeOK
  <2> QED
    BY <1>3, <2>1, <2>2, <2>3, <2>4
<1>20. ASSUME NEW c \in Calls, Loads(c) PROVE IInv'
  <2> DEFINE value == Offline(c, layout[c])
  <2>1. /\ UNCHANGED answers \/ Stores(c, value, "disk")
        /\ place' = [place EXCEPT ![c] = "idle"]
        /\ UNCHANGED <<offlineVars, env, etags, metadata, layout, todo, begun, sent, seen, reply, got, late, kept, calls,
                       events>>
    BY <1>20 DEF Loads, Goes
  <2>2. value \in Maybe
    BY <1>0 DEF Offline, InIndex, Maybe, CacheTypeOK, IndexItem, MetadataFile
  <2>3. answers' \in [Layouts -> Entry \cup {Nothing}]
    BY <1>0, <1>16, <2>1, <2>2 DEF CacheTypeOK
  <2>4. CacheTypeOK'
    BY <1>0, <2>1, <2>3 DEF CacheTypeOK, Places
  <2>5. place'[c] = "idle" /\ \A d \in Calls : d # c => place'[d] = place[d]
    BY <1>0, <2>1 DEF CacheTypeOK
  <2>6. DiskInv'
    BY <1>0, <2>1, <2>5, DiskUntouched
  <2> QED
    BY <1>15, <2>1, <2>2, <2>4, <2>5, <2>6
<1>21. ASSUME Drops PROVE IInv'
  <2>1. /\ events' \in 0..MaxEvents /\ account' \in Accounts /\ etags' = Empty /\ metadata' = Empty /\ answers' = Empty
        /\ late' = {c \in Calls : place[c] # "idle"}
        /\ UNCHANGED <<files, index, read, now, validators, offlineMode, place, layout, todo, begun, sent, seen, reply, got,
                       kept, calls>>
    BY <1>0, <1>21 DEF Drops, Invalidates, CacheTypeOK
  <2>2. CacheTypeOK'
    BY <1>0, <2>1 DEF CacheTypeOK, Empty, Maybe
  <2>3. ValidatorsMatch' /\ DiskInv'
    BY <1>0, <2>1, DiskUntouched DEF ValidatorsMatch, Empty
  <2>4. \A c \in Calls : CallInv(c)'
    BY <1>0, <2>1 DEF CallInv, HasAnswer, Held
  <2>5. \A l \in Layouts : AnswerInv(l)'
    BY <2>1 DEF AnswerInv, Empty
  <2> QED
    BY <1>1, <2>2, <2>3, <2>4, <2>5
<1>22. ASSUME ToggleOffline PROVE IInv'
  <2>1. /\ events' \in 0..MaxEvents /\ offlineMode' = ~offlineMode
        /\ UNCHANGED <<offlineVars, now, account, validators, clientVars, callVars, late, kept, calls>>
    BY <1>0, <1>22 DEF ToggleOffline, CacheTypeOK
  <2>2. CacheTypeOK'
    BY <1>0, <2>1 DEF CacheTypeOK
  <2>3. ValidatorsMatch' /\ DiskInv' /\ \A c \in Calls : CallInv(c)'
    BY <1>0, <2>1, DiskUntouched, CallUntouched DEF ValidatorsMatch
  <2>4. \A l \in Layouts : AnswerInv(l)'
    BY <1>0, <2>1, AnswerUntouched
  <2> QED
    BY <1>1, <2>2, <2>3, <2>4
<1>23. ASSUME TimePasses PROVE IInv'
  <2>1. /\ now' = now + 1 /\ now' \in 0..MaxTime
        /\ UNCHANGED <<offlineVars, account, validators, offlineMode, clientVars, callVars, late, kept, calls, events>>
    BY <1>0, <1>23 DEF TimePasses, CacheTypeOK
  <2>2. CacheTypeOK'
    BY <1>0, <2>1 DEF CacheTypeOK
  <2>3. ValidatorsMatch' /\ DiskInv'
    BY <1>0, <2>1, DiskUntouched DEF ValidatorsMatch
  <2>4. ASSUME NEW c \in Calls PROVE CallInv(c)'
    <3>1. begun'[c] <= now'
      BY <1>0, <2>1 DEF CallInv, CacheTypeOK
    <3> QED
      BY <1>0, <2>1, <3>1 DEF CallInv, HasAnswer
  <2>5. ASSUME NEW l \in Layouts PROVE AnswerInv(l)'
    BY <1>0, <2>1, AnswerUntouched
  <2> QED
    BY <1>1, <2>2, <2>3, <2>4, <2>5
<1>24. ASSUME Reload PROVE IInv'
  <2>1. /\ events' \in 0..MaxEvents /\ etags' = Empty /\ metadata' = Empty /\ answers' = Empty
        /\ place' = [c \in Calls |-> "idle"] /\ todo' = [c \in Calls |-> {}] /\ kept' \subseteq Layouts
        /\ UNCHANGED <<offlineVars, now, account, validators, offlineMode, layout, begun, sent, seen, reply, got, late, calls>>
    BY <1>0, <1>24 DEF Reload, Invalidates, CacheTypeOK
  <2>2. CacheTypeOK'
    BY <1>0, <2>1 DEF CacheTypeOK, Empty, Maybe, Places
  <2>3. ValidatorsMatch' /\ DiskInv'
    BY <1>0, <2>1, DiskUntouched DEF ValidatorsMatch, Empty
  <2>4. \A c \in Calls : CallInv(c)'
    BY <1>0, <2>1, CallEnds DEF CallInv
  <2>5. \A l \in Layouts : AnswerInv(l)'
    BY <2>1 DEF AnswerInv, Empty
  <2> QED
    BY <1>1, <2>2, <2>3, <2>4, <2>5
<1>25. CASE UNCHANGED vars
  <2>1. CacheTypeOK' /\ ValidatorsMatch'
    BY <1>0, <1>25 DEF CacheTypeOK, ValidatorsMatch, vars
  <2>2. DiskInv' /\ (\A c \in Calls : CallInv(c)') /\ \A l \in Layouts : AnswerInv(l)'
    BY <1>0, <1>25, DiskUntouched, CallUntouched, AnswerUntouched DEF vars
  <2> QED
    BY <1>1, <2>1, <2>2
<1> QED
  BY <1>4, <1>5, <1>6, <1>7, <1>8, <1>9, <1>12, <1>13, <1>14, <1>17, <1>18, <1>19, <1>20, <1>21, <1>22, <1>23, <1>24, <1>25
  DEF Next, CallStep

\* IInv is inductive, so every state the program reaches satisfies it.
LEMMA Invariance == Spec => []IInv
  BY InvInit, InvNext, PTL DEF Spec

-----------------------------------------------------------------------------
(***************************************************************************)
(* Offline mode: a call that began under it knows when it began, and what  *)
(* it reads from the disk is given no longer than one time to live after   *)
(* that, even if the mode is off by then.                                  *)
(***************************************************************************)
OfflineInv ==
    /\ PastTypeOK
    /\ lastOffline <= now /\ (offlineMode = TRUE => lastOffline = now)
    /\ \A c \in Calls : place[c] \in {"lookup", "load"} => begun[c] <= lastOffline
    /\ \A l \in Layouts : answers[l] # Nothing /\ answers[l].from = "disk" => answers[l].expires <= lastOffline + Ttl

\* A step by which no call begins under offline mode and nothing is read from the disk.
LEMMA OfflineFramed ==
  ASSUME IInv, OfflineInv, PastTypeOK', UNCHANGED <<now, offlineMode, lastOffline>>,
         \A c \in Calls : place'[c] \in {"lookup", "load"} =>
           place[c] \in {"lookup", "load"} /\ begun'[c] = begun[c],
         \A l \in Layouts : answers'[l] = answers[l] \/ answers'[l] = Nothing \/ answers'[l].from = "server"
  PROVE  OfflineInv'
  BY DEF OfflineInv

\* The history of a step: what it adds stays in its type.
LEMMA PastNext == ASSUME IInv, OfflineInv, [Next]_vars PROVE PastTypeOK'
<1> USE DEF history, counters
<1>1. PastTypeOK /\ CacheTypeOK
  BY DEF IInv, OfflineInv
<1>2. CASE UNCHANGED <<newer, lastOffline, toggles>>
  BY <1>1, <1>2 DEF PastTypeOK
<1>3. ASSUME NEW c \in Calls, WritesIndex(c) PROVE PastTypeOK'
  <2>1. layout[c] \in Layouts /\ UNCHANGED <<lastOffline, toggles>>
        /\ newer' = [l \in Layouts |-> IF l = layout[c] THEN {} ELSE newer[l] \cup {layout[c]}]
    BY <1>1, <1>3 DEF WritesIndex, CacheTypeOK
  <2> QED
    BY <1>1, <2>1 DEF PastTypeOK
<1>4. CASE ToggleOffline
  <2>1. now \in Int /\ UNCHANGED newer /\ lastOffline' = now /\ toggles < MaxToggles /\ toggles' = toggles + 1
    BY <1>1, <1>4 DEF ToggleOffline, CacheTypeOK
  <2> QED
    BY <1>1, <2>1, CacheAssumption DEF PastTypeOK
<1>5. CASE TimePasses
  <2>1. now \in Int /\ now' = now + 1 /\ UNCHANGED <<newer, toggles>> /\ lastOffline' \in {now', lastOffline}
    BY <1>1, <1>5 DEF TimePasses, CacheTypeOK
  <2> QED
    BY <1>1, <2>1 DEF PastTypeOK
<1>6. ASSUME NEW c \in Calls, \/ \E l \in Layouts : GetBegins(c, l)
                              \/ RefreshBegins(c) \/ RefreshNext(c) \/ ServerAnswers(c) \/ RequestFails(c)
                              \/ Arrives(c) \/ SavesFile(c) \/ ReadsIndex(c) \/ OpensIndex(c) \/ WriteFails(c)
                              \/ LooksUp(c) \/ Loads(c)
      PROVE  UNCHANGED <<newer, lastOffline, toggles>>
  BY <1>6 DEF GetBegins, RefreshBegins, RefreshNext, ServerAnswers, RequestFails, Arrives, SavesFile, ReadsIndex,
              OpensIndex, WriteFails, LooksUp, Loads
<1>7. Drops \/ Reload => UNCHANGED <<newer, lastOffline, toggles>>
  BY DEF Drops, Reload
<1>8. UNCHANGED vars => UNCHANGED <<newer, lastOffline, toggles>>
  BY DEF vars
<1> QED
  BY <1>2, <1>3, <1>4, <1>5, <1>6, <1>7, <1>8 DEF Next, CallStep

LEMMA OfflineNext == ASSUME IInv, OfflineInv, [Next]_vars PROVE OfflineInv'
<1> USE CacheAssumption DEF env, clientVars, callVars, history, counters
<1>0. PastTypeOK'
  BY PastNext
<1>1. CacheTypeOK /\ PastTypeOK
  BY DEF IInv, OfflineInv
<1>2. ASSUME NEW c \in Calls, NEW l \in Layouts, GetBegins(c, l) PROVE OfflineInv'
  <2>1. UNCHANGED <<now, offlineMode, lastOffline, answers>>
    BY <1>2 DEF GetBegins
  <2>2. CASE offlineMode
    <3>1. place' = [place EXCEPT ![c] = "lookup"] /\ begun' = [begun EXCEPT ![c] = now]
      BY <1>2, <2>2, Zenon DEF GetBegins, Goes
    <3>2. lastOffline = now
      BY <2>2, Zenon DEF OfflineInv
    <3>3. \A d \in Calls : place'[d] \in {"lookup", "load"} => begun'[d] <= lastOffline
      BY <1>1, <3>1, <3>2 DEF OfflineInv, CacheTypeOK
    <3> QED
      BY <1>0, <2>1, <3>3 DEF OfflineInv
  <2>3. CASE ~offlineMode
    <3>1. place' = [place EXCEPT ![c] = "request"] /\ begun' = [begun EXCEPT ![c] = now]
      BY <1>2, <2>3, Zenon DEF GetBegins, Asks, Goes
    <3> QED
      BY <1>0, <1>1, <2>1, <3>1, OfflineFramed DEF CacheTypeOK
  <2> QED
    BY <2>2, <2>3
<1>3. ASSUME NEW c \in Calls, RefreshNext(c) PROVE OfflineInv'
  <2>1. /\ place' = [place EXCEPT ![c] = "request"] /\ begun' = [begun EXCEPT ![c] = now]
        /\ UNCHANGED <<now, offlineMode, lastOffline, answers>>
    BY <1>3 DEF RefreshNext, Asks, Goes
  <2> QED
    BY <1>0, <1>1, <2>1, OfflineFramed DEF CacheTypeOK
\* The other steps of a call online.
<1>4. ASSUME NEW c \in Calls, \/ RefreshBegins(c) \/ ServerAnswers(c) \/ RequestFails(c) \/ SavesFile(c)
                              \/ ReadsIndex(c) \/ OpensIndex(c) \/ WriteFails(c)
      PROVE  OfflineInv'
  <2>1. UNCHANGED <<now, offlineMode, lastOffline, answers, begun>>
    BY <1>4 DEF RefreshBegins, ServerAnswers, RequestFails, SavesFile, ReadsIndex, OpensIndex, WriteFails
  <2>2. \E where \in Places \ {"lookup", "load"} : place' = [place EXCEPT ![c] = where]
    BY <1>4 DEF RefreshBegins, ServerAnswers, RequestFails, SavesFile, ReadsIndex, OpensIndex, WriteFails,
                Answers, Done, Goes, Places
  <2> QED
    BY <1>0, <1>1, <2>1, <2>2, OfflineFramed DEF CacheTypeOK
\* What a call has from the server enters the cache.
<1>5. ASSUME NEW c \in Calls, NEW value, UNCHANGED answers \/ Stores(c, value, "server"),
             UNCHANGED <<now, offlineMode, lastOffline, begun>>,
             \E where \in Places \ {"lookup", "load"} : place' = [place EXCEPT ![c] = where]
      PROVE  OfflineInv'
  <2>1. \A l \in Layouts : answers'[l] = answers[l] \/ answers'[l].from = "server"
    BY <1>1, <1>5 DEF Stores, CacheTypeOK
  <2> QED
    BY <1>0, <1>1, <1>5, <2>1, OfflineFramed DEF CacheTypeOK
<1>6. ASSUME NEW c \in Calls, Arrives(c) PROVE OfflineInv'
  <2>1. UNCHANGED answers \/ Stores(c, Nothing, "server")
    BY <1>6 DEF Arrives
  <2>2. \E where \in Places \ {"lookup", "load"} : place' = [place EXCEPT ![c] = where]
    BY <1>6 DEF Arrives, Done, Goes, Places
  <2>3. UNCHANGED <<now, offlineMode, lastOffline, begun>>
    BY <1>6 DEF Arrives
  <2> QED
    BY <1>5, <2>1, <2>2, <2>3
<1>7. ASSUME NEW c \in Calls, WritesIndex(c) PROVE OfflineInv'
  <2>1. UNCHANGED answers \/ Stores(c, got[c], "server")
    BY <1>7 DEF WritesIndex
  <2>2. \E where \in Places \ {"lookup", "load"} : place' = [place EXCEPT ![c] = where]
    BY <1>7 DEF WritesIndex, Done, Goes, Places
  <2>3. UNCHANGED <<now, offlineMode, lastOffline, begun>>
    BY <1>7 DEF WritesIndex
  <2> QED
    BY <1>5, <2>1, <2>2, <2>3
<1>8. ASSUME NEW c \in Calls, LooksUp(c) PROVE OfflineInv'
  <2>1. /\ place[c] = "lookup" /\ place' = [place EXCEPT ![c] = "load"]
        /\ UNCHANGED <<now, offlineMode, lastOffline, answers, begun>>
    BY <1>8 DEF LooksUp, Goes
  <2> QED
    BY <1>0, <1>1, <2>1, OfflineFramed DEF CacheTypeOK
<1>9. ASSUME NEW c \in Calls, Loads(c) PROVE OfflineInv'
  <2>1. /\ place[c] = "load" /\ place' = [place EXCEPT ![c] = "idle"]
        /\ UNCHANGED <<now, offlineMode, lastOffline, begun>>
        /\ UNCHANGED answers \/ Stores(c, Offline(c, layout[c]), "disk")
    BY <1>9 DEF Loads, Goes
  <2>2. \A d \in Calls : place'[d] \in {"lookup", "load"} => begun'[d] <= lastOffline
    BY <1>1, <2>1 DEF OfflineInv, CacheTypeOK
  <2>3. begun[c] <= lastOffline /\ begun[c] \in Int /\ lastOffline \in Int
    BY <1>1, <2>1 DEF OfflineInv, CacheTypeOK, PastTypeOK
  <2>4. ASSUME NEW l \in Layouts, answers'[l] # Nothing, answers'[l].from = "disk"
        PROVE  answers'[l].expires <= lastOffline + Ttl
    <3>1. CASE answers'[l] = answers[l]
      BY <2>4, <3>1 DEF OfflineInv
    <3>2. CASE answers'[l] # answers[l]
      <4>1. answers'[l].expires = begun[c] + Ttl
        BY <1>1, <2>1, <3>2 DEF Stores, Expiry, CacheTypeOK
      <4> QED
        BY <2>3, <4>1
    <3> QED
      BY <3>1, <3>2
  <2> QED
    BY <1>0, <2>1, <2>2, <2>4 DEF OfflineInv
<1>10. ASSUME Drops \/ Reload PROVE OfflineInv'
  <2>1. /\ UNCHANGED <<now, offlineMode, lastOffline, begun>> /\ answers' = Empty
        /\ \A c \in Calls : place'[c] \in {place[c], "idle"}
    BY <1>1, <1>10 DEF Drops, Reload, Invalidates, CacheTypeOK
  <2>2. \A l \in Layouts : answers'[l] = Nothing
    BY <2>1 DEF Empty
  <2>3. \A c \in Calls : place'[c] \in {"lookup", "load"} =>
          place[c] \in {"lookup", "load"} /\ begun'[c] = begun[c]
    BY <2>1
  <2> QED
    BY <1>0, <2>1, <2>2, <2>3, OfflineFramed
\* The clock of offline mode moves, never back.
<1>11. ASSUME lastOffline' >= lastOffline, lastOffline' <= now', offlineMode' = TRUE => lastOffline' = now',
              UNCHANGED <<place, begun, answers>>
       PROVE  OfflineInv'
  <2>1. lastOffline \in Int /\ lastOffline' \in Int
    BY <1>0, <1>1 DEF PastTypeOK
  <2>2. \A c \in Calls : begun[c] \in Int
    BY <1>1 DEF CacheTypeOK
  <2>3. \A c \in Calls : place[c] \in {"lookup", "load"} => begun[c] <= lastOffline'
    BY <1>11, <2>1, <2>2 DEF OfflineInv
  <2>4. ASSUME NEW l \in Layouts, answers[l] # Nothing, answers[l].from = "disk"
        PROVE  answers[l].expires <= lastOffline' + Ttl
    <3>1. answers[l].expires \in Int
      BY <1>1, <2>4 DEF CacheTypeOK, Entry
    <3>2. answers[l].expires <= lastOffline + Ttl
      BY <2>4 DEF OfflineInv
    <3> QED
      BY <1>11, <2>1, <3>1, <3>2
  <2> QED
    BY <1>0, <1>11, <2>3, <2>4 DEF OfflineInv
<1>12. ASSUME ToggleOffline PROVE OfflineInv'
  <2>1. lastOffline' = now /\ now' = now /\ UNCHANGED <<place, begun, answers>>
    BY <1>12 DEF ToggleOffline
  <2>2. lastOffline <= now /\ now \in Int /\ lastOffline \in Int
    BY <1>1 DEF OfflineInv, CacheTypeOK, PastTypeOK
  <2> QED
    BY <1>11, <2>1, <2>2
<1>13. ASSUME TimePasses PROVE OfflineInv'
  <2>1. now' = now + 1 /\ offlineMode' = offlineMode /\ UNCHANGED <<place, begun, answers>>
    BY <1>13 DEF TimePasses
  <2>2. lastOffline <= now /\ now \in Int /\ lastOffline \in Int
    BY <1>1 DEF OfflineInv, CacheTypeOK, PastTypeOK
  <2>3. CASE offlineMode
    <3>1. lastOffline' = now'
      BY <1>13, <2>3, Zenon DEF TimePasses
    <3> QED
      BY <1>11, <2>1, <2>2, <3>1
  <2>4. CASE ~offlineMode
    <3>1. lastOffline' = lastOffline
      BY <1>13, <2>4, Zenon DEF TimePasses
    <3>2. offlineMode' # TRUE
      BY <2>1, <2>4, Zenon
    <3>3. offlineMode' = TRUE => lastOffline' = now'
      BY <3>2, Zenon
    <3>4. lastOffline' >= lastOffline /\ lastOffline' <= now'
      BY <2>1, <2>2, <3>1
    <3> QED
      BY <1>11, <2>1, <3>3, <3>4
  <2> QED
    BY <2>3, <2>4
<1>14. CASE UNCHANGED vars
  <2>1. UNCHANGED <<now, offlineMode, lastOffline, place, begun, answers>>
    BY <1>14 DEF vars
  <2> QED
    BY <1>0, <2>1, OfflineFramed
<1> QED
  BY <1>2, <1>3, <1>4, <1>6, <1>7, <1>8, <1>9, <1>10, <1>12, <1>13, <1>14 DEF Next, CallStep

LEMMA OfflineInit == ASSUME Init PROVE OfflineInv
<1> USE CacheAssumption DEF Init
<1>1. PastTypeOK
  BY DEF PastTypeOK
<1>2. offlineMode # TRUE
  BY Zenon
<1>3. \A l \in Layouts : answers[l] = Nothing
  BY DEF Empty
<1> QED
  BY <1>1, <1>2, <1>3 DEF OfflineInv

LEMMA OfflineInvariance == Spec => [](IInv /\ OfflineInv)
<1>1. Init => IInv /\ OfflineInv
  BY InvInit, OfflineInit
<1>2. IInv /\ OfflineInv /\ [Next]_vars => (IInv /\ OfflineInv)'
  BY InvNext, OfflineNext
<1> QED
  BY <1>1, <1>2, PTL DEF Spec

-----------------------------------------------------------------------------
(***************************************************************************)
(* Every variable of the caches and of the calls keeps its type.           *)
(***************************************************************************)
THEOREM CacheTypes == Spec => []TypeOK
<1>1. IInv /\ OfflineInv => TypeOK
  BY DEF IInv, OfflineInv, TypeOK
<1> QED
  BY <1>1, OfflineInvariance, PTL

(***************************************************************************)
(* The offline index names only files that are there, with what it says of *)
(* them, whatever breaks off or overlaps: a call holds an index it read    *)
(* earlier, and files are only added.                                      *)
(***************************************************************************)
THEOREM IndexIsBacked == Spec => []IndexNamesFiles
<1>1. IInv => IndexNamesFiles
  BY DEF IInv, DiskInv
<1> QED
  BY <1>1, Invariance, PTL

\* An answer given from the cache, by where it comes from.
LEMMA GivenAnswer ==
  ASSUME IInv, OfflineInv, NEW l \in Layouts, Valid(l), answers[l].value # Nothing
  PROVE  \/ FromDisk(l)
         \/ /\ now - answers[l].value.at < Ttl
            /\ answers[l].late = TRUE \/ answers[l].value.account = account
<1>1. answers[l] \in Entry /\ answers[l].value \in Value /\ now < answers[l].expires
  BY DEF IInv, CacheTypeOK, Valid, Entry, Maybe
<1>2. /\ answers[l].value.at \in Int /\ answers[l].expires \in Int /\ now \in Int /\ Ttl \in Int
      /\ lastOffline \in Int
  BY <1>1, CacheAssumption DEF IInv, CacheTypeOK, OfflineInv, PastTypeOK, Entry, Value
<1>3. CASE answers[l].from = "disk"
  <2>1. answers[l].expires <= lastOffline + Ttl
    BY <1>1, <1>3 DEF OfflineInv, Valid
  <2> QED
    BY <1>1, <1>2, <1>3, <2>1 DEF FromDisk
<1>4. CASE answers[l].from = "server"
  <2>1. /\ answers[l].expires <= answers[l].value.at + Ttl
        /\ answers[l].late = TRUE \/ answers[l].value.account = account
    BY <1>1, <1>4 DEF IInv, AnswerInv, Valid
  <2> QED
    BY <1>1, <1>2, <2>1
<1> QED
  BY <1>1, <1>3, <1>4 DEF Entry

(***************************************************************************)
(* What the schema service still gives was current less than its time to   *)
(* live ago, except what it read from the disk, and that is gone once      *)
(* offline mode has been off for one time to live.  An entry expires by    *)
(* the time the call began: the server answered after that, and a call     *)
(* that reads the disk began while the mode was on.                        *)
(***************************************************************************)
THEOREM OldIsFromDisk == Spec => []OldOnlyFromDisk
<1>1. IInv /\ OfflineInv => OldOnlyFromDisk
  BY GivenAnswer DEF OldOnlyFromDisk
<1> QED
  BY <1>1, OfflineInvariance, PTL

(***************************************************************************)
(* "Not modified" gives the metadata the server confirmed: validator and   *)
(* metadata are read in one turn, and the validators in the cache belong   *)
(* to the metadata beside them.                                            *)
(***************************************************************************)
THEOREM ConfirmedIsCurrent == Spec => []NotModifiedMeansCurrent
<1>1. IInv => NotModifiedMeansCurrent
  BY DEF IInv, CallInv, NotModifiedMeansCurrent, Held
<1> QED
  BY <1>1, Invariance, PTL

(***************************************************************************)
(* An answer of another account is given only if its call was under way    *)
(* when the caches were dropped, or if offline mode read it from the disk  *)
(* and has not been off for one time to live since.                        *)
(***************************************************************************)
THEOREM ForeignIsExplained == Spec => []ForeignIsLateOrFromDisk
<1>1. IInv /\ OfflineInv => ForeignIsLateOrFromDisk
  <2>1. SUFFICES ASSUME IInv, OfflineInv, NEW l \in Layouts, Valid(l), answers[l].value # Nothing
                 PROVE  answers[l].value.account = account \/ answers[l].late \/ FromDisk(l)
    BY DEF ForeignIsLateOrFromDisk
  <2>2. FromDisk(l) \/ answers[l].late = TRUE \/ answers[l].value.account = account
    BY <2>1, GivenAnswer
  <2> QED
    BY <2>2, Zenon
<1> QED
  BY <1>1, OfflineInvariance, PTL
-----------------------------------------------------------------------------
(***************************************************************************)
(* The offline index keeps what it has room for: a call changes the index  *)
(* it read, and in that every kept layout has only newer ones ahead of it, *)
(* unless another call is writing.                                         *)
(***************************************************************************)
HasRoom(l) == Cardinality(newer[l]) < MaxIndexed
Found(items, l) == items[l] # Nothing /\ items[l].ahead \subseteq newer[l]
Changing(c) == place[c] \in {"change", "write"}

KeptInv ==
    /\ (\A c \in Calls : place[c] # "write") => \A l \in kept : HasRoom(l) => Found(index.names, l)
    /\ \A c \in Calls : Changing(c) =>
         \/ \E d \in Calls \ {c} : place[d] = "write"
         \/ \A l \in kept : HasRoom(l) => Found(read[c], l)

\* A step that moves no call into or out of a change of the index.
LEMMA KeptFramed ==
  ASSUME KeptInv, UNCHANGED <<index, kept, newer>>,
         \A c \in Calls : \/ place'[c] = place[c] /\ read'[c] = read[c]
                          \/ ~Changing(c) /\ ~Changing(c)'
  PROVE  KeptInv'
<1>1. \A c \in Calls : place'[c] = "write" <=> place[c] = "write"
  BY DEF Changing
<1>2. (\A c \in Calls : place'[c] # "write") => \A l \in kept' : HasRoom(l)' => Found(index.names, l)'
  BY <1>1 DEF KeptInv, HasRoom, Found
<1>3. ASSUME NEW c \in Calls, Changing(c)'
      PROVE  \/ \E d \in Calls \ {c} : place'[d] = "write"
             \/ \A l \in kept' : HasRoom(l)' => Found(read[c], l)'
  BY <1>1, <1>3 DEF KeptInv, Changing, HasRoom, Found
<1> QED
  BY <1>2, <1>3 DEF KeptInv

LEMMA KeptNext == ASSUME IInv, OfflineInv, KeptInv, [Next]_vars PROVE KeptInv'
<1> USE DEF offlineVars, history
<1>1. /\ place \in [Calls -> Places] /\ layout \in [Calls -> Layouts] /\ kept \subseteq Layouts
      /\ read \in [Calls -> [Layouts -> IndexItem \cup {Nothing}]]
      /\ index.names \in [Layouts -> IndexItem \cup {Nothing}]
      /\ todo \in [Calls -> SUBSET Layouts]
  BY DEF IInv, CacheTypeOK, MetadataFile
<1> USE <1>1
<1>2. ASSUME NEW c \in Calls, \/ \E l \in Layouts : GetBegins(c, l)
                              \/ RefreshBegins(c) \/ RefreshNext(c) \/ ServerAnswers(c) \/ RequestFails(c)
                              \/ Arrives(c) \/ SavesFile(c) \/ Loads(c)
      PROVE  KeptInv'
  <2>1. UNCHANGED <<index, read, kept, newer>>
    BY <1>2 DEF GetBegins, RefreshBegins, RefreshNext, ServerAnswers, RequestFails, Arrives, SavesFile, WriteFile,
                Loads
  <2>2. place[c] \in {"idle", "list", "request", "reply", "file", "load"}
    BY <1>2 DEF GetBegins, RefreshBegins, RefreshNext, ServerAnswers, RequestFails, Arrives, SavesFile, Loads
  <2>3. \E where \in {"idle", "list", "lookup", "request", "reply", "file", "index"} :
           place' = [place EXCEPT ![c] = where]
    <3>1. CASE \E l \in Layouts : GetBegins(c, l)
      <4>1. CASE offlineMode
        BY <3>1, <4>1, Zenon DEF GetBegins, Goes
      <4>2. CASE ~offlineMode
        BY <3>1, <4>2, Zenon DEF GetBegins, Asks, Goes
      <4> QED
        BY <4>1, <4>2
    <3>2. CASE ~\E l \in Layouts : GetBegins(c, l)
      BY <1>2, <3>2 DEF RefreshBegins, RefreshNext, ServerAnswers, RequestFails, Arrives, SavesFile, Loads,
                        Asks, Answers, Done, Goes
    <3> QED
      BY <3>1, <3>2
  <2> QED
    BY <2>1, <2>2, <2>3, KeptFramed DEF Changing
<1>3. ASSUME NEW c \in Calls, LooksUp(c) PROVE KeptInv'
  <2>1. /\ UNCHANGED <<index, kept, newer>> /\ place[c] = "lookup" /\ place' = [place EXCEPT ![c] = "load"]
        /\ read' = [read EXCEPT ![c] = index.names]
    BY <1>3 DEF LooksUp, ReadIndex, Goes
  <2> QED
    BY <2>1, KeptFramed DEF Changing
<1>4. ASSUME NEW c \in Calls, ReadsIndex(c) PROVE KeptInv'
  <2>1. /\ UNCHANGED <<index, kept, newer>> /\ place[c] = "index" /\ place' = [place EXCEPT ![c] = "change"]
        /\ read' = [read EXCEPT ![c] = index.names]
    BY <1>4 DEF ReadsIndex, ReadIndex, Goes
  <2>2. \A d \in Calls : place'[d] = "write" <=> place[d] = "write"
    BY <2>1
  <2>3. (\A d \in Calls : place'[d] # "write") => \A l \in kept' : HasRoom(l)' => Found(index.names, l)'
    BY <2>1, <2>2 DEF KeptInv, HasRoom, Found
  <2>4. ASSUME NEW d \in Calls, Changing(d)'
        PROVE  \/ \E e \in Calls \ {d} : place'[e] = "write"
               \/ \A l \in kept' : HasRoom(l)' => Found(read[d], l)'
    <3>1. CASE d = c
      <4>1. ASSUME \A e \in Calls \ {c} : place'[e] # "write" PROVE \A l \in kept : HasRoom(l) => Found(index.names, l)
        BY <2>1, <2>2, <4>1 DEF KeptInv
      <4>2. read'[c] = index.names
        BY <2>1
      <4> QED
        BY <2>1, <3>1, <4>1, <4>2 DEF HasRoom, Found
    <3>2. CASE d # c
      <4>1. read'[d] = read[d] /\ Changing(d)
        BY <2>1, <2>4, <3>2 DEF Changing
      <4> QED
        BY <2>1, <2>2, <4>1 DEF KeptInv, HasRoom, Found
    <3> QED
      BY <3>1, <3>2
  <2> QED
    BY <2>3, <2>4 DEF KeptInv
<1>5. ASSUME NEW c \in Calls, OpensIndex(c) PROVE KeptInv'
  <2>1. /\ UNCHANGED <<read, kept, newer>> /\ place[c] = "change" /\ place' = [place EXCEPT ![c] = "write"]
    BY <1>5 DEF OpensIndex, OpenIndex, Goes
  <2>2. ~\A d \in Calls : place'[d] # "write"
    BY <2>1
  <2>3. \A d \in Calls : Changing(d)' => Changing(d)
    BY <2>1 DEF Changing
  <2>4. \A d \in Calls : place[d] = "write" => place'[d] = "write"
    BY <2>1
  <2> QED
    BY <2>1, <2>2, <2>3, <2>4 DEF KeptInv, HasRoom, Found
<1>6. ASSUME NEW c \in Calls, WritesIndex(c) PROVE KeptInv'
  <2>1. /\ place[c] = "write" /\ Done(c) /\ WriteIndex(c, layout[c], got[c]) /\ read' = read
        /\ kept' = IF index.whole \/ AnotherWrites(c) THEN {} ELSE kept \cup {layout[c]}
        /\ newer' = [l \in Layouts |-> IF l = layout[c] THEN {} ELSE newer[l] \cup {layout[c]}]
    BY <1>6 DEF WritesIndex, WriteIndex
  <2>2. CASE kept' = {}
    BY <2>2 DEF KeptInv
  <2>3. CASE ~AnotherWrites(c) /\ ~index.whole /\ kept' = kept \cup {layout[c]}
    <3>1. index'.names = Unshifted(read[c], layout[c], got[c])
      BY <2>1, <2>3 DEF WriteIndex, Whole
    <3>6. \A l \in Layouts : IsFiniteSet(newer'[l])
      <4>1. \A l \in Layouts : newer'[l] \in SUBSET Layouts
        BY PastNext DEF PastTypeOK
      <4> QED
        BY <4>1, IndexAssumption, FS_Subset
    <3>2. Item(File(layout[c], got[c]), {}) # Nothing
      <4>1. got[c] \in Value
        BY <2>1 DEF IInv, CallInv, Held, HasAnswer
      <4>2. Item(File(layout[c], got[c]), {}) \in IndexItem
        BY <4>1 DEF File, Item, IndexItem, MetadataFile
      <4> QED
        BY <4>2, NothingAssumption
    <3>3. \A l \in kept : HasRoom(l) => Found(read[c], l)
      BY <2>1, <2>3 DEF KeptInv, Changing, AnotherWrites
    <3>4. ASSUME NEW l \in kept', HasRoom(l)' PROVE Found(index.names, l)'
      <4>1. CASE l = layout[c]
        BY <3>1, <3>2, <4>1 DEF Unshifted, Found, Item
      <4>2. CASE l # layout[c]
        <5>1. l \in kept /\ newer'[l] = newer[l] \cup {layout[c]}
          BY <2>1, <2>3, <4>2
        <5>2. Cardinality(newer'[l]) < MaxIndexed
          BY <3>4 DEF HasRoom
        <5>3. Cardinality(newer[l]) <= Cardinality(newer'[l])
          BY <3>6, <5>1, FS_Subset
        <5>4. HasRoom(l)
          <6>1. Cardinality(newer[l]) \in Nat /\ Cardinality(newer'[l]) \in Nat /\ MaxIndexed \in Nat
            BY <3>6, <5>1, IndexAssumption, FS_CardinalityType, FS_Subset
          <6> QED
            BY <5>2, <5>3, <6>1 DEF HasRoom
        <5>5. read[c][l] # Nothing /\ read[c][l].ahead \subseteq newer[l]
          BY <3>3, <5>1, <5>4 DEF Found
        <5>6. Fits(read[c][l], layout[c])
          <6>0. IsFiniteSet(newer'[l])
            BY <3>6, <5>1
          <6> DEFINE ahead == read[c][l].ahead \cup {layout[c]}
          <6>1. ahead \in SUBSET newer'[l]
            BY <5>1, <5>5
          <6> HIDE DEF ahead
          <6>2. Cardinality(ahead) <= Cardinality(newer'[l]) /\ IsFiniteSet(ahead)
            BY ONLY <6>0, <6>1, FS_Subset, Zenon
          <6>3. Cardinality(ahead) \in Nat /\ Cardinality(newer'[l]) \in Nat /\ MaxIndexed \in Nat
            BY ONLY <6>0, <6>2, IndexAssumption, FS_CardinalityType
          <6> USE DEF ahead
          <6> QED
            BY <5>2, <5>5, <6>2, <6>3 DEF Fits
        <5>7. index'.names[l] = Item(read[c][l].file, read[c][l].ahead \cup {layout[c]})
          <6>1. l \in Layouts
            BY <5>1
          <6> QED
            BY <3>1, <4>2, <5>6, <6>1 DEF Unshifted
        <5>8. index'.names[l] # Nothing
          <6>1. index'.names[l] \in IndexItem
            <7>1. read[c][l] \in IndexItem /\ layout[c] \in Layouts
              BY <5>1, <5>5
            <7> QED
              BY <5>7, <7>1 DEF Item, IndexItem
          <6> QED
            BY <6>1, NothingAssumption
        <5> QED
          BY <5>1, <5>5, <5>7, <5>8 DEF Found, Item
      <4> QED
        BY <4>1, <4>2
    <3>5. \A d \in Calls : ~Changing(d)'
      <4>1. place'[c] \in {"idle", "list"} /\ \A d \in Calls : d # c => place'[d] = place[d]
        BY <2>1, DoneTo DEF IInv
      <4> QED
        BY <2>3, <4>1 DEF AnotherWrites, Changing
    <3> QED
      BY <3>4, <3>5 DEF KeptInv
  <2> QED
    BY <2>1, <2>2, <2>3
<1>7. ASSUME NEW c \in Calls, WriteFails(c) PROVE KeptInv'
  <2>1. CASE place[c] = "write"
    <3>1. kept' = {}
      BY <1>7, <2>1 DEF WriteFails
    <3> QED
      BY <3>1 DEF KeptInv
  <2>2. CASE place[c] # "write"
    <3>1. UNCHANGED <<index, read, kept, newer>>
      BY <1>7, <2>2 DEF WriteFails
    <3>2. place'[c] \in {"idle", "list"} /\ \A d \in Calls : d # c => place'[d] = place[d]
      BY <1>7, DoneTo DEF WriteFails, IInv
    <3>3. \A d \in Calls : /\ place'[d] = "write" <=> place[d] = "write"
                           /\ Changing(d)' => Changing(d)
      BY <2>2, <3>2 DEF Changing
    <3> QED
      BY <3>1, <3>3 DEF KeptInv, HasRoom, Found
  <2> QED
    BY <2>1, <2>2
<1>8. ASSUME Drops \/ ToggleOffline \/ TimePasses PROVE KeptInv'
  BY <1>8, KeptFramed DEF Drops, ToggleOffline, TimePasses, callVars
<1>9. ASSUME Reload PROVE KeptInv'
  <2>1. /\ UNCHANGED index /\ \A c \in Calls : place'[c] = "idle"
        /\ kept' = {} \/ (UNCHANGED <<kept, newer>> /\ \A c \in Calls : place[c] # "write")
    BY <1>9 DEF Reload
  <2> QED
    BY <2>1 DEF KeptInv, Changing, HasRoom, Found
<1>10. CASE UNCHANGED vars
  BY <1>10, KeptFramed DEF vars, callVars
<1> QED
  BY <1>2, <1>3, <1>4, <1>5, <1>6, <1>7, <1>8, <1>9, <1>10 DEF Next, CallStep

(***************************************************************************)
(* A layout cached for offline use stays in the index until MaxIndexed     *)
(* others have been cached after it, unless two writes of the index        *)
(* overlap or one breaks off.  The layouts ahead of it in the list are     *)
(* among those cached after it, so the cut cannot reach it earlier.        *)
(***************************************************************************)
THEOREM CachedStaysFound == Spec => []KeptIsFound
<1>1. Init => IInv /\ OfflineInv /\ KeptInv
  BY InvInit, OfflineInit DEF Init, KeptInv, Changing
<1>2. IInv /\ OfflineInv /\ KeptInv /\ [Next]_vars => (IInv /\ OfflineInv /\ KeptInv)'
  BY InvNext, OfflineNext, KeptNext
<1>3. KeptInv => KeptIsFound
  BY DEF KeptInv, KeptIsFound, HasRoom, Found
<1> QED
  BY <1>1, <1>2, <1>3, PTL DEF Spec
=============================================================================
