------------------------------- MODULE MCStores -------------------------------
(***************************************************************************)
(* What a window keeps between calls, for TLC: the caches of layout        *)
(* metadata and the saved queries.  The two share no state, so a behaviour *)
(* is one of theirs and the other stays as it was.  The caches are checked *)
(* twice: all of them with one layout, and the index of the offline cache  *)
(* with every layout, which do not fit in it, while the account, the clock *)
(* and offline mode stay as they are.                                      *)
(***************************************************************************)
EXTENDS MCSchemaCache, SavedQueries

VARIABLES
    part,
    used         \* the layouts of this behaviour

\* The part that does not move has one initial state.
StoresInit ==
    /\ part \in {"caches", "index", "queries"}
    /\ used \in SUBSET Layouts
    /\ IF part = "caches" THEN Cardinality(used) = 1 ELSE used = Layouts
    /\ Init /\ InitQueries
    /\ \A c \in Calls : layout[c] \in used
    /\ part # "queries" => \A s \in Scopes : memory[s].legacy = {}
    /\ part # "caches" => validators

WithinUsed == \A c \in Calls : layout'[c] \in used /\ todo'[c] \subseteq used

StoresNext ==
    /\ UNCHANGED <<part, used>>
    /\ \/ part = "caches" /\ Next /\ WithinUsed /\ UNCHANGED queryVars
       \/ part = "index" /\ UNCHANGED <<env, queryVars>> /\ Next
       \/ part = "queries" /\ QueriesNext /\ UNCHANGED vars

StoresSpec == StoresInit /\ [][StoresNext]_<<part, used, vars, queryVars>>

StoresView == <<part, used, CacheView, queryVars>>
Interchangeable == Names \cup Permutations(Ops)
=============================================================================
