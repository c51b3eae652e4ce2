----------------------------- MODULE OfflineCache -----------------------------
(***************************************************************************)
(* The offline metadata cache (offline/offlineModeService.ts): one file    *)
(* for every layout read while online, and index.json, a list of items,    *)
(* newest first, with the newest file of each layout that is still in it.  *)
(* cacheLayoutMetadata writes the file, reads the index, changes it, cuts  *)
(* it at MaxIndexed items and writes it back, and other calls run between  *)
(* any two of these.  An item's place in the list is the set of layouts    *)
(* whose items are ahead of it.  fs.writeFile empties a file before it     *)
(* fills it, and the file that is left when two calls write it together    *)
(* need not be what either of them wrote.                                  *)
(***************************************************************************)
EXTENDS Integers, FiniteSets

CONSTANTS
    Calls,      \* calls of the program that may run at the same time
    Layouts,
    MaxIndexed, \* items the index keeps: 1000
    Nothing     \* no value

ASSUME IndexAssumption == MaxIndexed \in Nat \ {0} /\ IsFiniteSet(Layouts)

VARIABLES
    files,      \* metadata files on disk, each with its layout and content
    index,      \* index.json: whether it can be parsed, and the item of each layout
    read        \* what each call read from the index

offlineVars == <<files, index, read>>

Empty == [l \in Layouts |-> Nothing]
Torn == [whole |-> FALSE, names |-> Empty]
Whole(names) == [whole |-> TRUE, names |-> names]
File(l, value) == [layout |-> l, value |-> value]
Item(file, ahead) == [file |-> file, ahead |-> ahead]

InitOffline ==
    /\ files = {}
    /\ index = Whole(Empty)
    /\ read = [c \in Calls |-> Empty]

\* Mutant: a write that fails goes unnoticed.
WriteFileUnchecked(l, value) == files' \in {files, files \cup {File(l, value)}} /\ UNCHANGED <<index, read>>
WriteFile(l, value) == files' = files \cup {File(l, value)} /\ UNCHANGED <<index, read>>

\* readIndex: an index that is missing or cannot be parsed is an empty one.
ReadIndex(c) == read' = [read EXCEPT ![c] = index.names] /\ UNCHANGED <<files, index>>

OpenIndex(c) == index' = Torn /\ UNCHANGED <<files, read>>

\* Mutant: the index is written anew for every layout.
WriteIndexAlone(c, l, value) ==
    index' = Whole([Empty EXCEPT ![l] = Item(File(l, value), {})]) /\ UNCHANGED <<files, read>>

\* The item of l moves to the head of the list, and the list is cut.
Fits(item, l) == item # Nothing /\ Cardinality(item.ahead \cup {l}) < MaxIndexed
Unshifted(items, l, value) ==
    [m \in Layouts |->
        IF m = l THEN Item(File(l, value), {})
        ELSE IF Fits(items[m], l) THEN Item(items[m].file, items[m].ahead \cup {l})
        ELSE Nothing]

(***************************************************************************)
(* The index this call opened is Torn until somebody fills it: if it is    *)
(* not, another call has written in between, and its longer text may stick *)
(* out behind ours.                                                        *)
(***************************************************************************)
WriteIndex(c, l, value) ==
    LET mine == Whole(Unshifted(read[c], l, value))
    IN  /\ index' \in IF index.whole THEN {mine, Torn} ELSE {mine}
        /\ UNCHANGED <<files, read>>

InIndex(c, l) == read[c][l] # Nothing /\ read[c][l].file \in files

\* Mutant: the file's content as a whole instead of the metadata in it.
OfflineFile(c, l) == IF InIndex(c, l) THEN read[c][l].file ELSE Nothing

\* getCachedLayoutMetadata, once the index is read
Offline(c, l) == IF InIndex(c, l) THEN read[c][l].file.value ELSE Nothing

(***************************************************************************)
(* Whatever is interrupted, the index names only files that are there and  *)
(* hold what the index says (cacheLayoutMetadata writes the file first).   *)
(***************************************************************************)
IndexNamesFiles == \A l \in Layouts : index.names[l] # Nothing => index.names[l].file \in files
=============================================================================
