---------------------------- MODULE MCSchemaCache ----------------------------
(* Instances of SchemaCache for TLC. *)
EXTENDS SchemaCache, TLC

\* Calls, layouts and accounts differ only by their names.
Names == Permutations(Calls) \cup Permutations(Layouts) \cup Permutations(Accounts)

\* A value nobody reads any more does not tell two states apart.
While(f, places, rest) == [c \in Calls |-> IF place[c] \in places THEN f[c] ELSE rest]
Writing == {"file", "index", "change", "write"}
Named == {n.file : n \in ({index.names[l] : l \in Layouts} \cup {read[c][l] : c \in Calls, l \in Layouts}) \ {Nothing}}
CacheView ==
    << files \cap Named, index, While(read, {"change", "write", "load"}, Nothing),
       now, account, validators, offlineMode, etags, metadata, answers, place, todo,
       While(layout, Places \ {"idle", "list"}, Nothing),
       While(begun, Places \ {"idle", "list"}, 0),
       While(sent, {"request"}, Nothing), While(seen, {"request", "reply"}, Nothing),
       While(reply, {"reply"} \cup Writing, Nothing), While(got, Writing, Nothing),
       late \cap {c \in Calls : place[c] # "idle"}, kept, [l \in Layouts |-> IF l \in kept THEN newer[l] ELSE {}],
       lastOffline, counters >>
=============================================================================
