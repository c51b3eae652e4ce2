--------------------------- MODULE MCAiToolSession ---------------------------
(* Instances of AiToolSession for TLC. *)
EXTENDS AiToolSession, TLC

Names == Permutations(Calls) \cup Permutations(Layouts)

\* A value nobody reads any more does not tell two states apart.
While(f, places, rest) == [c \in Calls |-> IF place[c] \in places THEN f[c] ELSE rest]
ToolView ==
    << policy, session, dialogs, place, reservation, history,
       While(kind, Places \ {"idle", "over"}, "find"), While(layout, Places \ {"idle", "over"}, NoPrompt),
       While(aborted, Places \ {"over"}, FALSE),
       While(waits, {"consent"}, NoPrompt), While(since, {"consent"}, 0) >>
=============================================================================
