---------------------------- MODULE MCBatchUpdate ----------------------------
(***************************************************************************)
(* Instances of BatchUpdate for TLC: files of up to three rows on two      *)
(* records.                                                                *)
(***************************************************************************)
EXTENDS BatchUpdate

CONSTANTS a, b   \* two records

Write(rec, check) == [record |-> rec, checked |-> check, kind |-> "edit"]
Nul(rec) == [record |-> rec, checked |-> TRUE, kind |-> "nul"]
Empty(rec) == [record |-> rec, checked |-> TRUE, kind |-> "empty"]

\* A checked row, its duplicate and an unchecked row; a row without values that
\* must not hide the row behind it; a row with NUL, which does hide it.
Triples == {
    <<Write(a, TRUE), Write(a, TRUE), Write(b, FALSE)>>,
    <<Empty(a), Write(a, TRUE), Write(b, TRUE)>>,
    <<Nul(a), Write(a, TRUE), Write(b, FALSE)>> }
=============================================================================
