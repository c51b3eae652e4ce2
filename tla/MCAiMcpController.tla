-------------------------- MODULE MCAiMcpController --------------------------
(***************************************************************************)
(* AiMcpController for TLC: the windows are interchangeable.               *)
(***************************************************************************)
EXTENDS AiMcpController, TLC

WindowSymmetry == Permutations(Windows)
=============================================================================
