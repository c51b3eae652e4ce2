----------------------------- MODULE MCFMSession -----------------------------
(* Instances of FMSession for TLC: how often each event may happen. *)
EXTENDS FMSession, TLC

Once(S) == [e \in Events |-> IF e \in S THEN 1 ELSE 0]

Quiet == Once({})
Traffic == Once({"spurious", "loss"})
Credentials == Once({"admin", "save", "loss"})
Restart == Once({"restart"})
Spurious == Once({"spurious"})

RequestSymmetry == Permutations(Requests)
CredentialSymmetry == Permutations(Requests) \cup Permutations(Passwords)

(***************************************************************************)
(* Two states are the same to TLC when they differ only in values nothing   *)
(* reads any more: what a process saw once it acted on it, the details of a *)
(* sign-in that settled, how many tokens were issued and forgotten.         *)
(***************************************************************************)
Used(f, places) == [p \in Procs |-> IF pc[p] \in places THEN f[p] ELSE 0]
Running(f, rest) == [p \in Procs |-> IF step[p] = "idle" THEN rest ELSE f[p]]

Seen == Used(seen, {"ensure", "renew"})
Tok == Used(tok, {"sent", "renew", "awaitRenew", "again", "ensure"})
Target == Used(target, {"lookup", "ensure", "await", "sent"})

Flow ==
    << memory, stored, password, calls, pc, step, accepted, budget, Seen, Tok, Target,
       Used(tries, Steps \ Finished),
       Running(mode, "needed"), Running(old, 0), Running(stamp, None),
       Running(answer, "none"), Running(new, 0) >>

\* For the runs about sessions on the server.
OrphanView == << Flow, live, retiring, writtenOff \cap live >>

\* For the runs about rejected sign-ins: a session nobody can send is no matter.
Sendable == {stored} \cup {Seen[p] : p \in Procs} \cup {Tok[p] : p \in Procs}
            \cup {old[p] : p \in Procs} \cup {new[p] : p \in Procs}
LockoutView ==
    << Flow, rejections, live \cap Sendable, retiring \cap Sendable >>
=============================================================================
