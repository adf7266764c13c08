----------------------------- MODULE MCWorklog -----------------------------
(* Instances of Worklog for TLC: commands of two agents. *)
EXTENDS Worklog, TLC

CONSTANTS a1, a2, c1, c2, c3

TwoOfOne == c1 :> a1 @@ c2 :> a1 @@ c3 :> a2
Pair == c1 :> a1 @@ c2 :> a2
=============================================================================
