---------------------------- MODULE MCReplyGate ----------------------------
(* Instances of ReplyGate for TLC: one command per agent, or two of one. *)
EXTENDS ReplyGate, TLC

CONSTANTS a1, a2, p1, p2

OnePerAgent == p1 :> a1 @@ p2 :> a2
Single == p1 :> a1
TwoOfOne == p1 :> a1 @@ p2 :> a1

Swap == a1 :> a2 @@ a2 :> a1 @@ p1 :> p2 @@ p2 :> p1
Same == a1 :> a1 @@ a2 :> a2 @@ p1 :> p1 @@ p2 :> p2

Continuing == {{}, {"continue"}}
Plain == {{}}
NoContinue == {{}, {"send-anyway"}}

\* At most two of the faults together, of whichever kinds.
TwoFaults == faults.lapses + faults.moves + faults.gaps <= 2
=============================================================================
