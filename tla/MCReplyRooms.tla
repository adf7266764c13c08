---------------------------- MODULE MCReplyRooms ----------------------------
(***************************************************************************)
(* Two instances of ReplyGate in one run of TLC: a room with the constants *)
(* of the configuration, and one agent over several turns, which use the   *)
(* same variables.  A behaviour is one of those in Parts.                  *)
(***************************************************************************)
EXTENDS MCReplyGate

CONSTANTS Parts, a3, a4, p3, y, z

VARIABLE part

Turns == INSTANCE ReplyGate WITH
    Agents <- {a3, a4}, Procs <- {p3}, Owner <- p3 :> a3, Bodies <- {y, z},
    Flags <- Continuing, HeldLimit <- 8, RunIdKnown <- TRUE,
    MaxLen <- 4, MaxTurns <- 2, MaxLooks <- 1,
    MaxLapses <- 0, MaxMoves <- 0, MaxGaps <- 0

RoomsInit ==
    /\ part \in Parts
    /\ (part = "room" /\ Init) \/ (part = "turns" /\ Turns!Init)

RoomsNext ==
    /\ UNCHANGED part
    /\ (part = "room" /\ Next) \/ (part = "turns" /\ Turns!Next)

Rooms == RoomsInit /\ [][RoomsNext]_<<part, vars>>

\* The fairness of ReplyGate.
FairRooms ==
    /\ Rooms
    /\ \A p \in Procs : /\ WF_vars(part = "room" /\ Advance(p))
                       /\ SF_vars(part = "room" /\ ClaimSequence(p))

RoomsSymmetric == {s @@ b : s \in {Same, Swap}, b \in Permutations({y, z})}
=============================================================================
