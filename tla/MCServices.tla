----------------------------- MODULE MCServices -----------------------------
(***************************************************************************)
(* Instances for TLC of the services that share no state: a behaviour runs *)
(* one of them, the part, and leaves the others at their initial state.    *)
(***************************************************************************)
EXTENDS MCWorklog, Documents, RoutingClaims

CONSTANTS b1, b2, b3
RoomOrder == <<b1, b2, b3>>

VARIABLE part

\* Whatever is proposed and whoever is busy, the election has one result.
ASSUME ElectionAssumption ==
    \A proposal \in Room \cup {NoProposal}, busy \in SUBSET Recipients :
        Cardinality(ElectLineup(proposal, busy)) = 1

allVars == <<part, vars, claimVars, docVars>>

ServicesInit ==
    /\ part \in {"worklog", "claims", "docs"}
    /\ Init /\ ClaimsInit /\ DocInit

ServicesNext ==
    \/ part = "worklog" /\ Next /\ UNCHANGED <<part, claimVars, docVars>>
    \/ part = "claims" /\ ClaimsNext /\ UNCHANGED <<part, vars, docVars>>
    \/ part = "docs" /\ DocNext /\ UNCHANGED <<part, vars, claimVars>>

WorklogFairness ==
    /\ WF_vars(part = "worklog" /\ Tick)
    /\ \A c \in Procs : WF_vars(part = "worklog" /\ Advance(c))

RoutingFairness == WF_claimVars(part = "claims" /\ Progress)

Services ==
    /\ ServicesInit /\ [][ServicesNext]_allVars
    /\ WorklogFairness /\ RoutingFairness

\* The state of every part has its type.
ServicesTypeOK == TypeOK /\ ClaimsTypeOK /\ DocTypeOK
=============================================================================
