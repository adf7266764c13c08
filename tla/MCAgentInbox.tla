--------------------------- MODULE MCAgentInbox ---------------------------
(* Instances of AgentInbox for TLC: a direct conversation and a group. *)
EXTENDS AgentInbox

CONSTANTS dm, group
=============================================================================
