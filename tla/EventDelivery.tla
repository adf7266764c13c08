--------------------------- MODULE EventDelivery ---------------------------
(***************************************************************************)
(* What the transactional realtime outbox promises to the code that        *)
(* enqueues an event (header of src/server/src/realtime-outbox.ts): an     *)
(* event exists once its transaction commits, it is delivered at least     *)
(* once before it is acknowledged, it is otherwise dropped explicitly, and *)
(* the verdict never changes.  Nothing is said of workers, leases, retries *)
(* or time: module Outbox implements them.                                 *)
(***************************************************************************)
CONSTANT Events

VARIABLES
    phase,      \* phase[e]: what became of event e
    sent        \* sent[e]: Redis accepted e at least once

dvars == <<phase, sent>>

Phases == {"absent", "queued", "acked", "dropped", "forgotten"}

DInit ==
    /\ phase = [e \in Events |-> "absent"]
    /\ sent = [e \in Events |-> FALSE]

Enqueue(e) ==
    /\ phase[e] = "absent"
    /\ phase' = [phase EXCEPT ![e] = "queued"]
    /\ UNCHANGED sent

\* A duplicate may still go out after the verdict: at-least-once, not exactly.
Deliver(e) ==
    /\ phase[e] # "absent"
    /\ sent' = [sent EXCEPT ![e] = TRUE]
    /\ UNCHANGED phase

Acknowledge(e) ==
    /\ phase[e] = "queued"
    /\ sent[e]
    /\ phase' = [phase EXCEPT ![e] = "acked"]
    /\ UNCHANGED sent

\* One sweep drops every event whose delivery budget is spent.
Drop(S) ==
    /\ \A e \in S : phase[e] = "queued"
    /\ phase' = [e \in Events |-> IF e \in S THEN "dropped" ELSE phase[e]]
    /\ UNCHANGED sent

Forget(S) ==
    /\ \A e \in S : phase[e] \in {"acked", "dropped"}
    /\ phase' = [e \in Events |-> IF e \in S THEN "forgotten" ELSE phase[e]]
    /\ UNCHANGED sent

DNext ==
    \/ \E e \in Events : Enqueue(e) \/ Deliver(e) \/ Acknowledge(e)
    \/ \E S \in SUBSET Events : Drop(S) \/ Forget(S)

DSpec == DInit /\ [][DNext]_dvars
=============================================================================
