------------------------------ MODULE MCOutbox ------------------------------
(* Instance of Outbox for TLC. *)
EXTENDS Outbox, TLC

Replicas == Permutations(Workers)

\* A crash by itself, or a lease that runs out under its flight and a statement that fails.
CrashAlone == faults.crashes = 0 \/ faults.overruns + faults.db = 0
=============================================================================
