------------------------------- MODULE Outbox -------------------------------
(***************************************************************************)
(* The transactional realtime outbox, src/server/src/realtime-outbox.ts:   *)
(* rows committed with the mutation that caused them, and one dispatcher   *)
(* per server replica that leases a batch, publishes each row to Redis and *)
(* settles it.  A row number is its place in ORDER BY created_at, id.      *)
(*                                                                         *)
(* Time is abstracted to what the statements compare: a lease is live or   *)
(* has run out, a back-off is over or not (due), a row is within its 24    *)
(* hours or not (young).                                                   *)
(***************************************************************************)
EXTENDS Integers, FiniteSets

CONSTANTS
    Workers,        \* live dispatchers, one per server replica
    Rows,           \* outbox rows, numbered in (created_at, id) order
    BatchSize,      \* BATCH_SIZE
    MaxAttempts,    \* MAX_ATTEMPTS
    Nobody,         \* locked_by IS NULL
    Gone,           \* locked_by a process that no longer exists
    MaxOverruns,    \* bound: leases that run out under a working dispatcher
    MaxDbErrors,    \* bound: statements of the dispatcher that fail
    MaxCrashes      \* bound: replica crashes

ASSUME OutboxAssumption ==
    /\ Rows \subseteq Nat
    /\ BatchSize \in Nat \ {0} /\ MaxAttempts \in Nat \ {0}
    /\ MaxOverruns \in Nat /\ MaxDbErrors \in Nat /\ MaxCrashes \in Nat
    /\ Nobody \notin Workers /\ Gone \notin Workers /\ Nobody # Gone

VARIABLES
    row,        \* realtime_outbox: one record per row
    drain,      \* drain[w]: the statement drainRealtimeOutbox of w is at
    flights,    \* publications under way, those of abandoned drains too
    sent,       \* sent[r]: Redis accepted r at least once (ghost)
    faults      \* how much of each fault bound is used

vars == <<row, drain, flights, sent, faults>>

Flight == [w : Workers, r : Rows, n : Nat,
           pc : {"publish", "settle", "fail"}, current : BOOLEAN]

RowState == [st : {"none", "pending", "published", "discarded", "deleted"},
             lockedBy : Workers \cup {Nobody, Gone},
             lease : {"none", "live", "over"},
             due : BOOLEAN, young : BOOLEAN,
             attempts : Nat]

TypeOK ==
    /\ row \in [Rows -> RowState]
    /\ drain \in [Workers -> {"idle", "discard", "claim", "publish"}]
    /\ flights \in SUBSET Flight
    /\ sent \in [Rows -> BOOLEAN]
    /\ faults \in [overruns : Nat, db : Nat, crashes : Nat]

Init ==
    /\ row = [r \in Rows |-> [st |-> "none", lockedBy |-> Nobody, lease |-> "none",
                              due |-> TRUE, young |-> TRUE, attempts |-> 0]]
    /\ drain = [w \in Workers |-> "idle"]
    /\ flights = {}
    /\ sent = [r \in Rows |-> FALSE]
    /\ faults = [overruns |-> 0, db |-> 0, crashes |-> 0]

DbError ==
    /\ faults.db < MaxDbErrors
    /\ faults' = [faults EXCEPT !.db = @ + 1]

-----------------------------------------------------------------------------
\* enqueueBroadcast inside the caller's transaction, at its COMMIT.
Commit(r) ==
    /\ row[r].st = "none"
    /\ row' = [row EXCEPT ![r].st = "pending"]
    /\ UNCHANGED <<drain, flights, sent, faults>>

-----------------------------------------------------------------------------
\* A tick of an idle worker, and its first statement: rows whose retention is
\* over are deleted, none when the previous sweep is under a minute old.
Sweep(S) == [r \in Rows |-> IF r \in S THEN [row[r] EXCEPT !.st = "deleted"] ELSE row[r]]

CleanupTerminalRows(w) ==
    /\ drain[w] = "idle"
    /\ \E S \in SUBSET {r \in Rows : row[r].st \in {"published", "discarded"}} :
          row' = Sweep(S)
    /\ drain' = [drain EXCEPT ![w] = "discard"]
    /\ UNCHANGED <<flights, sent, faults>>

\* Mutant: the attempt limit is off by one.
BudgetSpentLate(r) ==
    /\ row[r].st = "pending"
    /\ row[r].attempts > MaxAttempts \/ ~row[r].young

BudgetSpent(r) ==
    /\ row[r].st = "pending"
    /\ row[r].attempts >= MaxAttempts \/ ~row[r].young

\* Mutant: the discard leaves the lease in place.
DiscardedUnderLease(r) == [row[r] EXCEPT !.st = "discarded"]

\* Takes leased rows too: the lease is cleared under the dispatcher that holds it.
Discarded(r) == [row[r] EXCEPT !.st = "discarded", !.lockedBy = Nobody, !.lease = "none"]

DiscardExpired(w) ==
    /\ drain[w] = "discard"
    /\ row' = [r \in Rows |-> IF BudgetSpent(r) THEN Discarded(r) ELSE row[r]]
    /\ drain' = [drain EXCEPT ![w] = "claim"]
    /\ UNCHANGED <<flights, sent, faults>>

\* Mutant: the claim does not look at locked_until.
ClaimableLeased ==
    {r \in Rows : /\ row[r].st = "pending" /\ row[r].due /\ row[r].young
                  /\ row[r].attempts < MaxAttempts}

Claimable ==
    {r \in Rows : /\ row[r].st = "pending" /\ row[r].due /\ row[r].young
                  /\ row[r].lease # "live"
                  /\ row[r].attempts < MaxAttempts}

\* ORDER BY created_at, id LIMIT BatchSize.
Batch == {r \in Claimable : Cardinality({q \in Claimable : q < r}) < BatchSize}

Leased(w, B) ==
    [r \in Rows |-> IF r \in B
                    THEN [row[r] EXCEPT !.lockedBy = w, !.lease = "live"]
                    ELSE row[r]]

\* Tells the publications of one row apart: between two claims of a row by one
\* dispatcher either the row was failed or a lease was overrun.
FreshNumber(r) == row[r].attempts + faults.overruns

ClaimBatch(w) ==
    /\ drain[w] = "claim"
    /\ row' = Leased(w, Batch)
    /\ flights' = flights \cup
          {[w |-> w, r |-> r, n |-> FreshNumber(r), pc |-> "publish", current |-> TRUE] :
              r \in Batch}
    /\ drain' = [drain EXCEPT ![w] = "publish"]
    /\ UNCHANGED <<sent, faults>>

\* One of the three statements fails, its effect lost or its answer lost: the
\* drain rejects.  A claim that took effect leaves leases nobody works on.
StatementFails(w) ==
    /\ DbError
    /\ drain[w] \in {"discard", "claim"}
    /\ \/ UNCHANGED row
       \/ drain[w] = "claim" /\ row' = Leased(w, Batch)
    /\ drain' = [drain EXCEPT ![w] = "idle"]
    /\ UNCHANGED <<flights, sent>>

-----------------------------------------------------------------------------
\* One element of the Promise.all.  publish may fail after Redis has taken the
\* event (the 2 s command timeout).
Publish(f) ==
    /\ f.pc = "publish"
    /\ \/ /\ sent' = [sent EXCEPT ![f.r] = TRUE]
          /\ \E pc \in {"settle", "fail"} :
                flights' = (flights \ {f}) \cup {[f EXCEPT !.pc = pc]}
       \/ /\ UNCHANGED sent
          /\ flights' = (flights \ {f}) \cup {[f EXCEPT !.pc = "fail"]}
    /\ UNCHANGED <<row, drain, faults>>

\* Mutant: no AND locked_by = $2.
HoldsAnyway(f) == row[f.r].st # "none"

\* WHERE id = $1 AND locked_by = $2: the lease may be another's, or over.
Holds(f) == row[f.r].lockedBy = f.w

Published(r) == [row[r] EXCEPT !.st = "published", !.lockedBy = Nobody, !.lease = "none"]

\* The back-off starts, whatever the delay.
Failed(r) == [row[r] EXCEPT !.attempts = @ + 1, !.due = FALSE,
                            !.lockedBy = Nobody, !.lease = "none"]

SetPublished(f) == row' = IF Holds(f) THEN [row EXCEPT ![f.r] = Published(f.r)] ELSE row

SetFailed(f) == row' = IF Holds(f) THEN [row EXCEPT ![f.r] = Failed(f.r)] ELSE row

MarkPublished(f) ==
    /\ f.pc = "settle"
    /\ \/ /\ SetPublished(f)
          /\ flights' = flights \ {f}
          /\ UNCHANGED faults
       \/ /\ DbError                \* throws, applied or not: on to markFailed
          /\ SetPublished(f) \/ UNCHANGED row
          /\ flights' = (flights \ {f}) \cup {[f EXCEPT !.pc = "fail"]}
    /\ UNCHANGED <<drain, sent>>

MarkFailed(f) ==
    /\ f.pc = "fail"
    /\ SetFailed(f)
    /\ flights' = flights \ {f}
    /\ UNCHANGED <<drain, sent, faults>>

\* markFailed throws inside the catch: the Promise.all rejects at once, the
\* worker is free for its next tick and the rest of the batch runs on.
MarkFailedThrows(f) ==
    /\ f.pc = "fail"
    /\ DbError
    /\ SetFailed(f) \/ UNCHANGED row
    /\ IF f.current
       THEN /\ drain' = [drain EXCEPT ![f.w] = "idle"]
            /\ flights' = {IF g.w = f.w THEN [g EXCEPT !.current = FALSE] ELSE g :
                              g \in flights \ {f}}
       ELSE UNCHANGED drain /\ flights' = flights \ {f}
    /\ UNCHANGED sent

FlightStep(f) == Publish(f) \/ MarkPublished(f) \/ MarkFailed(f) \/ MarkFailedThrows(f)

FinishDrain(w) ==
    /\ drain[w] = "publish"
    /\ ~ \E f \in flights : f.w = w /\ f.current
    /\ drain' = [drain EXCEPT ![w] = "idle"]
    /\ UNCHANGED <<row, flights, sent, faults>>

-----------------------------------------------------------------------------
\* The clock.  A lease runs out under a dispatcher still working on the row
\* only when a call hangs: that is bounded, the rest is not.
Working(r) == \E f \in flights : f.r = r /\ f.w = row[r].lockedBy

LeaseExpires(r) ==
    /\ row[r].lease = "live" /\ ~Working(r)
    /\ row' = [row EXCEPT ![r].lease = "over"]
    /\ UNCHANGED <<drain, flights, sent, faults>>

LeaseOverrun(r) ==
    /\ row[r].lease = "live" /\ Working(r)
    /\ faults.overruns < MaxOverruns
    /\ row' = [row EXCEPT ![r].lease = "over"]
    /\ faults' = [faults EXCEPT !.overruns = @ + 1]
    /\ UNCHANGED <<drain, flights, sent>>

BackoffElapses(r) ==
    /\ ~row[r].due
    /\ row' = [row EXCEPT ![r].due = TRUE]
    /\ UNCHANGED <<drain, flights, sent, faults>>

AgesOut(r) ==
    /\ row[r].st = "pending" /\ row[r].young
    /\ row' = [row EXCEPT ![r].young = FALSE]
    /\ UNCHANGED <<drain, flights, sent, faults>>

\* The process dies and its replacement draws a fresh workerId: leases stay in
\* the name of a process that will never settle them.
Crash(w) ==
    /\ faults.crashes < MaxCrashes
    /\ faults' = [faults EXCEPT !.crashes = @ + 1]
    /\ flights' = {f \in flights : f.w # w}
    /\ row' = [r \in Rows |-> IF row[r].lockedBy = w
                              THEN [row[r] EXCEPT !.lockedBy = Gone] ELSE row[r]]
    /\ drain' = [drain EXCEPT ![w] = "idle"]
    /\ UNCHANGED sent

-----------------------------------------------------------------------------
DrainStep(w) ==
    CleanupTerminalRows(w) \/ DiscardExpired(w) \/ ClaimBatch(w) \/ FinishDrain(w)

Next ==
    \/ \E r \in Rows : Commit(r)
    \/ \E w \in Workers : DrainStep(w) \/ StatementFails(w) \/ Crash(w)
    \/ \E f \in flights : FlightStep(f)
    \/ \E r \in Rows : LeaseExpires(r) \/ LeaseOverrun(r) \/ BackoffElapses(r) \/ AgesOut(r)

Spec == Init /\ [][Next]_vars

\* setInterval ticks every worker, every awaited call returns, clocks advance.
\* Nothing obliges a row to commit, to age out, or anything to go wrong.
Fairness ==
    /\ \A w \in Workers : WF_vars(DrainStep(w))
    /\ \A w \in Workers, r \in Rows : WF_vars(\E f \in flights : f.w = w /\ f.r = r /\ FlightStep(f))
    /\ \A r \in Rows : WF_vars(LeaseExpires(r)) /\ WF_vars(BackoffElapses(r))

FairSpec == Spec /\ Fairness

-----------------------------------------------------------------------------
(* Properties *)

\* A flight that outlived its lease, or was overtaken by a discard, must not
\* move the row's attempt counter past the budget, and only a row that still
\* has budget is ever under lease.
AttemptBudget ==
    \A r \in Rows :
        /\ row[r].attempts <= MaxAttempts
        /\ row[r].lockedBy # Nobody =>
              row[r].st = "pending" /\ row[r].attempts < MaxAttempts

\* SKIP LOCKED and the lease keep dispatchers off each other's rows: a row has
\* more than one publication under way only if a lease ran out under the first,
\* one more for each such overrun.
OnePublisherPerLease ==
    \A r \in Rows : Cardinality({f \in flights : f.r = r}) <= 1 + faults.overruns

\* Every committed event is eventually settled: published or discarded, whatever
\* replica crashed, lease ran out or statement failed on the way.
EveryEventSettles ==
    \A r \in Rows : row[r].st = "pending" ~> row[r].st \in {"published", "discarded", "deleted"}

\* The outbox implements at-least-once delivery with a final verdict.
PhaseOf == [none |-> "absent", pending |-> "queued", published |-> "acked",
            discarded |-> "dropped", deleted |-> "forgotten"]

Delivery == INSTANCE EventDelivery WITH
    Events <- Rows, phase <- [r \in Rows |-> PhaseOf[row[r].st]], sent <- sent

ImplementsDelivery == Delivery!DSpec
=============================================================================
