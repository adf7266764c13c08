---------------------------- MODULE OutboxProofs ----------------------------
(***************************************************************************)
(* What the outbox guarantees for every number of dispatchers, rows,       *)
(* attempts and faults.                                                    *)
(***************************************************************************)
EXTENDS Outbox, FiniteSetTheorems, TLAPS

\* A flight names a committed row, and one about to settle has been sent.
FlightsSent ==
    \A f \in flights : row[f.r].st # "none" /\ (f.pc = "settle" => sent[f.r])

IInv == TypeOK /\ AttemptBudget /\ FlightsSent

\* The initial state has no committed row and no flight.
LEMMA InitIInv == Init => IInv
BY OutboxAssumption DEF Init, IInv, TypeOK, RowState, Flight, AttemptBudget, FlightsSent

\* Sets of rows that ClaimBatch leases have budget and are committed.
LEMMA BatchClaimable ==
    \A r \in Batch : r \in Rows /\ row[r].st = "pending" /\ row[r].attempts < MaxAttempts
BY DEF Batch, Claimable

\* The updates the statements make to a row keep its type.
LEMMA RowUpdates ==
    ASSUME NEW x \in RowState
    PROVE  /\ [x EXCEPT !.st = "discarded", !.lockedBy = Nobody, !.lease = "none"] \in RowState
           /\ [x EXCEPT !.st = "published", !.lockedBy = Nobody, !.lease = "none"] \in RowState
           /\ [x EXCEPT !.attempts = x.attempts + 1, !.due = FALSE, !.lockedBy = Nobody,
                         !.lease = "none"] \in RowState
           /\ \A w \in Workers : [x EXCEPT !.lockedBy = w, !.lease = "live"] \in RowState
           /\ [x EXCEPT !.lockedBy = Gone] \in RowState
           /\ [x EXCEPT !.lease = "over"] \in RowState
           /\ [x EXCEPT !.due = TRUE] \in RowState
           /\ [x EXCEPT !.young = FALSE] \in RowState
<1>1. x.attempts + 1 \in Nat
  BY DEF RowState
<1>2. [x EXCEPT !.attempts = x.attempts + 1, !.due = FALSE, !.lockedBy = Nobody,
                !.lease = "none"] \in RowState
  BY <1>1 DEF RowState
<1>3. [x EXCEPT !.st = "discarded", !.lockedBy = Nobody, !.lease = "none"] \in RowState
  BY DEF RowState
<1>4. [x EXCEPT !.st = "published", !.lockedBy = Nobody, !.lease = "none"] \in RowState
  BY DEF RowState
<1>5. \A w \in Workers : [x EXCEPT !.lockedBy = w, !.lease = "live"] \in RowState
  BY DEF RowState
<1>6. [x EXCEPT !.lockedBy = Gone] \in RowState
  BY DEF RowState
<1>7. /\ [x EXCEPT !.lease = "over"] \in RowState
      /\ [x EXCEPT !.due = TRUE] \in RowState
      /\ [x EXCEPT !.young = FALSE] \in RowState
  BY DEF RowState
<1> QED
  BY <1>2, <1>3, <1>4, <1>5, <1>6, <1>7

\* What moves a flight keeps its type.
LEMMA FlightUpdates ==
    ASSUME NEW f \in Flight
    PROVE  /\ f.w \in Workers /\ f.r \in Rows
           /\ \A pc \in {"settle", "fail"} : [f EXCEPT !.pc = pc] \in Flight
           /\ [f EXCEPT !.current = FALSE] \in Flight
BY DEF Flight

\* Types are kept by every step.
LEMMA TypeStep == TypeOK /\ [Next]_vars => TypeOK'
<1> SUFFICES ASSUME TypeOK, [Next]_vars PROVE TypeOK'
  OBVIOUS
<1> USE OutboxAssumption
<1>1. ASSUME NEW r \in Rows, Commit(r) PROVE TypeOK'
  BY <1>1 DEF TypeOK, RowState, Commit
<1>2. ASSUME NEW w \in Workers, CleanupTerminalRows(w) PROVE TypeOK'
  BY <1>2 DEF TypeOK, RowState, CleanupTerminalRows, Sweep
<1>3. ASSUME NEW w \in Workers, DiscardExpired(w) PROVE TypeOK'
  <2>1. \A r \in Rows : Discarded(r) \in RowState
    BY RowUpdates DEF TypeOK, Discarded
  <2> QED
    BY <1>3, <2>1 DEF TypeOK, DiscardExpired
<1>a. ASSUME NEW w \in Workers, NEW B PROVE Leased(w, B) \in [Rows -> RowState]
  <2>1. \A r \in Rows : [row[r] EXCEPT !.lockedBy = w, !.lease = "live"] \in RowState
    BY RowUpdates DEF TypeOK
  <2> QED
    BY <2>1 DEF TypeOK, Leased
<1>4. ASSUME NEW w \in Workers, ClaimBatch(w) PROVE TypeOK'
  <2>1. row' \in [Rows -> RowState]
    BY <1>4, <1>a DEF ClaimBatch
  <2>2. \A r \in Batch : FreshNumber(r) \in Nat
    <3>1. \A r \in Rows : row[r].attempts \in Nat
      BY DEF TypeOK, RowState
    <3>2. faults.overruns \in Nat
      BY DEF TypeOK
    <3>3. \A r \in Rows : FreshNumber(r) \in Nat
      BY <3>1, <3>2 DEF FreshNumber
    <3> QED
      BY <3>3, BatchClaimable
  <2>3. flights' \in SUBSET Flight
    <3>1. \A r \in Batch :
             [w |-> w, r |-> r, n |-> FreshNumber(r), pc |-> "publish", current |-> TRUE] \in Flight
      BY <2>2, BatchClaimable DEF Flight
    <3> QED
      BY <1>4, <3>1 DEF TypeOK, ClaimBatch
  <2> QED
    BY <1>4, <2>1, <2>3 DEF TypeOK, ClaimBatch
<1>5. ASSUME NEW w \in Workers, StatementFails(w) PROVE TypeOK'
  BY <1>5, <1>a DEF TypeOK, StatementFails, DbError
<1>6. ASSUME NEW w \in Workers, FinishDrain(w) PROVE TypeOK'
  BY <1>6 DEF TypeOK, FinishDrain
<1>7. ASSUME NEW w \in Workers, Crash(w) PROVE TypeOK'
  <2>1. row' \in [Rows -> RowState]
    BY <1>7, RowUpdates DEF TypeOK, Crash
  <2>2. flights' \in SUBSET Flight
    BY <1>7 DEF TypeOK, Crash
  <2>3. faults' \in [overruns : Nat, db : Nat, crashes : Nat]
    BY <1>7 DEF TypeOK, Crash
  <2> QED
    BY <1>7, <2>1, <2>2, <2>3 DEF TypeOK, Crash
<1>8. ASSUME NEW f \in flights, Publish(f) PROVE TypeOK'
  <2>1. f \in Flight /\ f.r \in Rows /\ (\A pc \in {"settle", "fail"} : [f EXCEPT !.pc = pc] \in Flight)
    BY FlightUpdates DEF TypeOK
  <2>2. flights' \in SUBSET Flight
    BY <1>8, <2>1 DEF TypeOK, Publish
  <2>3. sent' \in [Rows -> BOOLEAN]
    BY <1>8 DEF TypeOK, Publish
  <2> QED
    BY <1>8, <2>2, <2>3 DEF TypeOK, Publish
<1>9. ASSUME NEW f \in flights, MarkPublished(f) PROVE TypeOK'
  <2>1. SetPublished(f) => row' \in [Rows -> RowState]
    <3>1. f.r \in Rows /\ row[f.r] \in RowState
      BY FlightUpdates DEF TypeOK
    <3>2. Published(f.r) \in RowState
      BY <3>1, RowUpdates DEF Published
    <3>3. SetPublished(f) => UNCHANGED row \/ row' = [row EXCEPT ![f.r] = Published(f.r)]
      BY DEF SetPublished
    <3>4. row \in [Rows -> RowState]
      BY DEF TypeOK
    <3> QED
      BY <3>1, <3>2, <3>3, <3>4
  <2>2. flights' \in SUBSET Flight
    <3>1. f \in Flight /\ [f EXCEPT !.pc = "fail"] \in Flight
      BY FlightUpdates DEF TypeOK
    <3> QED
      BY <1>9, <3>1 DEF TypeOK, MarkPublished
  <2> QED
    BY <1>9, <2>1, <2>2 DEF TypeOK, MarkPublished, DbError
<1>10. ASSUME NEW f \in flights, SetFailed(f) PROVE row' \in [Rows -> RowState]
  <2>1. f.r \in Rows /\ row[f.r] \in RowState
    BY FlightUpdates DEF TypeOK
  <2>2. Failed(f.r) \in RowState
    BY <2>1, RowUpdates DEF Failed
  <2> QED
    BY <1>10, <2>1, <2>2 DEF TypeOK, SetFailed
<1>11. ASSUME NEW f \in flights, MarkFailed(f) PROVE TypeOK'
  BY <1>10, <1>11 DEF TypeOK, MarkFailed
<1>12. ASSUME NEW f \in flights, MarkFailedThrows(f) PROVE TypeOK'
  <2>1. row' \in [Rows -> RowState]
    BY <1>10, <1>12 DEF TypeOK, MarkFailedThrows
  <2>2. drain' \in [Workers -> {"idle", "discard", "claim", "publish"}]
    BY <1>12, FlightUpdates DEF TypeOK, MarkFailedThrows
  <2>3. flights' \in SUBSET Flight
    <3>1. \A g \in flights : g \in Flight /\ [g EXCEPT !.current = FALSE] \in Flight
      BY FlightUpdates DEF TypeOK
    <3> QED
      BY <1>12, <3>1 DEF TypeOK, MarkFailedThrows
  <2> QED
    BY <1>12, <2>1, <2>2, <2>3 DEF TypeOK, MarkFailedThrows, DbError
<1>13. ASSUME NEW r \in Rows, LeaseExpires(r) \/ BackoffElapses(r) \/ AgesOut(r)
       PROVE TypeOK'
  <2>1. row' \in [Rows -> RowState]
    <3>1. row[r] \in RowState
      BY DEF TypeOK
    <3>2. /\ [row[r] EXCEPT !.lease = "over"] \in RowState
          /\ [row[r] EXCEPT !.due = TRUE] \in RowState
          /\ [row[r] EXCEPT !.young = FALSE] \in RowState
      BY <3>1, RowUpdates
    <3> QED
      BY <1>13, <3>2 DEF TypeOK, LeaseExpires, BackoffElapses, AgesOut
  <2> QED
    BY <1>13, <2>1 DEF TypeOK, LeaseExpires, BackoffElapses, AgesOut
<1>14. ASSUME NEW r \in Rows, LeaseOverrun(r) PROVE TypeOK'
  <2>1. row' \in [Rows -> RowState]
    BY <1>14, RowUpdates DEF TypeOK, LeaseOverrun
  <2>2. faults' \in [overruns : Nat, db : Nat, crashes : Nat]
    BY <1>14 DEF TypeOK, LeaseOverrun
  <2> QED
    BY <1>14, <2>1, <2>2 DEF TypeOK, LeaseOverrun
<1>15. CASE UNCHANGED vars
  BY <1>15 DEF TypeOK, vars
<1> QED
  BY <1>1, <1>2, <1>3, <1>4, <1>5, <1>6, <1>7, <1>8, <1>9, <1>11, <1>12, <1>13, <1>14, <1>15
     DEF Next, DrainStep, FlightStep

\* Rows, drains and publications keep their types, whatever happens to leases.
THEOREM TypeCorrect == Spec => []TypeOK
<1>1. Init => TypeOK
  BY InitIInv DEF IInv
<1> QED
  BY <1>1, TypeStep, PTL DEF Spec
-----------------------------------------------------------------------------
\* Being within the budget is a property of one row.
Within(x) ==
    /\ x.attempts <= MaxAttempts
    /\ x.lockedBy # Nobody => x.st = "pending" /\ x.attempts < MaxAttempts

\* Every statement that touches a row keeps it within the budget.
LEMMA WithinUpdates ==
    ASSUME NEW x \in RowState, Within(x)
    PROVE  /\ Within([x EXCEPT !.st = "discarded", !.lockedBy = Nobody, !.lease = "none"])
           /\ Within([x EXCEPT !.st = "published", !.lockedBy = Nobody, !.lease = "none"])
           /\ x.lockedBy # Nobody =>
                Within([x EXCEPT !.attempts = x.attempts + 1, !.due = FALSE, !.lockedBy = Nobody,
                                 !.lease = "none"])
           /\ x.st = "pending" /\ x.attempts < MaxAttempts =>
                \A w \in Workers : Within([x EXCEPT !.lockedBy = w, !.lease = "live"])
           /\ x.lockedBy # Nobody => Within([x EXCEPT !.lockedBy = Gone])
           /\ Within([x EXCEPT !.lease = "over"])
           /\ Within([x EXCEPT !.due = TRUE])
           /\ Within([x EXCEPT !.young = FALSE])
           /\ x.st = "none" => Within([x EXCEPT !.st = "pending"])
           /\ x.st \in {"published", "discarded"} => Within([x EXCEPT !.st = "deleted"])
<1> USE OutboxAssumption
<1>1. x.attempts \in Nat /\ x.attempts <= MaxAttempts
  BY DEF RowState, Within
<1>2. /\ Within([x EXCEPT !.st = "discarded", !.lockedBy = Nobody, !.lease = "none"])
      /\ Within([x EXCEPT !.st = "published", !.lockedBy = Nobody, !.lease = "none"])
  BY DEF RowState, Within
<1>3. ASSUME x.lockedBy # Nobody
      PROVE  Within([x EXCEPT !.attempts = x.attempts + 1, !.due = FALSE, !.lockedBy = Nobody,
                              !.lease = "none"])
  <2>1. x.attempts + 1 <= MaxAttempts
    BY <1>1, <1>3 DEF Within
  <2> QED
    BY <2>1 DEF RowState, Within
<1>4. x.st = "pending" /\ x.attempts < MaxAttempts =>
        \A w \in Workers : Within([x EXCEPT !.lockedBy = w, !.lease = "live"])
  BY <1>1 DEF RowState, Within
<1>5. x.lockedBy # Nobody => Within([x EXCEPT !.lockedBy = Gone])
  BY DEF RowState, Within
<1>6. /\ Within([x EXCEPT !.lease = "over"])
      /\ Within([x EXCEPT !.due = TRUE])
      /\ Within([x EXCEPT !.young = FALSE])
  BY DEF RowState, Within
<1>7. x.st = "none" => Within([x EXCEPT !.st = "pending"])
  BY DEF RowState, Within
<1>8. x.st \in {"published", "discarded"} => Within([x EXCEPT !.st = "deleted"])
  BY DEF RowState, Within
<1> QED
  BY <1>2, <1>3, <1>4, <1>5, <1>6, <1>7, <1>8

\* A settling statement finds its worker's lease, and so a row with budget.
LEMMA SettleWithin ==
    ASSUME TypeOK, AttemptBudget, NEW f \in flights, SetPublished(f) \/ SetFailed(f)
    PROVE  \A r \in Rows : Within(row'[r])
<1> USE OutboxAssumption
<1>1. \A r \in Rows : row[r] \in RowState /\ Within(row[r])
  BY DEF TypeOK, AttemptBudget, Within
<1>2. f.r \in Rows /\ f.w \in Workers /\ row \in [Rows -> RowState]
  BY FlightUpdates DEF TypeOK
<1>3. CASE ~Holds(f)
  BY <1>1, <1>3 DEF SetPublished, SetFailed
<1>4. CASE Holds(f)
  <2>1. row[f.r].lockedBy # Nobody
    BY <1>2, <1>4 DEF Holds
  <2>2. Within(Published(f.r)) /\ Within(Failed(f.r))
    BY <1>1, <1>2, <2>1, WithinUpdates DEF Published, Failed
  <2>3. row' = [row EXCEPT ![f.r] = Published(f.r)] \/ row' = [row EXCEPT ![f.r] = Failed(f.r)]
    BY <1>4 DEF SetPublished, SetFailed
  <2>4. \A r \in Rows : row'[r] = row[r] \/ row'[r] = Published(f.r) \/ row'[r] = Failed(f.r)
    BY <1>2, <2>3
  <2> QED
    BY <1>1, <2>2, <2>4
<1> QED
  BY <1>3, <1>4

\* No step takes a row out of its budget.
LEMMA BudgetStep == TypeOK /\ AttemptBudget /\ [Next]_vars => AttemptBudget'
<1> SUFFICES ASSUME TypeOK, AttemptBudget, [Next]_vars PROVE \A r \in Rows : Within(row'[r])
  BY DEF AttemptBudget, Within
<1> USE OutboxAssumption
<1>1. \A r \in Rows : row[r] \in RowState /\ Within(row[r])
  BY DEF TypeOK, AttemptBudget, Within
<1>2. row \in [Rows -> RowState]
  BY DEF TypeOK
<1>3. ASSUME UNCHANGED row PROVE \A r \in Rows : Within(row'[r])
  BY <1>1, <1>3
<1>4. ASSUME NEW r \in Rows, Commit(r) PROVE \A q \in Rows : Within(row'[q])
  <2>1. row' = [row EXCEPT ![r] = [row[r] EXCEPT !.st = "pending"]] /\ row[r].st = "none"
    BY <1>4 DEF Commit
  <2>2. Within([row[r] EXCEPT !.st = "pending"])
    BY <1>1, <2>1, WithinUpdates
  <2> QED
    BY <1>1, <1>2, <2>1, <2>2
<1>5. ASSUME NEW w \in Workers, CleanupTerminalRows(w) PROVE \A q \in Rows : Within(row'[q])
  <2>1. PICK S \in SUBSET {r \in Rows : row[r].st \in {"published", "discarded"}} : row' = Sweep(S)
    BY <1>5 DEF CleanupTerminalRows
  <2>2. \A q \in Rows : row'[q] = row[q] \/ (q \in S /\ row'[q] = [row[q] EXCEPT !.st = "deleted"])
    BY <2>1 DEF Sweep
  <2>3. \A q \in S : Within([row[q] EXCEPT !.st = "deleted"])
    BY <1>1, WithinUpdates
  <2> SUFFICES ASSUME NEW q \in Rows PROVE Within(row'[q])
    OBVIOUS
  <2>4. CASE row'[q] = row[q]
    BY <1>1, <2>4
  <2>5. CASE q \in S /\ row'[q] = [row[q] EXCEPT !.st = "deleted"]
    <3>1. Within([row[q] EXCEPT !.st = "deleted"])
      BY <2>3, <2>5
    <3> QED
      BY <2>5, <3>1, Zenon
  <2> QED
    BY <2>2, <2>4, <2>5
<1>6. ASSUME NEW w \in Workers, DiscardExpired(w) PROVE \A q \in Rows : Within(row'[q])
  <2>1. \A q \in Rows : row'[q] = row[q] \/ row'[q] = Discarded(q)
    BY <1>6 DEF DiscardExpired
  <2>2. \A q \in Rows : Within(Discarded(q))
    BY <1>1, WithinUpdates DEF Discarded
  <2> QED
    BY <1>1, <2>1, <2>2
<1>7. ASSUME NEW w \in Workers, row' = Leased(w, Batch) PROVE \A q \in Rows : Within(row'[q])
  <2>1. \A q \in Rows :
           \/ row'[q] = row[q]
           \/ q \in Batch /\ row'[q] = [row[q] EXCEPT !.lockedBy = w, !.lease = "live"]
    BY <1>7 DEF Leased
  <2>2. \A q \in Batch : Within([row[q] EXCEPT !.lockedBy = w, !.lease = "live"])
    BY <1>1, BatchClaimable, WithinUpdates
  <2> SUFFICES ASSUME NEW q \in Rows PROVE Within(row'[q])
    OBVIOUS
  <2>3. CASE row'[q] = row[q]
    BY <1>1, <2>3
  <2>4. CASE q \in Batch /\ row'[q] = [row[q] EXCEPT !.lockedBy = w, !.lease = "live"]
    <3>1. Within([row[q] EXCEPT !.lockedBy = w, !.lease = "live"])
      BY <2>2, <2>4
    <3> QED
      BY <2>4, <3>1, Zenon
  <2> QED
    BY <2>1, <2>3, <2>4
<1>8. ASSUME NEW f \in flights, FlightStep(f) PROVE \A q \in Rows : Within(row'[q])
  <2>1. UNCHANGED row \/ SetPublished(f) \/ SetFailed(f)
    BY <1>8 DEF FlightStep, Publish, MarkPublished, MarkFailed, MarkFailedThrows
  <2> QED
    BY <1>3, <2>1, SettleWithin
<1>9. ASSUME NEW w \in Workers, Crash(w) PROVE \A q \in Rows : Within(row'[q])
  <2>1. \A q \in Rows :
           \/ row'[q] = row[q]
           \/ row[q].lockedBy = w /\ row'[q] = [row[q] EXCEPT !.lockedBy = Gone]
    BY <1>9 DEF Crash
  <2>2. \A q \in Rows : row[q].lockedBy = w => Within([row[q] EXCEPT !.lockedBy = Gone])
    BY <1>1, WithinUpdates
  <2> QED
    BY <1>1, <2>1, <2>2
<1>10. ASSUME NEW r \in Rows, LeaseExpires(r) \/ LeaseOverrun(r) \/ BackoffElapses(r) \/ AgesOut(r)
       PROVE  \A q \in Rows : Within(row'[q])
  <2>1. \/ row' = [row EXCEPT ![r] = [row[r] EXCEPT !.lease = "over"]]
        \/ row' = [row EXCEPT ![r] = [row[r] EXCEPT !.due = TRUE]]
        \/ row' = [row EXCEPT ![r] = [row[r] EXCEPT !.young = FALSE]]
    BY <1>10 DEF LeaseExpires, LeaseOverrun, BackoffElapses, AgesOut
  <2>2. /\ Within([row[r] EXCEPT !.lease = "over"])
        /\ Within([row[r] EXCEPT !.due = TRUE])
        /\ Within([row[r] EXCEPT !.young = FALSE])
    BY <1>1, WithinUpdates
  <2> QED
    BY <1>1, <1>2, <2>1, <2>2
<1>11. ASSUME NEW w \in Workers, DrainStep(w) \/ StatementFails(w) PROVE \A q \in Rows : Within(row'[q])
  <2>1. CleanupTerminalRows(w) \/ DiscardExpired(w) \/ row' = Leased(w, Batch) \/ UNCHANGED row
    BY <1>11 DEF DrainStep, ClaimBatch, FinishDrain, StatementFails
  <2> QED
    BY <1>3, <1>5, <1>6, <1>7, <2>1
<1>12. CASE UNCHANGED vars
  BY <1>3, <1>12 DEF vars
<1> QED
  BY <1>4, <1>8, <1>9, <1>10, <1>11, <1>12 DEF Next

\* No overrun lease, late settlement or crash makes a row exceed its delivery
\* budget, and a lease always covers a row that still has some.
THEOREM BudgetKept == Spec => []AttemptBudget
<1>1. Init => TypeOK /\ AttemptBudget
  BY InitIInv DEF IInv
<1>2. TypeOK /\ AttemptBudget /\ [Next]_vars => AttemptBudget'
  BY BudgetStep
<1> QED
  BY <1>1, <1>2, TypeCorrect, PTL DEF Spec
-----------------------------------------------------------------------------
\* The status a row has after a statement.
LEMMA StatusOf ==
    ASSUME NEW x \in RowState
    PROVE  /\ [x EXCEPT !.st = "discarded", !.lockedBy = Nobody, !.lease = "none"].st = "discarded"
           /\ [x EXCEPT !.st = "published", !.lockedBy = Nobody, !.lease = "none"].st = "published"
           /\ [x EXCEPT !.st = "pending"].st = "pending"
           /\ [x EXCEPT !.st = "deleted"].st = "deleted"
           /\ [x EXCEPT !.attempts = x.attempts + 1, !.due = FALSE, !.lockedBy = Nobody,
                        !.lease = "none"].st = x.st
           /\ \A w : [x EXCEPT !.lockedBy = w, !.lease = "live"].st = x.st
           /\ [x EXCEPT !.lockedBy = Gone].st = x.st
           /\ [x EXCEPT !.lease = "over"].st = x.st
           /\ [x EXCEPT !.due = TRUE].st = x.st
           /\ [x EXCEPT !.young = FALSE].st = x.st
BY DEF RowState

\* What a step does to the status of the rows: one of the verdicts, or nothing.
Kept == \A r \in Rows : row'[r].st = row[r].st
Becomes(S, st) == \A r \in Rows : row'[r].st = IF r \in S THEN st ELSE row[r].st

LEMMA StatusStep ==
    ASSUME TypeOK, AttemptBudget, Next
    PROVE  \/ Kept
           \/ \E r \in Rows : row[r].st = "none" /\ Becomes({r}, "pending") /\ UNCHANGED sent
           \/ \E S \in SUBSET Rows : /\ \A r \in S : row[r].st \in {"published", "discarded"}
                                     /\ Becomes(S, "deleted") /\ UNCHANGED sent
           \/ \E S \in SUBSET Rows : /\ \A r \in S : row[r].st = "pending"
                                     /\ Becomes(S, "discarded") /\ UNCHANGED sent
           \/ \E f \in flights : /\ f.pc = "settle" /\ row[f.r].st = "pending"
                                 /\ Becomes({f.r}, "published") /\ UNCHANGED sent
<1> DEFINE Goal == \/ Kept
                   \/ \E r \in Rows : row[r].st = "none" /\ Becomes({r}, "pending") /\ UNCHANGED sent
                   \/ \E S \in SUBSET Rows : /\ \A r \in S : row[r].st \in {"published", "discarded"}
                                             /\ Becomes(S, "deleted") /\ UNCHANGED sent
                   \/ \E S \in SUBSET Rows : /\ \A r \in S : row[r].st = "pending"
                                             /\ Becomes(S, "discarded") /\ UNCHANGED sent
                   \/ \E f \in flights : /\ f.pc = "settle" /\ row[f.r].st = "pending"
                                         /\ Becomes({f.r}, "published") /\ UNCHANGED sent
<1> USE OutboxAssumption
<1>1. (\A r \in Rows : row[r] \in RowState) /\ row \in [Rows -> RowState]
  BY DEF TypeOK
<1>2. UNCHANGED row => Kept
  BY DEF Kept
<1>3. ASSUME NEW r \in Rows, Commit(r) PROVE Goal
  <2>1. row' = [row EXCEPT ![r] = [row[r] EXCEPT !.st = "pending"]] /\ row[r].st = "none" /\ UNCHANGED sent
    BY <1>3 DEF Commit
  <2>2. Becomes({r}, "pending")
    BY <1>1, <2>1, StatusOf DEF Becomes
  <2> QED
    BY <2>1, <2>2
<1>4. ASSUME NEW w \in Workers, CleanupTerminalRows(w) PROVE Goal
  <2>1. PICK S \in SUBSET {r \in Rows : row[r].st \in {"published", "discarded"}} : row' = Sweep(S)
    BY <1>4 DEF CleanupTerminalRows
  <2>2. Becomes(S, "deleted")
    BY <1>1, <2>1, StatusOf DEF Becomes, Sweep
  <2>3. UNCHANGED sent
    BY <1>4 DEF CleanupTerminalRows
  <2> QED
    BY <2>1, <2>2, <2>3
<1>5. ASSUME NEW w \in Workers, DiscardExpired(w) PROVE Goal
  <2> DEFINE S == {r \in Rows : BudgetSpent(r)}
  <2>1. Becomes(S, "discarded")
    <3>1. \A r \in Rows : Discarded(r).st = "discarded"
      BY <1>1, StatusOf DEF Discarded
    <3>2. row' = [r \in Rows |-> IF BudgetSpent(r) THEN Discarded(r) ELSE row[r]]
      BY <1>5 DEF DiscardExpired
    <3> QED
      BY <3>1, <3>2 DEF Becomes
  <2>2. \A r \in S : row[r].st = "pending"
    BY DEF BudgetSpent
  <2>3. UNCHANGED sent /\ S \in SUBSET Rows
    BY <1>5 DEF DiscardExpired
  <2> QED
    BY <2>1, <2>2, <2>3
<1>6. ASSUME NEW w \in Workers, row' = Leased(w, Batch) PROVE Goal
  <2>1. \A r \in Rows : [row[r] EXCEPT !.lockedBy = w, !.lease = "live"].st = row[r].st
    BY <1>1, StatusOf
  <2>2. \A r \in Rows : row'[r] = row[r] \/ row'[r] = [row[r] EXCEPT !.lockedBy = w, !.lease = "live"]
    BY <1>6 DEF Leased
  <2>3. Kept
    BY <2>1, <2>2 DEF Kept
  <2> QED
    BY <2>3
<1>7. ASSUME NEW f \in flights, SetFailed(f) PROVE Goal
  <2>1. f.r \in Rows
    BY FlightUpdates DEF TypeOK
  <2>2. Failed(f.r).st = row[f.r].st
    BY <1>1, <2>1, StatusOf DEF Failed
  <2>3. UNCHANGED row \/ row' = [row EXCEPT ![f.r] = Failed(f.r)]
    BY <1>7 DEF SetFailed
  <2> QED
    BY <1>1, <1>2, <2>1, <2>2, <2>3 DEF Kept
<1>8. ASSUME NEW f \in flights, f.pc = "settle", SetPublished(f), UNCHANGED sent PROVE Goal
  <2>1. f.r \in Rows /\ f.w \in Workers
    BY FlightUpdates DEF TypeOK
  <2>2. CASE ~Holds(f)
    BY <1>2, <1>8, <2>2 DEF SetPublished
  <2>3. CASE Holds(f)
    <3>1. row[f.r].st = "pending"
      BY <2>1, <2>3 DEF Holds, AttemptBudget
    <3>2. Published(f.r).st = "published"
      BY <1>1, <2>1, StatusOf DEF Published
    <3>3. row' = [row EXCEPT ![f.r] = Published(f.r)]
      BY <1>8, <2>3 DEF SetPublished
    <3>4. Becomes({f.r}, "published")
      BY <1>1, <2>1, <3>2, <3>3 DEF Becomes
    <3> QED
      BY <1>8, <3>1, <3>4
  <2> QED
    BY <2>2, <2>3
<1>9. ASSUME NEW f \in flights, FlightStep(f) PROVE Goal
  <2>1. \/ UNCHANGED row
        \/ SetFailed(f)
        \/ f.pc = "settle" /\ SetPublished(f) /\ UNCHANGED sent
    BY <1>9 DEF FlightStep, Publish, MarkPublished, MarkFailed, MarkFailedThrows
  <2> QED
    BY <1>2, <1>7, <1>8, <2>1
<1>10. ASSUME NEW w \in Workers, Crash(w) PROVE Goal
  <2>1. \A r \in Rows : row'[r] = row[r] \/ row'[r] = [row[r] EXCEPT !.lockedBy = Gone]
    BY <1>10 DEF Crash
  <2>2. \A r \in Rows : [row[r] EXCEPT !.lockedBy = Gone].st = row[r].st
    BY <1>1, StatusOf
  <2>3. Kept
    BY <2>1, <2>2 DEF Kept
  <2> QED
    BY <2>3
<1>11. ASSUME NEW r \in Rows, LeaseExpires(r) \/ LeaseOverrun(r) \/ BackoffElapses(r) \/ AgesOut(r)
       PROVE  Goal
  <2>1. \/ row' = [row EXCEPT ![r] = [row[r] EXCEPT !.lease = "over"]]
        \/ row' = [row EXCEPT ![r] = [row[r] EXCEPT !.due = TRUE]]
        \/ row' = [row EXCEPT ![r] = [row[r] EXCEPT !.young = FALSE]]
    BY <1>11 DEF LeaseExpires, LeaseOverrun, BackoffElapses, AgesOut
  <2>2. /\ [row[r] EXCEPT !.lease = "over"].st = row[r].st
        /\ [row[r] EXCEPT !.due = TRUE].st = row[r].st
        /\ [row[r] EXCEPT !.young = FALSE].st = row[r].st
    BY <1>1, StatusOf
  <2>3. Kept
    BY <1>1, <2>1, <2>2 DEF Kept
  <2> QED
    BY <2>3
<1>12. ASSUME NEW w \in Workers, DrainStep(w) \/ StatementFails(w) PROVE Goal
  <2>1. CleanupTerminalRows(w) \/ DiscardExpired(w) \/ row' = Leased(w, Batch) \/ UNCHANGED row
    BY <1>12 DEF DrainStep, ClaimBatch, FinishDrain, StatementFails
  <2> QED
    BY <1>2, <1>4, <1>5, <1>6, <2>1
<1> QED
  BY <1>3, <1>9, <1>10, <1>11, <1>12 DEF Next

\* Only Publish reports an event as sent, and only for the row of its flight.
LEMMA SentStep ==
    ASSUME TypeOK, Next
    PROVE  UNCHANGED sent \/ \E f \in flights : Publish(f) /\ sent' = [sent EXCEPT ![f.r] = TRUE]
BY DEF Next, Commit, DrainStep, CleanupTerminalRows, DiscardExpired, ClaimBatch, FinishDrain,
   StatementFails, Crash, FlightStep, Publish, MarkPublished, MarkFailed, MarkFailedThrows,
   LeaseExpires, LeaseOverrun, BackoffElapses, AgesOut

\* A flight descends from one of the same row, further on, or from a claim.
LEMMA FlightOrigin ==
    ASSUME TypeOK, Next, NEW g \in flights'
    PROVE  \/ \E r \in Rows : g.r = r /\ g.pc = "publish" /\ row[r].st = "pending"
           \/ \E f \in flights : /\ g.r = f.r
                                 /\ g.pc = "settle" => f.pc = "settle" \/ sent'[f.r]
<1> DEFINE Goal == \/ \E r \in Rows : g.r = r /\ g.pc = "publish" /\ row[r].st = "pending"
                   \/ \E f \in flights : /\ g.r = f.r
                                         /\ g.pc = "settle" => f.pc = "settle" \/ sent'[f.r]
<1>1. \A f \in flights : f \in Flight /\ f.r \in Rows
  BY DEF TypeOK, Flight
<1>2. ASSUME g \in flights PROVE Goal
  BY <1>2
<1>3. ASSUME NEW w \in Workers, ClaimBatch(w) PROVE Goal
  BY <1>2, <1>3, BatchClaimable DEF ClaimBatch
<1>4. ASSUME NEW f \in flights, Publish(f) PROVE Goal
  <2>1. \A pc : [f EXCEPT !.pc = pc].r = f.r /\ [f EXCEPT !.pc = pc].pc = pc
    BY <1>1 DEF Flight
  <2>2. CASE sent' = [sent EXCEPT ![f.r] = TRUE]
    <3>1. sent'[f.r]
      BY <1>1, <2>2 DEF TypeOK
    <3>2. g \in flights \/ \E pc \in {"settle", "fail"} : g = [f EXCEPT !.pc = pc]
      BY <1>4 DEF Publish
    <3>3. g \in flights \/ g.r = f.r
      BY <2>1, <3>2
    <3> QED
      BY <1>2, <3>1, <3>3
  <2>3. CASE flights' = (flights \ {f}) \cup {[f EXCEPT !.pc = "fail"]}
    BY <1>2, <2>1, <2>3
  <2> QED
    BY <1>4, <2>2, <2>3 DEF Publish
<1>5. ASSUME NEW f \in flights, MarkPublished(f) PROVE Goal
  <2>1. [f EXCEPT !.pc = "fail"].r = f.r /\ [f EXCEPT !.pc = "fail"].pc = "fail"
    BY <1>1 DEF Flight
  <2> QED
    BY <1>2, <1>5, <2>1 DEF MarkPublished
<1>6. ASSUME NEW f \in flights, MarkFailed(f) PROVE Goal
  BY <1>2, <1>6 DEF MarkFailed
<1>7. ASSUME NEW f \in flights, MarkFailedThrows(f) PROVE Goal
  <2>1. \A h \in flights : [h EXCEPT !.current = FALSE].r = h.r /\ [h EXCEPT !.current = FALSE].pc = h.pc
    BY <1>1 DEF Flight
  <2>2. \E h \in flights : g = h \/ g = [h EXCEPT !.current = FALSE]
    BY <1>7 DEF MarkFailedThrows
  <2> QED
    BY <2>1, <2>2
<1>8. ASSUME flights' \subseteq flights PROVE Goal
  BY <1>2, <1>8
<1>9. \/ flights' \subseteq flights
      \/ \E w \in Workers : ClaimBatch(w)
      \/ \E f \in flights : FlightStep(f)
  BY DEF Next, Commit, DrainStep, CleanupTerminalRows, DiscardExpired, FinishDrain, StatementFails,
     Crash, LeaseExpires, LeaseOverrun, BackoffElapses, AgesOut
<1> QED
  BY <1>3, <1>4, <1>5, <1>6, <1>7, <1>8, <1>9 DEF FlightStep

LEMMA FlightsStep == IInv /\ [Next]_vars => FlightsSent'
<1> SUFFICES ASSUME IInv, Next PROVE FlightsSent'
  BY DEF IInv, FlightsSent, vars
<1> SUFFICES ASSUME NEW g \in flights' PROVE row'[g.r].st # "none" /\ (g.pc = "settle" => sent'[g.r])
  BY DEF FlightsSent
<1>1. TypeOK /\ AttemptBudget /\ FlightsSent
  BY DEF IInv
<1>2. \A f \in flights : f.r \in Rows
  BY <1>1 DEF TypeOK, Flight
<1>3. \A r \in Rows : row[r].st # "none" => row'[r].st # "none"
  BY <1>1, StatusStep DEF Kept, Becomes
<1>4. \A r \in Rows : sent[r] => sent'[r]
  <2>1. CASE UNCHANGED sent
    BY <2>1
  <2>2. CASE \E f \in flights : sent' = [sent EXCEPT ![f.r] = TRUE]
    BY <1>1, <2>2 DEF TypeOK
  <2> QED
    BY <1>1, <2>1, <2>2, SentStep
<1>5. CASE \E r \in Rows : g.r = r /\ g.pc = "publish" /\ row[r].st = "pending"
  BY <1>3, <1>5
<1>6. CASE \E f \in flights : /\ g.r = f.r
                              /\ g.pc = "settle" => f.pc = "settle" \/ sent'[f.r]
  BY <1>1, <1>2, <1>3, <1>4, <1>6 DEF FlightsSent
<1> QED
  BY <1>1, <1>5, <1>6, FlightOrigin

\* Every step of the dispatchers is a step of the delivery promise, or none.
LEMMA RefinementStep == IInv /\ [Next]_vars => [Delivery!DNext]_(Delivery!dvars)
<1> SUFFICES ASSUME IInv, [Next]_vars PROVE [Delivery!DNext]_(Delivery!dvars)
  OBVIOUS
<1> DEFINE ph == [r \in Rows |-> PhaseOf[row[r].st]]
<1>1. TypeOK /\ AttemptBudget /\ FlightsSent
  BY DEF IInv
<1>2. \A r \in Rows : row[r].st \in {"none", "pending", "published", "discarded", "deleted"}
  BY <1>1 DEF TypeOK, RowState
<1>3. /\ PhaseOf["none"] = "absent" /\ PhaseOf["pending"] = "queued" /\ PhaseOf["published"] = "acked"
      /\ PhaseOf["discarded"] = "dropped" /\ PhaseOf["deleted"] = "forgotten"
  BY DEF PhaseOf
<1>4. CASE UNCHANGED vars
  BY <1>4 DEF vars, Delivery!dvars
<1>5. CASE Next
  <2>1. CASE Kept
    <3>1. ph' = ph
      BY <2>1 DEF Kept
    <3>2. CASE UNCHANGED sent
      BY <3>1, <3>2 DEF Delivery!dvars
    <3>3. ASSUME NEW f \in flights, Publish(f), sent' = [sent EXCEPT ![f.r] = TRUE]
          PROVE  [Delivery!DNext]_(Delivery!dvars)
      <4>1. f.r \in Rows /\ row[f.r].st # "none"
        BY <1>1, <3>3 DEF TypeOK, Flight, FlightsSent
      <4>2. ph[f.r] # "absent"
        BY <1>2, <1>3, <4>1
      <4>3. Delivery!Deliver(f.r)
        BY <3>1, <3>3, <4>2 DEF Delivery!Deliver
      <4> QED
        BY <4>1, <4>3 DEF Delivery!DNext
    <3> QED
      BY <1>1, <1>5, <3>2, <3>3, SentStep
  <2>2. ASSUME NEW r \in Rows, row[r].st = "none", Becomes({r}, "pending"), UNCHANGED sent
        PROVE  Delivery!DNext
    <3>1. ph[r] = "absent" /\ ph' = [ph EXCEPT ![r] = "queued"]
      BY <1>3, <2>2 DEF Becomes
    <3> QED
      BY <2>2, <3>1 DEF Delivery!DNext, Delivery!Enqueue
  <2>3. ASSUME NEW S \in SUBSET Rows, \A r \in S : row[r].st \in {"published", "discarded"},
               Becomes(S, "deleted"), UNCHANGED sent
        PROVE  Delivery!DNext
    <3>1. /\ \A r \in S : ph[r] \in {"acked", "dropped"}
          /\ ph' = [r \in Rows |-> IF r \in S THEN "forgotten" ELSE ph[r]]
      BY <1>3, <2>3 DEF Becomes
    <3> QED
      BY <2>3, <3>1 DEF Delivery!DNext, Delivery!Forget
  <2>4. ASSUME NEW S \in SUBSET Rows, \A r \in S : row[r].st = "pending",
               Becomes(S, "discarded"), UNCHANGED sent
        PROVE  Delivery!DNext
    <3>1. /\ \A r \in S : ph[r] = "queued"
          /\ ph' = [r \in Rows |-> IF r \in S THEN "dropped" ELSE ph[r]]
      BY <1>3, <2>4 DEF Becomes
    <3> QED
      BY <2>4, <3>1 DEF Delivery!DNext, Delivery!Drop
  <2>5. ASSUME NEW f \in flights, f.pc = "settle", row[f.r].st = "pending",
               Becomes({f.r}, "published"), UNCHANGED sent
        PROVE  Delivery!DNext
    <3>1. f.r \in Rows /\ sent[f.r]
      BY <1>1, <2>5 DEF TypeOK, Flight, FlightsSent
    <3>2. ph[f.r] = "queued" /\ ph' = [ph EXCEPT ![f.r] = "acked"]
      BY <1>3, <2>5, <3>1 DEF Becomes
    <3> QED
      BY <2>5, <3>1, <3>2 DEF Delivery!DNext, Delivery!Acknowledge
  <2> QED
    BY <1>1, <1>5, <2>1, <2>2, <2>3, <2>4, <2>5, StatusStep
<1> QED
  BY <1>4, <1>5

\* The outbox implements the promise its callers rely on: an event exists once
\* committed, is acknowledged only after Redis took it at least once, is otherwise
\* dropped, and the verdict is final.
THEOREM OutboxImplementsDelivery == Spec => ImplementsDelivery
<1>1. Init => Delivery!DInit
  BY DEF Init, Delivery!DInit, PhaseOf
<1>2. IInv /\ [Next]_vars => IInv'
  BY TypeStep, BudgetStep, FlightsStep DEF IInv
<1> QED
  BY <1>1, <1>2, InitIInv, RefinementStep, PTL DEF Spec, ImplementsDelivery, Delivery!DSpec

-----------------------------------------------------------------------------
(* One publication per lease *)

Under(r) == {f \in flights : f.r = r}

\* The dispatcher that holds the live lease is at work on the row.
Guarded(r) == row[r].lease = "live" /\ Working(r)

\* A row that may be claimed has one overrun for each publication under way: the
\* publication that was under a live lease has ended, or the lease ran out under it.
Sparse(r) ==
    /\ IsFiniteSet(Under(r))
    /\ Cardinality(Under(r)) <= 1 + faults.overruns
    /\ row[r].st = "pending" /\ ~Guarded(r) => Cardinality(Under(r)) <= faults.overruns

Spread == \A r \in Rows : Sparse(r)

\* The number of publications of a row, and that of the overruns.
LEMMA Counts ==
    ASSUME TypeOK, NEW r \in Rows, IsFiniteSet(Under(r))
    PROVE  Cardinality(Under(r)) \in Nat /\ faults.overruns \in Nat
BY FS_CardinalityType DEF TypeOK

\* A publication that takes its next step is still one.
LEMMA OneForOne ==
    ASSUME NEW S, IsFiniteSet(S), NEW x \in S, NEW y
    PROVE  /\ IsFiniteSet((S \ {x}) \cup {y})
           /\ Cardinality((S \ {x}) \cup {y}) <= Cardinality(S)
<1>1. /\ IsFiniteSet(S \ {x}) /\ Cardinality(S \ {x}) = Cardinality(S) - 1
      /\ Cardinality(S) \in Nat
  BY FS_RemoveElement, FS_CardinalityType
<1>2. /\ IsFiniteSet((S \ {x}) \cup {y})
      /\ \/ Cardinality((S \ {x}) \cup {y}) = Cardinality(S \ {x})
         \/ Cardinality((S \ {x}) \cup {y}) = Cardinality(S \ {x}) + 1
  BY <1>1, FS_AddElement
<1> QED
  BY <1>1, <1>2

\* A publication begins.
LEMMA OneAdded ==
    ASSUME NEW S, IsFiniteSet(S), NEW x
    PROVE  IsFiniteSet(S \cup {x}) /\ Cardinality(S \cup {x}) <= Cardinality(S) + 1
<1>1. Cardinality(S) \in Nat
  BY FS_CardinalityType
<1> QED
  BY <1>1, FS_AddElement

\* Nothing is added to the publications of a row, and it does not become free.
LEMMA NoMore ==
    ASSUME TypeOK, TypeOK', NEW r \in Rows, Sparse(r),
           faults.overruns <= faults'.overruns,
           IsFiniteSet(Under(r)'), Cardinality(Under(r)') <= Cardinality(Under(r)),
           row'[r].st = "pending" /\ ~Guarded(r)' => row[r].st = "pending" /\ ~Guarded(r)
    PROVE  Sparse(r)'
<1>1. /\ Cardinality(Under(r)) \in Nat /\ faults.overruns \in Nat
      /\ Cardinality(Under(r)') \in Nat /\ faults'.overruns \in Nat
  BY FS_CardinalityType DEF TypeOK, Sparse
<1> QED
  BY <1>1 DEF Sparse

\* One publication of a row less.
LEMMA OneLess ==
    ASSUME TypeOK, TypeOK', NEW r \in Rows, Sparse(r),
           faults.overruns <= faults'.overruns,
           IsFiniteSet(Under(r)'), Cardinality(Under(r)') <= Cardinality(Under(r)) - 1
    PROVE  Sparse(r)'
<1>1. /\ Cardinality(Under(r)) \in Nat /\ faults.overruns \in Nat
      /\ Cardinality(Under(r)') \in Nat /\ faults'.overruns \in Nat
  BY FS_CardinalityType DEF TypeOK, Sparse
<1> QED
  BY <1>1 DEF Sparse

\* Neither the row nor its publications are touched.
LEMMA Untouched ==
    ASSUME TypeOK, TypeOK', NEW r \in Rows, Sparse(r),
           faults.overruns <= faults'.overruns, Under(r)' = Under(r), row'[r] = row[r]
    PROVE  Sparse(r)'
<1>1. Guarded(r)' <=> Guarded(r)
  BY DEF Guarded, Working, Under
<1>2. /\ Cardinality(Under(r)) \in Nat /\ faults.overruns \in Nat /\ faults'.overruns \in Nat
      /\ IsFiniteSet(Under(r))
  BY FS_CardinalityType DEF TypeOK, Sparse
<1> QED
  BY <1>1, <1>2, NoMore

\* The first statements of a drain, and a failing one.
LEMMA SpreadByDrain ==
    ASSUME TypeOK, TypeOK', Spread, NEW w \in Workers,
           CleanupTerminalRows(w) \/ DiscardExpired(w) \/ ClaimBatch(w) \/ StatementFails(w)
             \/ FinishDrain(w),
           NEW r \in Rows
    PROVE  Sparse(r)'
<1>0. /\ Sparse(r) /\ IsFiniteSet(Under(r)) /\ Cardinality(Under(r)) \in Nat
      /\ faults.overruns \in Nat /\ faults'.overruns \in Nat
      /\ row \in [Rows -> RowState]
  BY FS_CardinalityType DEF TypeOK, Spread, Sparse
<1>1. CASE CleanupTerminalRows(w)
  <2>1. PICK S \in SUBSET {q \in Rows : row[q].st \in {"published", "discarded"}} : row' = Sweep(S)
    BY <1>1 DEF CleanupTerminalRows
  <2>2. flights' = flights /\ faults' = faults
    BY <1>1 DEF CleanupTerminalRows
  <2>3. CASE r \in S
    <3>1. row'[r].st = "deleted"
      BY <2>1, <2>3, <1>0 DEF Sweep, RowState
    <3> QED
      BY <1>0, <2>2, <3>1, NoMore DEF Under
  <2>4. CASE r \notin S
    BY <1>0, <2>1, <2>2, <2>4, Untouched DEF Sweep, Under
  <2> QED
    BY <2>3, <2>4
<1>2. CASE DiscardExpired(w)
  <2>1. flights' = flights /\ faults' = faults
    BY <1>2 DEF DiscardExpired
  <2>2. CASE BudgetSpent(r)
    <3>1. row'[r] = Discarded(r)
      BY <1>2, <2>2 DEF DiscardExpired
    <3>2. row'[r].st = "discarded"
      BY <3>1, <1>0, StatusOf DEF Discarded
    <3> QED
      BY <1>0, <2>1, <3>2, NoMore DEF Under
  <2>3. CASE ~BudgetSpent(r)
    BY <1>0, <1>2, <2>1, <2>3, Untouched DEF DiscardExpired, Under
  <2> QED
    BY <2>2, <2>3
<1>3. ASSUME r \in Batch PROVE Cardinality(Under(r)) <= faults.overruns
  BY <1>0, <1>3 DEF Batch, Claimable, Guarded, Sparse
<1>4. CASE ClaimBatch(w)
  <2> DEFINE new(q) == [w |-> w, r |-> q, n |-> FreshNumber(q), pc |-> "publish", current |-> TRUE]
  <2>1. /\ flights' = flights \cup {new(q) : q \in Batch} /\ faults' = faults
        /\ row' = Leased(w, Batch)
    BY <1>4 DEF ClaimBatch
  <2>2. CASE r \in Batch
    <3>1. Under(r)' = Under(r) \cup {new(r)}
      BY <2>1, <2>2 DEF Under
    <3>2. IsFiniteSet(Under(r)') /\ Cardinality(Under(r)') <= Cardinality(Under(r)) + 1
      <4>1. /\ IsFiniteSet(Under(r) \cup {new(r)})
            /\ Cardinality(Under(r) \cup {new(r)}) <= Cardinality(Under(r)) + 1
        BY <1>0, OneAdded
      <4> QED
        BY <3>1, <4>1
    <3>3. Cardinality(Under(r)') \in Nat
      BY <3>2, FS_CardinalityType
    <3>4. row'[r] = [row[r] EXCEPT !.lockedBy = w, !.lease = "live"]
      BY <2>1, <2>2 DEF Leased
    <3>5. row'[r].lockedBy = w /\ row'[r].lease = "live"
      BY <3>4, <1>0 DEF RowState
    <3>6. Guarded(r)'
      <4>1. new(r) \in flights' /\ new(r).r = r /\ new(r).w = w
        BY <2>1, <2>2
      <4> HIDE DEF new
      <4> QED
        BY <3>5, <4>1 DEF Guarded, Working
    <3> HIDE DEF new
    <3> QED
      BY <1>0, <1>3, <2>1, <2>2, <3>2, <3>3, <3>6 DEF Sparse
  <2>3. CASE r \notin Batch
    <3>1. \A q \in Batch : new(q).r # r
      BY <2>3
    <3>2. Under(r)' = Under(r)
      BY <2>1, <3>1 DEF Under
    <3>3. row'[r] = row[r]
      BY <2>1, <2>3 DEF Leased
    <3> QED
      BY <1>0, <2>1, <3>2, <3>3, Untouched
  <2> QED
    BY <2>2, <2>3
<1>5. CASE StatementFails(w)
  <2>1. flights' = flights /\ faults'.overruns = faults.overruns
    BY <1>5 DEF StatementFails, DbError, TypeOK
  <2>2. CASE row' = row
    BY <1>0, <2>1, <2>2, Untouched DEF Under
  <2>3. CASE row' = Leased(w, Batch) /\ r \in Batch
    BY <1>0, <1>3, <2>1, <2>3 DEF Sparse, Under
  <2>4. CASE row' = Leased(w, Batch) /\ r \notin Batch
    <3>1. row'[r] = row[r]
      BY <2>4 DEF Leased
    <3> QED
      BY <1>0, <2>1, <3>1, Untouched DEF Under
  <2> QED
    BY <1>5, <2>2, <2>3, <2>4 DEF StatementFails
<1>6. CASE FinishDrain(w)
  BY <1>0, <1>6, Untouched DEF FinishDrain, Under
<1> QED
  BY <1>1, <1>2, <1>4, <1>5, <1>6

\* A crash takes the publications of its dispatcher with it.
LEMMA SpreadByCrash ==
    ASSUME TypeOK, TypeOK', Spread, NEW w \in Workers, Crash(w), NEW r \in Rows
    PROVE  Sparse(r)'
<1>0. /\ Sparse(r) /\ IsFiniteSet(Under(r)) /\ Cardinality(Under(r)) \in Nat
      /\ faults.overruns \in Nat /\ faults'.overruns = faults.overruns
      /\ row \in [Rows -> RowState]
  BY FS_CardinalityType DEF TypeOK, Spread, Sparse, Crash
<1>1. Under(r)' = {f \in Under(r) : f.w # w}
  BY DEF Crash, Under
<1>2. IsFiniteSet(Under(r)') /\ Cardinality(Under(r)') <= Cardinality(Under(r))
  BY <1>0, <1>1, FS_Subset
<1>3. CASE \E f \in Under(r) : f.w = w
  <2>1. PICK f \in Under(r) : f.w = w
    BY <1>3
  <2>2. Under(r)' \in SUBSET (Under(r) \ {f})
    BY <1>1, <2>1
  <2>3. IsFiniteSet(Under(r) \ {f}) /\ Cardinality(Under(r) \ {f}) = Cardinality(Under(r)) - 1
    BY <1>0, <2>1, FS_RemoveElement
  <2>4. Cardinality(Under(r)') <= Cardinality(Under(r)) - 1
    BY <2>2, <2>3, FS_Subset
  <2> QED
    BY <1>0, <1>2, <2>4, OneLess
<1>4. CASE ~\E f \in Under(r) : f.w = w
  <2>1. Under(r)' = Under(r)
    BY <1>1, <1>4
  <2>2. CASE row[r].lockedBy = w
    <3>1. row'[r] = [row[r] EXCEPT !.lockedBy = Gone]
      BY <2>2 DEF Crash
    <3>2. row'[r].st = row[r].st
      BY <3>1, <1>0, StatusOf
    <3>3. ~Guarded(r)
      BY <1>4, <2>2 DEF Guarded, Working, Under
    <3> QED
      BY <1>0, <1>2, <3>2, <3>3, NoMore
  <2>3. CASE row[r].lockedBy # w
    BY <1>0, <2>1, <2>3, Untouched DEF Crash
  <2> QED
    BY <2>2, <2>3
<1> QED
  BY <1>3, <1>4

\* A step of one publication: it goes on, or it ends.
LEMMA SpreadByFlight ==
    ASSUME TypeOK, TypeOK', Spread, NEW f \in flights, FlightStep(f), NEW r \in Rows
    PROVE  Sparse(r)'
<1>0. /\ Sparse(r) /\ IsFiniteSet(Under(r)) /\ Cardinality(Under(r)) \in Nat
      /\ faults.overruns \in Nat /\ row \in [Rows -> RowState]
      /\ f \in Flight /\ f.r \in Rows
  BY FS_CardinalityType DEF TypeOK, Spread, Sparse, Flight
<1>1. faults'.overruns = faults.overruns
  BY DEF TypeOK, FlightStep, Publish, MarkPublished, MarkFailed, MarkFailedThrows, DbError
<1>2. f.r # r => row'[r] = row[r]
  BY <1>0 DEF FlightStep, Publish, MarkPublished, MarkFailed, MarkFailedThrows, SetPublished, SetFailed
\* The flight goes on.
<1>3. ASSUME NEW pc, flights' = (flights \ {f}) \cup {[f EXCEPT !.pc = pc]},
             row' = row \/ (f.r = r => row'[r].st # "pending")
      PROVE  Sparse(r)'
  <2> DEFINE g == [f EXCEPT !.pc = pc]
  <2>1. g.r = f.r /\ g.w = f.w
    BY <1>0 DEF Flight
  <2> HIDE DEF g
  <2>2. flights' = (flights \ {f}) \cup {g}
    BY <1>3 DEF g
  <2>3. CASE f.r = r
    <3>1. f \in Under(r) /\ Under(r)' = (Under(r) \ {f}) \cup {g}
      BY <2>1, <2>2, <2>3 DEF Under
    <3>2. IsFiniteSet(Under(r)') /\ Cardinality(Under(r)') <= Cardinality(Under(r))
      <4>1. /\ IsFiniteSet((Under(r) \ {f}) \cup {g})
            /\ Cardinality((Under(r) \ {f}) \cup {g}) <= Cardinality(Under(r))
        BY <1>0, <3>1, OneForOne
      <4> QED
        BY <3>1, <4>1
    <3>3. row' = row /\ Guarded(r) => Guarded(r)'
      BY <2>1, <2>2 DEF Guarded, Working
    <3> QED
      BY <1>0, <1>1, <1>3, <2>3, <3>2, <3>3, NoMore
  <2>4. CASE f.r # r
    <3>1. Under(r)' = Under(r)
      BY <2>1, <2>2, <2>4 DEF Under
    <3> QED
      BY <1>0, <1>1, <1>2, <2>4, <3>1, Untouched
  <2> QED
    BY <2>3, <2>4
\* The flight ends.
<1>4. ASSUME flights' = flights \ {f} PROVE Sparse(r)'
  <2>1. CASE f.r = r
    <3>1. f \in Under(r) /\ Under(r)' = Under(r) \ {f}
      BY <1>4, <2>1 DEF Under
    <3>2. IsFiniteSet(Under(r)') /\ Cardinality(Under(r)') = Cardinality(Under(r)) - 1
      BY <1>0, <3>1, FS_RemoveElement
    <3> QED
      BY <1>0, <1>1, <3>2, OneLess
  <2>2. CASE f.r # r
    <3>1. Under(r)' = Under(r)
      BY <1>4, <2>2 DEF Under
    <3> QED
      BY <1>0, <1>1, <1>2, <2>2, <3>1, Untouched
  <2> QED
    BY <2>1, <2>2
\* The flight ends, and the rest of its batch goes on by itself.
<1>5. ASSUME flights' = {IF g.w = f.w THEN [g EXCEPT !.current = FALSE] ELSE g : g \in flights \ {f}}
      PROVE  Sparse(r)'
  <2> DEFINE alone(g) == IF g.w = f.w THEN [g EXCEPT !.current = FALSE] ELSE g
             T == Under(r) \ {f}
  <2>1. \A g \in flights : alone(g).r = g.r /\ alone(g).w = g.w
    BY DEF TypeOK, Flight
  <2>2. flights' = {alone(g) : g \in flights \ {f}}
    BY <1>5
  <2> HIDE DEF alone
  <2>3. Under(r)' = {alone(g) : g \in T}
    BY <2>1, <2>2 DEF Under
  <2>4. /\ IsFiniteSet(T) /\ Cardinality(T) \in Nat
        /\ Cardinality(T) = IF f.r = r THEN Cardinality(Under(r)) - 1 ELSE Cardinality(Under(r))
    BY <1>0, FS_RemoveElement, FS_CardinalityType DEF Under
  <2> HIDE DEF T
  <2>5. IsFiniteSet(Under(r)') /\ Cardinality(Under(r)') <= Cardinality(T)
    <3>1. [g \in T |-> alone(g)] \in Surjection(T, Under(r)')
      BY <2>3 DEF Surjection
    <3> QED
      BY <2>4, <3>1, FS_Surjection
  <2>6. CASE f.r = r
    BY <1>0, <1>1, <2>4, <2>5, <2>6, OneLess
  <2>7. CASE f.r # r
    <3>1. Guarded(r) => Guarded(r)'
      BY <1>2, <2>1, <2>2, <2>7 DEF Guarded, Working
    <3> QED
      BY <1>0, <1>1, <1>2, <2>4, <2>5, <2>7, <3>1, NoMore
  <2> QED
    BY <2>6, <2>7
<1>6. ASSUME SetPublished(f), f.r = r PROVE row' = row \/ row'[r].st # "pending"
  <2>1. CASE Holds(f)
    <3>1. row'[r] = Published(r)
      BY <1>0, <1>6, <2>1 DEF SetPublished
    <3> QED
      BY <1>0, <3>1, StatusOf DEF Published
  <2> QED
    BY <1>6, <2>1 DEF SetPublished
<1>7. CASE Publish(f)
  BY <1>3, <1>7 DEF Publish
<1>8. CASE MarkPublished(f)
  BY <1>3, <1>4, <1>6, <1>8 DEF MarkPublished
<1>9. CASE MarkFailed(f)
  BY <1>4, <1>9 DEF MarkFailed
<1>10. CASE MarkFailedThrows(f)
  BY <1>4, <1>5, <1>10 DEF MarkFailedThrows
<1> QED
  BY <1>7, <1>8, <1>9, <1>10 DEF FlightStep

\* Commits and the clock.
LEMMA SpreadByTime ==
    ASSUME TypeOK, TypeOK', FlightsSent, Spread, NEW q \in Rows,
           Commit(q) \/ LeaseExpires(q) \/ LeaseOverrun(q) \/ BackoffElapses(q) \/ AgesOut(q),
           NEW r \in Rows
    PROVE  Sparse(r)'
<1>0. /\ Sparse(r) /\ IsFiniteSet(Under(r)) /\ Cardinality(Under(r)) \in Nat
      /\ faults.overruns \in Nat /\ row \in [Rows -> RowState]
  BY FS_CardinalityType DEF TypeOK, Spread, Sparse
<1>1. Under(r)' = Under(r) /\ faults.overruns <= faults'.overruns /\ faults'.overruns \in Nat
  BY <1>0 DEF TypeOK, Commit, LeaseExpires, LeaseOverrun, BackoffElapses, AgesOut, Under
<1>7. IsFiniteSet(Under(r)') /\ Cardinality(Under(r)') <= Cardinality(Under(r))
  BY <1>0, <1>1
<1>2. CASE q # r
  <2>1. row'[r] = row[r]
    BY <1>2 DEF TypeOK, Commit, LeaseExpires, LeaseOverrun, BackoffElapses, AgesOut
  <2> QED
    BY <1>0, <1>1, <2>1, Untouched
<1>3. CASE q = r /\ Commit(q)
  <2>1. Under(r) = {}
    BY <1>3 DEF Commit, FlightsSent, Under
  <2> QED
    BY <1>0, <1>1, <2>1, FS_EmptySet DEF Sparse
<1>4. CASE q = r /\ LeaseExpires(q)
  <2>1. ~Guarded(r) /\ row'[r] = [row[r] EXCEPT !.lease = "over"]
    BY <1>0, <1>4 DEF LeaseExpires, Guarded
  <2>2. row'[r].st = row[r].st
    BY <1>0, <2>1, StatusOf
  <2> QED
    BY <1>0, <1>1, <1>7, <2>1, <2>2, NoMore
<1>5. CASE q = r /\ LeaseOverrun(q)
  <2>1. faults'.overruns = faults.overruns + 1
    BY <1>5 DEF LeaseOverrun, TypeOK
  <2> QED
    BY <1>0, <1>1, <2>1 DEF Sparse
<1>6. CASE q = r /\ (BackoffElapses(q) \/ AgesOut(q))
  <2>1. \/ row'[r] = [row[r] EXCEPT !.due = TRUE]
        \/ row'[r] = [row[r] EXCEPT !.young = FALSE]
    BY <1>0, <1>6 DEF BackoffElapses, AgesOut
  <2>2. /\ row'[r].st = row[r].st /\ row'[r].lease = row[r].lease
        /\ row'[r].lockedBy = row[r].lockedBy
    BY <1>0, <2>1 DEF RowState
  <2>3. Guarded(r)' <=> Guarded(r)
    BY <1>6, <2>2 DEF Guarded, Working, BackoffElapses, AgesOut
  <2> QED
    BY <1>0, <1>1, <1>7, <2>2, <2>3, NoMore
<1> QED
  BY <1>2, <1>3, <1>4, <1>5, <1>6

LEMMA SpreadStep == IInv /\ TypeOK' /\ Spread /\ [Next]_vars => Spread'
<1> SUFFICES ASSUME IInv, TypeOK', Spread, [Next]_vars, NEW r \in Rows PROVE Sparse(r)'
  BY DEF Spread
<1>1. TypeOK /\ FlightsSent
  BY DEF IInv
<1>2. CASE UNCHANGED vars
  <2>1. Under(r)' = Under(r) /\ row'[r] = row[r] /\ faults' = faults
    BY <1>2 DEF Under, vars
  <2> QED
    BY <1>1, <2>1, Untouched DEF Spread, TypeOK
<1>3. CASE Next
  BY <1>1, <1>3, SpreadByDrain, SpreadByCrash, SpreadByFlight, SpreadByTime DEF Next, DrainStep
<1> QED
  BY <1>2, <1>3

\* SKIP LOCKED, the lease and the name in it keep dispatchers off each other's rows:
\* beyond the first each publication of a row under way has an overrun to answer for.
THEOREM OnePublisherAtATime == Spec => []OnePublisherPerLease
<1>1. Init => IInv /\ Spread
  <2> SUFFICES ASSUME Init PROVE IInv /\ Spread
    OBVIOUS
  <2>1. \A r \in Rows : Under(r) = {}
    BY DEF Init, Under
  <2>2. IsFiniteSet({}) /\ Cardinality({}) = 0 /\ faults.overruns = 0
    BY FS_EmptySet DEF Init
  <2>3. \A r \in Rows : Sparse(r)
    BY <2>1, <2>2 DEF Sparse
  <2> QED
    BY <2>3, InitIInv DEF Spread
<1>2. IInv /\ Spread /\ [Next]_vars => (IInv /\ Spread)'
  <2>1. IInv /\ [Next]_vars => IInv'
    BY TypeStep, BudgetStep, FlightsStep DEF IInv
  <2> QED
    BY <2>1, SpreadStep DEF IInv
<1>3. IInv /\ Spread => OnePublisherPerLease
  BY DEF Spread, Sparse, Under, OnePublisherPerLease
<1> QED
  BY <1>1, <1>2, <1>3, PTL DEF Spec
=============================================================================
