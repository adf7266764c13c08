-------------------------- MODULE ReplyGateProofs --------------------------
(***************************************************************************)
(* What the gates of `cumora reply` guarantee for any number of agents,    *)
(* parallel commands, messages and faults.                                 *)
(***************************************************************************)
EXTENDS ReplyGate, FiniteSetTheorems, TLAPS

\* The updates of a command's local variables keep their type.
LEMMA DraftUpdates ==
    ASSUME NEW d \in Draft
    PROVE  /\ \A n \in Nat : /\ [d EXCEPT !.base = n] \in Draft
                             /\ [d EXCEPT !.base = n, !.armed = FALSE] \in Draft
                             /\ [d EXCEPT !.armed = TRUE, !.base = n] \in Draft
                             /\ [d EXCEPT !.seq = n] \in Draft
           /\ \A w \in Ways : [d EXCEPT !.way = w] \in Draft
<1>1. \A n \in Nat : /\ [d EXCEPT !.base = n] \in Draft
                     /\ [d EXCEPT !.base = n, !.armed = FALSE] \in Draft
                     /\ [d EXCEPT !.armed = TRUE, !.base = n] \in Draft
                     /\ [d EXCEPT !.seq = n] \in Draft
  BY DEF Draft
<1>2. \A w \in Ways : [d EXCEPT !.way = w] \in Draft
  BY DEF Draft
<1> QED
  BY <1>1, <1>2

\* The blank draft, and the ones Start, Look and BeginTx make.
LEMMA NewDrafts ==
    /\ NoDraft \in Draft
    /\ \A n \in Nat : [NoDraft EXCEPT !.base = n] \in Draft
    /\ \A b \in Bodies, f \in Flags, n \in Nat :
          [NoDraft EXCEPT !.body = b, !.flags = f, !.run = n, !.group = Grp] \in Draft
    /\ \A d \in Draft :
          [d EXCEPT !.group = Grp, !.flags = {}, !.armed = FALSE, !.base = 0] \in Draft
<1> USE GateAssumption
<1>1. NoDraft \in Draft
  BY DEF Draft, NoDraft, Ways
<1>2. \A n \in Nat : [NoDraft EXCEPT !.base = n] \in Draft
  BY DEF Draft, NoDraft, Ways
<1>3. Grp \in BOOLEAN
  BY DEF Grp
<1>4. \A b \in Bodies, f \in Flags, n \in Nat, g \in BOOLEAN :
          [NoDraft EXCEPT !.body = b, !.flags = f, !.run = n, !.group = g] \in Draft
  BY DEF Draft, NoDraft, Ways
<1>5. \A d \in Draft, g \in BOOLEAN :
          [d EXCEPT !.group = g, !.flags = {}, !.armed = FALSE, !.base = 0] \in Draft
  BY DEF Draft
<1> QED
  BY <1>1, <1>2, <1>3, <1>4, <1>5

LEMMA Moves ==
    ASSUME TypeOK, NEW p \in Procs
    PROVE  /\ \A s \in Steps : Goto(p, s) => pc' \in [Procs -> Steps]
           /\ \A d \in Draft : Set(p, d) => draft' \in [Procs -> Draft]
           /\ Done(p) => pc' \in [Procs -> Steps] /\ draft' \in [Procs -> Draft]
<1>1. \A s \in Steps : Goto(p, s) => pc' \in [Procs -> Steps]
  BY DEF TypeOK, Goto
<1>2. \A d \in Draft : Set(p, d) => draft' \in [Procs -> Draft]
  BY DEF TypeOK, Set
<1> QED
  BY <1>1, <1>2, NewDrafts DEF Done, Steps

\* Redis calls keep the types of what they touch.
FaultType == [redis : Nat, tx : Nat, lapses : Nat, moves : Nat, gaps : Nat, looks : Nat]

LEMMA RedisTypes ==
    ASSUME TypeOK, NEW a \in Agents, NEW n \in Nat
    PROVE  /\ RedisError => faults' \in FaultType
           /\ RecordSeen(a, n) => seen' \in [Agents -> Nat] /\ faults' \in FaultType
           /\ RecordHold(a, n) => hold' \in [Agents -> Nat] /\ faults' \in FaultType
           /\ ClearHold(a) => hold' \in [Agents -> Nat] /\ faults' \in FaultType
<1>1. RedisError => faults' \in FaultType
  <2>1. faults.redis + 1 \in Nat
    BY DEF TypeOK
  <2> QED
    BY <2>1 DEF TypeOK, RedisError, FaultType
<1>2. faults \in FaultType
  BY DEF TypeOK, FaultType
<1>3. Greater(seen[a], n) \in Nat
  BY DEF TypeOK, Greater
<1>7. seen \in [Agents -> Nat] /\ hold \in [Agents -> Nat]
  BY DEF TypeOK
<1>4. RecordSeen(a, n) => seen' \in [Agents -> Nat] /\ faults' \in FaultType
  BY <1>1, <1>2, <1>3, <1>7 DEF RecordSeen
<1>5. RecordHold(a, n) => hold' \in [Agents -> Nat] /\ faults' \in FaultType
  BY <1>1, <1>2, <1>7 DEF RecordHold
<1>6. ClearHold(a) => hold' \in [Agents -> Nat] /\ faults' \in FaultType
  BY <1>1, <1>2, <1>7 DEF ClearHold
<1> QED
  BY <1>1, <1>4, <1>5, <1>6

\* The log is a sequence of messages.
LEMMA Rows ==
    ASSUME TypeOK
    PROVE  /\ DOMAIN log = 1..Len(log) /\ Len(log) \in Nat
           /\ \A i \in DOMAIN log : log[i] \in Message /\ log[i].seq \in Nat
<1>1. DOMAIN log = 1..Len(log) /\ Len(log) \in Nat
  BY DEF TypeOK
<1>2. \A i \in 1..Len(log) : log[i] \in Message
  BY DEF TypeOK
<1>3. \A m \in Message : m.seq \in Nat
  BY DEF Message
<1> QED
  BY <1>1, <1>2, <1>3

\* A HELD envelope shows rows of the log.
LEMMA HoldTypes ==
    ASSUME TypeOK, NEW p \in Procs, NEW S, S \subseteq DOMAIN log, Hold(p, S)
    PROVE  /\ draft' \in [Procs -> Draft]
           /\ shown' \in [Agents -> SUBSET Nat]
           /\ pc' = [pc EXCEPT ![p] = "heldseen"]
           /\ pc' \in [Procs -> Steps]
<1>1. \A i \in DOMAIN log : log[i].seq \in Nat
  BY Rows
<1>2. draft[p] \in Draft
  BY DEF TypeOK
<1>3. draft' \in [Procs -> Draft]
  <2>1. PICK i \in DOMAIN log : Set(p, [draft[p] EXCEPT !.base = log[i].seq, !.armed = FALSE])
    BY DEF Hold
  <2>2. [draft[p] EXCEPT !.base = log[i].seq, !.armed = FALSE] \in Draft
    BY <1>1, <1>2, DraftUpdates
  <2> QED
    BY <2>1, <2>2, Moves
<1>4. {log[i].seq : i \in S} \subseteq Nat
  BY <1>1
<1>5. shown' \in [Agents -> SUBSET Nat]
  BY <1>4 DEF TypeOK, Hold
<1>6. pc' = [pc EXCEPT ![p] = "heldseen"]
  BY DEF Hold, Goto
<1> QED
  BY <1>3, <1>5, <1>6 DEF TypeOK, Steps

\* The counter row's lock is held through the transaction's last statements, and
\* the sequence it protects is the one claimed.
LockHeld ==
    \A p \in Procs : pc[p] \in Locked => lock = p /\ draft[p].seq = counter

LEMMA InitType == Init => TypeOK
<1> SUFFICES ASSUME Init PROVE TypeOK
  OBVIOUS
<1> USE GateAssumption
<1>1. log \in Seq(Message) /\ counter \in Nat \ {0} /\ lock \in Procs \cup {Free} /\ aged \in Nat
  BY DEF Init
<1>2. members \in SUBSET (Agents \cup {Human})
  BY DEF Init
<1>3. /\ seen \in [Agents -> Nat] /\ hold \in [Agents -> Nat] /\ run \in [Agents -> Nat]
      /\ shown \in [Agents -> SUBSET Nat]
  BY DEF Init
<1>4. turnPost \in [Agents -> [run : Nat, posts : Nat]]
  BY DEF Init
<1>5. pc \in [Procs -> Steps] /\ draft \in [Procs -> Draft]
  BY NewDrafts DEF Init, Steps
<1>6. faults \in [redis : Nat, tx : Nat, lapses : Nat, moves : Nat, gaps : Nat, looks : Nat]
  BY DEF Init
<1> QED
  BY <1>1, <1>2, <1>3, <1>4, <1>5, <1>6 DEF TypeOK

\* The steps of the preflight.
LEMMA PreflightType ==
    ASSUME TypeOK, NEW p \in Procs, Preflight(p)
    PROVE  TypeOK'
<1> USE GateAssumption
<1>1. Me(p) \in Agents /\ draft[p] \in Draft /\ draft[p].base \in Nat
  <2>1. draft[p] \in Draft
    BY DEF TypeOK
  <2> QED
    BY <2>1 DEF Me, Draft
<1>2. faults \in FaultType /\ (RedisError => faults' \in FaultType)
  BY <1>1, RedisTypes DEF TypeOK, FaultType
<1>3. CASE ReadTurnPost(p)
  <2>1. [draft[p] EXCEPT !.way = "delivery"] \in Draft
    BY <1>1, DraftUpdates DEF Ways
  <2>2. draft' \in [Procs -> Draft]
    <3>1. (IF SameTurn(p) THEN [draft[p] EXCEPT !.way = "delivery"] ELSE draft[p]) \in Draft
      BY <1>1, <2>1
    <3>2. UNCHANGED draft \/ \E d \in Draft : Set(p, d)
      BY <1>3, <3>1 DEF ReadTurnPost
    <3> QED
      BY <3>2, Moves DEF TypeOK
  <2>3. pc' \in [Procs -> Steps]
    BY <1>3, Moves DEF ReadTurnPost, Steps
  <2>4. faults' \in FaultType
    BY <1>2, <1>3 DEF ReadTurnPost
  <2> QED
    BY <1>3, <2>2, <2>3, <2>4 DEF TypeOK, ReadTurnPost, roomVars, redisVars, FaultType
<1>4. CASE MonologueGate(p)
  <2>1. Way(p) \in Ways
    BY DEF Way, Ways
  <2>2. [draft[p] EXCEPT !.way = Way(p)] \in Draft
    BY <1>1, <2>1, DraftUpdates
  <2>3. pc' \in [Procs -> Steps] /\ draft' \in [Procs -> Draft]
    BY <1>4, <2>2, Moves DEF MonologueGate, Steps
  <2> QED
    BY <1>4, <2>3 DEF TypeOK, MonologueGate, roomVars, redisVars
<1>5. CASE ConsumeHold(p)
  <2>1. \A b \in BOOLEAN, n \in Nat : AfterHold(p, b, n) \in Steps
    BY DEF AfterHold, Steps
  <2>2. \A n \in Nat : Armed(p, n) \in Draft
    BY <1>1, DraftUpdates DEF Armed
  <2>3. hold[Me(p)] \in Nat
    BY <1>1 DEF TypeOK
  <2>4. \E b \in BOOLEAN, n \in Nat : Goto(p, AfterHold(p, b, n))
    BY <1>5, <2>3 DEF ConsumeHold
  <2>5. UNCHANGED draft \/ \E n \in Nat : Set(p, Armed(p, n))
    BY <1>5, <2>3 DEF ConsumeHold
  <2>6. hold' \in [Agents -> Nat]
    <3>1. UNCHANGED hold \/ hold' = [hold EXCEPT ![Me(p)] = 0]
      BY <1>5 DEF ConsumeHold
    <3>2. hold \in [Agents -> Nat]
      BY DEF TypeOK
    <3> QED
      BY <3>1, <3>2
  <2>8. pc' \in [Procs -> Steps]
    BY <2>1, <2>4, Moves
  <2>9. draft' \in [Procs -> Draft]
    BY <2>2, <2>5, Moves DEF TypeOK
  <2>7. faults' \in FaultType
    BY <1>2, <1>5 DEF ConsumeHold
  <2> QED
    BY <1>5, <2>6, <2>7, <2>8, <2>9 DEF TypeOK, ConsumeHold, roomVars, FaultType
<1>6. \A b \in Nat : Held(Me(p), b) \subseteq DOMAIN log
  BY DEF Held, Newer
<1>7. CASE StaleToken(p)
  <2>1. CASE Unmoved(Me(p), draft[p].base)
    <3>1. PICK i \in DOMAIN log : Set(p, [draft[p] EXCEPT !.base = log[i].seq])
      BY <1>7, <2>1 DEF StaleToken
    <3>2. log[i].seq \in Nat
      BY Rows
    <3>3. [draft[p] EXCEPT !.base = log[i].seq] \in Draft
      BY <1>1, <3>2, DraftUpdates
    <3>4. pc' \in [Procs -> Steps] /\ draft' \in [Procs -> Draft]
      BY <1>7, <2>1, <3>1, <3>3, Moves DEF StaleToken, Steps
    <3>5. UNCHANGED <<roomVars, redisVars, run, faults, shown>>
      BY <1>7, <2>1 DEF StaleToken
    <3> QED
      BY <3>4, <3>5 DEF TypeOK, roomVars, redisVars
  <2>2. CASE Hold(p, Held(Me(p), draft[p].base))
    <3>1. pc' \in [Procs -> Steps] /\ draft' \in [Procs -> Draft] /\ shown' \in [Agents -> SUBSET Nat]
      BY <1>1, <1>6, <2>2, HoldTypes
    <3> QED
      BY <1>7, <3>1 DEF TypeOK, StaleToken, roomVars, redisVars
  <2> QED
    BY <1>7, <2>1, <2>2 DEF StaleToken
<1>8. CASE GetSeen(p)
  <2>1. seen[Me(p)] \in Nat
    BY <1>1 DEF TypeOK
  <2>2. [draft[p] EXCEPT !.base = seen[Me(p)]] \in Draft
    BY <1>1, <2>1, DraftUpdates
  <2>3. draft' \in [Procs -> Draft]
    <3>1. UNCHANGED draft \/ Set(p, [draft[p] EXCEPT !.base = seen[Me(p)]])
      BY <1>8 DEF GetSeen
    <3> QED
      BY <2>2, <3>1, Moves DEF TypeOK
  <2>6. \E s \in {"fresh", "dup"} : Goto(p, s)
    BY <1>8 DEF GetSeen
  <2>4. pc' \in [Procs -> Steps]
    BY <2>6, Moves DEF Steps
  <2>5. faults' \in FaultType
    BY <1>2, <1>8 DEF GetSeen
  <2> QED
    BY <1>8, <2>3, <2>4, <2>5 DEF TypeOK, GetSeen, roomVars, redisVars, FaultType
<1>9. CASE Freshness(p)
  <2>1. CASE Hold(p, Held(Me(p), draft[p].base))
    <3>1. pc' \in [Procs -> Steps] /\ draft' \in [Procs -> Draft] /\ shown' \in [Agents -> SUBSET Nat]
      BY <1>1, <1>6, <2>1, HoldTypes
    <3> QED
      BY <1>9, <3>1 DEF TypeOK, Freshness, roomVars, redisVars
  <2>2. CASE Goto(p, "dup") /\ UNCHANGED <<draft, shown>>
    <3>1. pc' \in [Procs -> Steps]
      BY <2>2, Moves DEF Steps
    <3> QED
      BY <1>9, <2>2, <3>1 DEF TypeOK, Freshness, roomVars, redisVars
  <2> QED
    BY <1>9, <2>1, <2>2 DEF Freshness
<1>10. CASE VerbatimDup(p)
  <2>1. CASE Hold(p, {i \in DOMAIN log : IsLast(i, TextOfPeers(Me(p)))})
    <3>1. pc' \in [Procs -> Steps] /\ draft' \in [Procs -> Draft] /\ shown' \in [Agents -> SUBSET Nat]
      BY <2>1, HoldTypes
    <3> QED
      BY <1>10, <3>1 DEF TypeOK, VerbatimDup, roomVars, redisVars
  <2>2. CASE Goto(p, "begin") /\ UNCHANGED <<draft, shown>>
    <3>1. pc' \in [Procs -> Steps]
      BY <2>2, Moves DEF Steps
    <3> QED
      BY <1>10, <2>2, <3>1 DEF TypeOK, VerbatimDup, roomVars, redisVars
  <2> QED
    BY <1>10, <2>1, <2>2 DEF VerbatimDup
<1>11. CASE HeldSeen(p)
  <2>1. seen' \in [Agents -> Nat] /\ faults' \in FaultType
    BY <1>1, <1>11, RedisTypes DEF HeldSeen
  <2>2. pc' \in [Procs -> Steps]
    BY <1>11, Moves DEF HeldSeen, Steps
  <2> QED
    BY <1>11, <2>1, <2>2 DEF TypeOK, HeldSeen, roomVars, FaultType
<1>12. CASE HeldHold(p)
  <2>1. hold' \in [Agents -> Nat] /\ faults' \in FaultType
    BY <1>1, <1>12, RedisTypes DEF HeldHold
  <2>2. pc' \in [Procs -> Steps] /\ draft' \in [Procs -> Draft]
    BY <1>12, Moves DEF HeldHold
  <2> QED
    BY <1>12, <2>1, <2>2 DEF TypeOK, HeldHold, roomVars, FaultType
<1> QED
  BY <1>3, <1>4, <1>5, <1>7, <1>8, <1>9, <1>10, <1>11, <1>12 DEF Preflight

\* Rows appended to the log are messages.
LEMMA Appended ==
    ASSUME TypeOK, NEW m \in Message
    PROVE  /\ Append(log, m) \in Seq(Message)
           /\ Len(Append(log, m)) = Len(log) + 1
           /\ \A i \in 1..Len(log) : Append(log, m)[i] = log[i]
           /\ Append(log, m)[Len(log) + 1] = m
BY DEF TypeOK

\* A committing reply writes a typed row and a typed counter.
LEMMA CommittedType ==
    ASSUME TypeOK, LockHeld, NEW p \in Procs, pc[p] = "commit"
    PROVE  /\ Posted(p) \in Message
           /\ draft[p].seq = counter
           /\ Committed(p) => /\ log' \in Seq(Message)
                              /\ counter' \in Nat \ {0}
                              /\ lock' = Free
<1> USE GateAssumption
<1>1. draft[p].seq = counter /\ counter \in Nat \ {0}
  BY DEF LockHeld, Locked, TypeOK
<1>2. draft[p] \in Draft /\ Me(p) \in Agents
  BY DEF TypeOK, Me
<1>3. Posted(p) \in Message
  BY <1>1, <1>2 DEF Posted, Message, Draft
<1>4. Committed(p) => log' \in Seq(Message)
  BY <1>3, Appended DEF Committed
<1>5. Committed(p) => counter' \in Nat \ {0} /\ lock' = Free
  BY <1>1 DEF Committed
<1> QED
  BY <1>1, <1>3, <1>4, <1>5

LEMMA FaultUpdates ==
    ASSUME NEW f \in FaultType
    PROVE  /\ [f EXCEPT !.tx = f.tx + 1] \in FaultType
           /\ [f EXCEPT !.lapses = f.lapses + 1] \in FaultType
           /\ [f EXCEPT !.moves = f.moves + 1] \in FaultType
           /\ [f EXCEPT !.gaps = f.gaps + 1] \in FaultType
           /\ [f EXCEPT !.looks = f.looks + 1] \in FaultType
<1>1. f.tx + 1 \in Nat /\ f.lapses + 1 \in Nat /\ f.moves + 1 \in Nat
      /\ f.gaps + 1 \in Nat /\ f.looks + 1 \in Nat
  BY DEF FaultType
<1> QED
  BY <1>1 DEF FaultType

\* The steps of the transaction.
LEMMA TransactionType ==
    ASSUME TypeOK, LockHeld, NEW p \in Procs, Transaction(p) \/ TxFails(p)
    PROVE  TypeOK'
<1> USE GateAssumption
<1>1. Me(p) \in Agents /\ draft[p] \in Draft
  BY DEF Me, TypeOK
<1>2. counter \in Nat
  BY DEF TypeOK
<1>3. CASE BeginTx(p)
  <2>1. TxDraft(p) \in Draft
    BY <1>1, NewDrafts DEF TxDraft
  <2>2. pc' \in [Procs -> Steps] /\ draft' \in [Procs -> Draft]
    BY <1>3, <2>1, Moves DEF BeginTx, Steps
  <2> QED
    BY <1>3, <2>2 DEF TypeOK, BeginTx, roomVars, redisVars
<1>4. CASE ClaimSequence(p)
  <2>1. [draft[p] EXCEPT !.seq = counter] \in Draft
    BY <1>1, <1>2, DraftUpdates
  <2>2. pc' \in [Procs -> Steps] /\ draft' \in [Procs -> Draft]
    BY <1>4, <2>1, Moves DEF ClaimSequence, Steps
  <2> QED
    BY <1>4, <2>2 DEF TypeOK, ClaimSequence, redisVars
<1>5. CASE Recheck(p)
  <2>1. CASE lock' = Free /\ Hold(p, {i \in DOMAIN log : IsLast(i, TextOfPeers(Me(p)))})
    <3>1. pc' \in [Procs -> Steps] /\ draft' \in [Procs -> Draft] /\ shown' \in [Agents -> SUBSET Nat]
      BY <2>1, HoldTypes
    <3> QED
      BY <1>5, <2>1, <3>1 DEF TypeOK, Recheck, redisVars
  <2>2. CASE Goto(p, "touch") /\ UNCHANGED <<lock, draft, shown>>
    <3>1. pc' \in [Procs -> Steps]
      BY <2>2, Moves DEF Steps
    <3> QED
      BY <1>5, <2>2, <3>1 DEF TypeOK, Recheck, redisVars
  <2> QED
    BY <1>5, <2>1, <2>2 DEF Recheck
<1>6. CASE Touch(p)
  <2>1. pc' \in [Procs -> Steps]
    BY <1>6, Moves DEF Touch, Steps
  <2> QED
    BY <1>6, <2>1 DEF TypeOK, Touch, roomVars, redisVars
<1>7. CASE CommitReply(p)
  <2>1. log' \in Seq(Message) /\ counter' \in Nat \ {0} /\ lock' \in Procs \cup {Free}
    BY <1>7, CommittedType DEF CommitReply
  <2>2. pc' \in [Procs -> Steps]
    BY <1>7, Moves DEF CommitReply, Steps
  <2> QED
    BY <1>7, <2>1, <2>2 DEF TypeOK, CommitReply, redisVars
<1>8. CASE DeadlockVictim(p)
  <2>1. pc' \in [Procs -> Steps] /\ draft' \in [Procs -> Draft]
    BY <1>8, Moves DEF DeadlockVictim
  <2>2. lock' \in Procs \cup {Free}
    BY <1>8 DEF DeadlockVictim, TypeOK
  <2> QED
    BY <1>8, <2>1, <2>2 DEF TypeOK, DeadlockVictim, redisVars
<1>9. CASE TxFails(p)
  <2>1. pc' \in [Procs -> Steps] /\ draft' \in [Procs -> Draft]
    BY <1>9, Moves DEF TxFails
  <2>2. log' \in Seq(Message) /\ counter' \in Nat \ {0} /\ lock' \in Procs \cup {Free}
    <3>1. CASE pc[p] = "commit" /\ Committed(p)
      BY <3>1, CommittedType
    <3>2. CASE lock' = (IF lock = p THEN Free ELSE lock) /\ UNCHANGED <<log, counter>>
      BY <3>2 DEF TypeOK
    <3> QED
      BY <1>9, <3>1, <3>2 DEF TxFails
  <2>3. faults' \in FaultType
    BY <1>9, FaultUpdates DEF TxFails, TypeOK, FaultType
  <2> QED
    BY <1>9, <2>1, <2>2, <2>3 DEF TypeOK, TxFails, redisVars, FaultType
<1> QED
  BY <1>3, <1>4, <1>5, <1>6, <1>7, <1>8, <1>9 DEF Transaction

\* The steps after the commit, and the other commands.
LEMMA AfterwardsType ==
    ASSUME TypeOK, NEW p \in Procs, Afterwards(p) \/ Show(p) \/ Start(p) \/ Look(p)
    PROVE  TypeOK'
<1> USE GateAssumption
<1>1. Me(p) \in Agents /\ draft[p] \in Draft
  BY DEF Me, TypeOK
<1>2. draft[p].seq \in Nat /\ draft[p].base \in Nat /\ draft[p].run \in Nat
  BY <1>1 DEF Draft
<1>3. faults \in FaultType /\ (RedisError => faults' \in FaultType)
  BY <1>1, RedisTypes DEF TypeOK, FaultType
<1>4. CASE RecordOwn(p)
  <2>1. seen' \in [Agents -> Nat] /\ faults' \in FaultType
    BY <1>1, <1>2, <1>4, RedisTypes DEF RecordOwn
  <2>2. \E s \in {"count", "clear"} : Goto(p, s)
    BY <1>4 DEF RecordOwn
  <2>3. pc' \in [Procs -> Steps]
    BY <2>2, Moves DEF Steps
  <2> QED
    BY <1>4, <2>1, <2>3 DEF TypeOK, RecordOwn, roomVars, FaultType
<1>5. CASE CountPost(p)
  <2>1. turnPost[Me(p)].posts + 1 \in Nat
    <3>1. turnPost[Me(p)] \in [run : Nat, posts : Nat]
      BY <1>1 DEF TypeOK
    <3> QED
      BY <3>1
  <2>2. UNCHANGED draft \/ \E n \in Nat : Set(p, [draft[p] EXCEPT !.base = n])
    BY <1>5, <2>1 DEF CountPost
  <2>3. draft' \in [Procs -> Draft]
    BY <1>1, <2>2, DraftUpdates, Moves DEF TypeOK
  <2>4. \E s \in {"mark", "clear"} : Goto(p, s)
    BY <1>5 DEF CountPost
  <2>5. pc' \in [Procs -> Steps]
    BY <2>4, Moves DEF Steps
  <2>6. faults' \in FaultType
    BY <1>3, <1>5 DEF CountPost
  <2> QED
    BY <1>5, <2>3, <2>5, <2>6 DEF TypeOK, CountPost, roomVars, redisVars, FaultType
<1>6. CASE MarkPost(p)
  <2>1. [run |-> draft[p].run, posts |-> draft[p].base] \in [run : Nat, posts : Nat]
    BY <1>2
  <2>2. turnPost' \in [Agents -> [run : Nat, posts : Nat]]
    <3>1. UNCHANGED turnPost \/
          turnPost' = [turnPost EXCEPT ![Me(p)] = [run |-> draft[p].run, posts |-> draft[p].base]]
      BY <1>6 DEF MarkPost
    <3>2. turnPost \in [Agents -> [run : Nat, posts : Nat]]
      BY DEF TypeOK
    <3> QED
      BY <1>1, <2>1, <3>1, <3>2
  <2>3. pc' \in [Procs -> Steps]
    BY <1>6, Moves DEF MarkPost, Steps
  <2>4. faults' \in FaultType
    BY <1>3, <1>6 DEF MarkPost
  <2> QED
    BY <1>6, <2>2, <2>3, <2>4 DEF TypeOK, MarkPost, roomVars, FaultType
<1>7. CASE DropHold(p)
  <2>1. hold' \in [Agents -> Nat] /\ faults' \in FaultType
    BY <1>1, <1>7, RedisTypes DEF DropHold
  <2>2. pc' \in [Procs -> Steps] /\ draft' \in [Procs -> Draft]
    BY <1>7, Moves DEF DropHold
  <2> QED
    BY <1>7, <2>1, <2>2 DEF TypeOK, DropHold, roomVars, FaultType
<1>8. CASE Show(p)
  <2>1. seen' \in [Agents -> Nat] /\ faults' \in FaultType
    BY <1>1, <1>2, <1>8, RedisTypes DEF Show
  <2>2. pc' \in [Procs -> Steps] /\ draft' \in [Procs -> Draft]
    BY <1>8, Moves DEF Show
  <2> QED
    BY <1>8, <2>1, <2>2 DEF TypeOK, Show, roomVars, FaultType
<1>9. CASE Start(p)
  <2>1. run[Me(p)] \in Nat
    BY <1>1 DEF TypeOK
  <2>2. \E d \in Draft : Set(p, d)
    BY <1>9, <2>1, NewDrafts DEF Start
  <2>3. pc' \in [Procs -> Steps] /\ draft' \in [Procs -> Draft]
    BY <1>9, <2>2, Moves DEF Start, Steps
  <2> QED
    BY <1>9, <2>3 DEF TypeOK, Start, roomVars, redisVars
<1>10. CASE Look(p)
  <2>1. PICK first \in DOMAIN log, all \in BOOLEAN :
          LET rows == {i \in first..Len(log) : all \/ log[i].by # Me(p)}
          IN  /\ \E i \in DOMAIN log :
                    IsLast(i, rows) /\ Set(p, [NoDraft EXCEPT !.base = log[i].seq])
              /\ shown' = [shown EXCEPT ![Me(p)] = @ \cup {log[i].seq : i \in rows}]
    BY <1>10 DEF Look
  <2> DEFINE rows == {i \in first..Len(log) : all \/ log[i].by # Me(p)}
  <2>2. rows \subseteq DOMAIN log
    BY Rows
  <2>3. {log[i].seq : i \in rows} \subseteq Nat
    BY <2>2, Rows
  <2>4. shown' \in [Agents -> SUBSET Nat]
    BY <1>1, <2>1, <2>3 DEF TypeOK
  <2>5. \E n \in Nat : Set(p, [NoDraft EXCEPT !.base = n])
    BY <2>1, Rows
  <2>6. pc' \in [Procs -> Steps] /\ draft' \in [Procs -> Draft]
    BY <1>10, <2>5, NewDrafts, Moves DEF Look, Steps
  <2>7. faults' \in FaultType
    BY <1>3, <1>10, FaultUpdates DEF Look
  <2> QED
    BY <1>10, <2>4, <2>6, <2>7 DEF TypeOK, Look, roomVars, redisVars, FaultType
<1> QED
  BY <1>4, <1>5, <1>6, <1>7, <1>8, <1>9, <1>10 DEF Afterwards

\* The steps of the agents' turns, of the other actors and of the clocks.
LEMMA OthersType ==
    ASSUME TypeOK,
           (\E a \in Agents : Ack(a) \/ EndTurn(a)) \/ Speak \/ RepeatedPost \/ Move \/ Lapse
    PROVE  TypeOK'
<1> USE GateAssumption
<1>1. faults \in FaultType
  BY DEF TypeOK, FaultType
<1>2. counter \in Nat \ {0} /\ counter + 1 \in Nat \ {0}
  BY DEF TypeOK
<1>3. \A by \in Agents \cup {Human}, b \in Bodies \cup {Notice} : Row(by, b) \in Message
  <2>1. Grp \in BOOLEAN
    BY DEF Grp
  <2> QED
    BY <1>2, <2>1 DEF Row, Message, Ways
<1>4. ASSUME NEW a \in Agents, Ack(a) PROVE TypeOK'
  <2>1. hold' \in [Agents -> Nat] /\ faults' \in FaultType
    BY <1>4, RedisTypes DEF Ack
  <2> QED
    BY <1>4, <2>1 DEF TypeOK, Ack, roomVars, FaultType
<1>5. ASSUME NEW a \in Agents, EndTurn(a) PROVE TypeOK'
  <2>1. hold' \in [Agents -> Nat] /\ faults' \in FaultType
    BY <1>5, RedisTypes DEF EndTurn
  <2>2. run' \in [Agents -> Nat]
    <3>1. run \in [Agents -> Nat]
      BY DEF TypeOK
    <3>3. run[a] + 1 \in Nat
      BY <3>1
    <3>2. run' = [run EXCEPT ![a] = run[a] + 1]
      BY <1>5 DEF EndTurn
    <3> QED
      BY <3>1, <3>2, <3>3
  <2> QED
    BY <1>5, <2>1, <2>2 DEF TypeOK, EndTurn, roomVars, FaultType
<1>6. CASE Speak
  <2>1. log' \in Seq(Message)
    BY <1>3, <1>6, Appended DEF Speak
  <2>2. counter' \in Nat \ {0}
    BY <1>2, <1>6 DEF Speak
  <2> QED
    BY <1>6, <2>1, <2>2 DEF TypeOK, Speak, redisVars
<1>7. CASE RepeatedPost
  <2>1. counter' \in Nat \ {0}
    BY <1>2, <1>7 DEF RepeatedPost
  <2>2. faults' \in FaultType
    BY <1>1, <1>7, FaultUpdates DEF RepeatedPost
  <2> QED
    BY <1>7, <2>1, <2>2 DEF TypeOK, RepeatedPost, redisVars, FaultType
<1>8. CASE Move
  <2>1. PICK actor \in members, x \in Agents \cup {Human} :
           /\ members' = IF x \in members THEN members \ {x} ELSE members \cup {x}
           /\ log' = Append(log, Row(actor, Notice))
    BY <1>8 DEF Move
  <2>2. members' \in SUBSET (Agents \cup {Human}) /\ actor \in Agents \cup {Human}
    <3>1. members \in SUBSET (Agents \cup {Human})
      BY DEF TypeOK
    <3>2. members' = members \ {x} \/ members' = members \cup {x}
      BY <2>1
    <3> QED
      BY <3>1, <3>2
  <2>3. log' \in Seq(Message)
    BY <1>3, <2>1, <2>2, Appended
  <2>4. counter' \in Nat \ {0}
    BY <1>2, <1>8 DEF Move
  <2>5. faults' \in FaultType
    BY <1>1, <1>8, FaultUpdates DEF Move
  <2> QED
    BY <1>8, <2>2, <2>3, <2>4, <2>5 DEF TypeOK, Move, redisVars, FaultType
<1>9. CASE Lapse
  <2>1. faults' \in FaultType
    BY <1>1, <1>9, FaultUpdates DEF Lapse
  <2>2. aged' \in Nat
    <3>1. UNCHANGED aged \/ aged' = Len(log)
      BY <1>9 DEF Lapse
    <3>2. aged \in Nat
      BY DEF TypeOK
    <3> QED
      BY <3>1, <3>2, Rows
  <2>3. seen' \in [Agents -> Nat]
    <3>1. UNCHANGED seen \/ \E a \in Agents : seen' = [seen EXCEPT ![a] = 0]
      BY <1>9 DEF Lapse, redisVars
    <3>2. seen \in [Agents -> Nat]
      BY DEF TypeOK
    <3> QED
      BY <3>1, <3>2
  <2>4. hold' \in [Agents -> Nat]
    <3>1. UNCHANGED hold \/ \E a \in Agents : hold' = [hold EXCEPT ![a] = 0]
      BY <1>9 DEF Lapse, redisVars
    <3>2. hold \in [Agents -> Nat]
      BY DEF TypeOK
    <3> QED
      BY <3>1, <3>2
  <2>5. turnPost' \in [Agents -> [run : Nat, posts : Nat]]
    <3>1. \/ UNCHANGED turnPost
          \/ \E a \in Agents : turnPost' = [turnPost EXCEPT ![a] = [run |-> 0, posts |-> 0]]
      BY <1>9 DEF Lapse, redisVars
    <3>2. turnPost \in [Agents -> [run : Nat, posts : Nat]]
      BY DEF TypeOK
    <3> QED
      BY <3>1, <3>2
  <2> QED
    BY <1>9, <2>1, <2>2, <2>3, <2>4, <2>5 DEF TypeOK, Lapse, FaultType
<1> QED
  BY <1>4, <1>5, <1>6, <1>7, <1>8, <1>9

\* The invariant: types, the lock, and the order it gives the log.
IInv == TypeOK /\ LockHeld /\ CommitOrder

LEMMA TypeStep == IInv /\ [Next]_vars => TypeOK'
<1> SUFFICES ASSUME IInv, [Next]_vars PROVE TypeOK'
  OBVIOUS
<1>1. TypeOK /\ LockHeld
  BY DEF IInv
<1>2. CASE UNCHANGED vars
  BY <1>1, <1>2 DEF TypeOK, vars, roomVars, redisVars
<1>3. CASE Next
  BY <1>1, <1>3, PreflightType, TransactionType, AfterwardsType, OthersType DEF Next, Advance
<1> QED
  BY <1>2, <1>3

\* A command that moves leaves the others where they are.
LEMMA OnlyOneMoves ==
    ASSUME TypeOK, NEW p \in Procs, NEW q \in Procs, p # q
    PROVE  /\ \A s : Goto(p, s) => pc'[q] = pc[q]
           /\ \A d : Set(p, d) => draft'[q] = draft[q]
           /\ Done(p) => pc'[q] = pc[q] /\ draft'[q] = draft[q]
           /\ \A S : Hold(p, S) => pc'[q] = pc[q] /\ draft'[q] = draft[q]
<1>1. pc \in [Procs -> Steps] /\ draft \in [Procs -> Draft]
  BY DEF TypeOK
<1>2. \A s : Goto(p, s) => pc'[q] = pc[q]
  BY <1>1 DEF Goto
<1>3. \A d : Set(p, d) => draft'[q] = draft[q]
  BY <1>1 DEF Set
<1> QED
  BY <1>2, <1>3 DEF Done, Hold

\* Where a command that moves arrives.
LEMMA Arrives ==
    ASSUME TypeOK, NEW p \in Procs
    PROVE  /\ \A s : Goto(p, s) => pc'[p] = s
           /\ \A d : Set(p, d) => draft'[p] = d
           /\ Done(p) => pc'[p] = "idle"
           /\ \A S : Hold(p, S) => pc'[p] = "heldseen"
<1>1. pc \in [Procs -> Steps] /\ draft \in [Procs -> Draft]
  BY DEF TypeOK
<1>2. \A s : Goto(p, s) => pc'[p] = s
  BY <1>1 DEF Goto
<1>3. \A d : Set(p, d) => draft'[p] = d
  BY <1>1 DEF Set
<1> QED
  BY <1>2, <1>3 DEF Done, Hold

\* Outside the transaction a command neither takes the lock nor enters or leaves
\* the section it protects.
Outside(p) == Preflight(p) \/ Afterwards(p) \/ Show(p) \/ Start(p) \/ Look(p)

LEMMA OutsideMoves ==
    ASSUME TypeOK, NEW p \in Procs, Outside(p)
    PROVE  /\ UNCHANGED <<log, counter, lock>>
           /\ pc[p] \notin InTx /\ pc'[p] \notin InTx
           /\ \A q \in Procs \ {p} : pc'[q] = pc[q] /\ draft'[q] = draft[q]
<1>1. UNCHANGED <<log, counter, lock>>
  BY DEF Outside, Preflight, Afterwards, Show, Start, Look, roomVars, ReadTurnPost, MonologueGate,
     ConsumeHold, StaleToken, GetSeen, Freshness, VerbatimDup, HeldSeen, HeldHold,
     RecordOwn, CountPost, MarkPost, DropHold
<1>2. pc[p] \notin InTx
  BY DEF Outside, Preflight, Afterwards, Show, Start, Look, ReadTurnPost, MonologueGate,
     ConsumeHold, StaleToken, GetSeen, Freshness, VerbatimDup, HeldSeen, HeldHold,
     RecordOwn, CountPost, MarkPost, DropHold, InTx
<1>3. ASSUME NEW S PROVE Hold(p, S) => \E d : pc'[p] = "heldseen" /\ Set(p, d) /\ Goto(p, "heldseen")
  BY Arrives DEF Hold
<1>4. \A b, n : AfterHold(p, b, n) \in {"stale", "seen", "begin"}
  BY DEF AfterHold
<1>5. \E s \in Steps \ InTx : Goto(p, s)
  <2>1. CASE Preflight(p)
    BY <1>4, <2>1 DEF Preflight, ReadTurnPost, MonologueGate, ConsumeHold, StaleToken, GetSeen,
       Freshness, VerbatimDup, HeldSeen, HeldHold, Hold, Done, Steps, InTx
  <2>2. CASE Afterwards(p)
    BY <2>2 DEF Afterwards, RecordOwn, CountPost, MarkPost, DropHold, Done, Steps, InTx
  <2>3. CASE Show(p) \/ Start(p) \/ Look(p)
    BY <2>3 DEF Show, Start, Look, Done, Steps, InTx
  <2> QED
    BY <2>1, <2>2, <2>3 DEF Outside
<1>6. UNCHANGED draft \/ \E d : Set(p, d)
  <2>1. CASE Preflight(p)
    BY <2>1 DEF Preflight, ReadTurnPost, MonologueGate, ConsumeHold, StaleToken, GetSeen,
       Freshness, VerbatimDup, HeldSeen, HeldHold, Hold, Done
  <2>2. CASE Afterwards(p)
    BY <2>2 DEF Afterwards, RecordOwn, CountPost, MarkPost, DropHold, Done
  <2>3. CASE Show(p) \/ Start(p) \/ Look(p)
    BY <2>3 DEF Show, Start, Look, Done
  <2> QED
    BY <2>1, <2>2, <2>3 DEF Outside
<1>7. pc'[p] \notin InTx
  BY <1>5, Arrives
<1>8. \A q \in Procs \ {p} : pc'[q] = pc[q] /\ draft'[q] = draft[q]
  BY <1>5, <1>6, OnlyOneMoves
<1> QED
  BY <1>1, <1>2, <1>7, <1>8

\* What happens while the room is locked leaves the lock alone; the rest may move
\* the counter.
LEMMA OthersMove ==
    ASSUME (\E a \in Agents : Ack(a) \/ EndTurn(a)) \/ Speak \/ RepeatedPost \/ Move \/ Lapse
    PROVE  /\ UNCHANGED <<lock, pc, draft>>
           /\ UNCHANGED <<log, counter>> \/ RoomUnlocked
BY DEF Ack, EndTurn, Speak, RepeatedPost, Move, Lapse, roomVars

\* The transaction of one command keeps the lock of all.
LEMMA LockStep == IInv /\ [Next]_vars => LockHeld'
<1> SUFFICES ASSUME IInv, [Next]_vars, NEW q \in Procs, pc'[q] \in Locked
             PROVE  lock' = q /\ draft'[q].seq = counter'
  BY DEF LockHeld
<1> USE GateAssumption
<1>1. TypeOK /\ LockHeld
  BY DEF IInv
<1>2. Locked \subseteq InTx
  BY DEF Locked, InTx
<1>3. CASE UNCHANGED vars
  BY <1>1, <1>3 DEF vars, roomVars, LockHeld
<1>4. ASSUME NEW p \in Procs, Outside(p) PROVE lock' = q /\ draft'[q].seq = counter'
  BY <1>1, <1>2, <1>4, OutsideMoves DEF LockHeld
<1>5. CASE (\E a \in Agents : Ack(a) \/ EndTurn(a)) \/ Speak \/ RepeatedPost \/ Move \/ Lapse
  BY <1>1, <1>2, <1>5, OthersMove DEF LockHeld, RoomUnlocked
<1>6. ASSUME NEW p \in Procs, BeginTx(p) PROVE lock' = q /\ draft'[q].seq = counter'
  <2>1. pc'[p] \notin Locked
    BY <1>1, <1>6, Arrives DEF BeginTx, Locked
  <2>2. p # q
    BY <2>1
  <2>3. pc'[q] = pc[q] /\ draft'[q] = draft[q]
    BY <1>1, <1>6, <2>2, OnlyOneMoves DEF BeginTx
  <2> QED
    BY <1>1, <1>6, <2>3 DEF BeginTx, LockHeld, roomVars
<1>7. ASSUME NEW p \in Procs, ClaimSequence(p) PROVE lock' = q /\ draft'[q].seq = counter'
  <2>1. CASE p = q
    <3>1. draft'[p] = [draft[p] EXCEPT !.seq = counter]
      BY <1>1, <1>7, Arrives DEF ClaimSequence
    <3>2. draft[p] \in Draft
      BY <1>1 DEF TypeOK
    <3>3. draft'[p].seq = counter
      BY <3>1, <3>2 DEF Draft
    <3> QED
      BY <1>7, <2>1, <3>3 DEF ClaimSequence
  <2>2. CASE p # q
    <3>1. pc'[q] = pc[q]
      BY <1>1, <1>7, <2>2, OnlyOneMoves DEF ClaimSequence
    <3>2. lock = q
      BY <1>1, <3>1 DEF LockHeld
    <3> QED
      BY <1>7, <3>2 DEF ClaimSequence
  <2> QED
    BY <2>1, <2>2
<1>8. ASSUME NEW p \in Procs, Recheck(p) PROVE lock' = q /\ draft'[q].seq = counter'
  <2>1. pc[p] \in Locked /\ lock = p
    BY <1>1, <1>8 DEF Recheck, Locked, LockHeld
  <2>2. CASE p = q
    <3>1. Goto(p, "touch") /\ UNCHANGED <<lock, draft>>
      BY <1>1, <1>8, <2>2, Arrives DEF Recheck, Locked
    <3> QED
      BY <1>1, <1>8, <2>1, <2>2, <3>1 DEF Recheck, LockHeld
  <2>3. CASE p # q
    <3>1. pc'[q] = pc[q]
      BY <1>1, <1>8, <2>3, OnlyOneMoves DEF Recheck
    <3> QED
      BY <1>1, <2>1, <2>3, <3>1 DEF LockHeld
  <2> QED
    BY <2>2, <2>3
<1>9. ASSUME NEW p \in Procs, Touch(p) PROVE lock' = q /\ draft'[q].seq = counter'
  <2>1. p = q => pc[q] \in Locked
    BY <1>9 DEF Touch, Locked
  <2>2. p # q => pc'[q] = pc[q]
    BY <1>1, <1>9, OnlyOneMoves DEF Touch
  <2> QED
    BY <1>1, <1>9, <2>1, <2>2 DEF Touch, LockHeld, roomVars
<1>10. ASSUME NEW p \in Procs, CommitReply(p) PROVE lock' = q /\ draft'[q].seq = counter'
  <2>1. lock = p /\ pc'[p] \notin Locked
    BY <1>1, <1>10, Arrives DEF CommitReply, Locked, LockHeld
  <2>2. p # q => pc'[q] = pc[q]
    BY <1>1, <1>10, OnlyOneMoves DEF CommitReply
  <2> QED
    BY <1>1, <2>1, <2>2 DEF LockHeld
<1>11. ASSUME NEW p \in Procs, DeadlockVictim(p) \/ TxFails(p)
       PROVE  lock' = q /\ draft'[q].seq = counter'
  <2>1. Done(p)
    BY <1>11 DEF DeadlockVictim, TxFails
  <2>2. pc'[p] \notin Locked
    BY <1>1, <2>1, Arrives DEF Locked
  <2>3. p # q
    BY <2>2
  <2>4. pc'[q] = pc[q] /\ draft'[q] = draft[q]
    BY <1>1, <2>1, <2>3, OnlyOneMoves
  <2>5. lock = q /\ draft[q].seq = counter
    BY <1>1, <2>4 DEF LockHeld
  <2>6. ~ (pc[p] = "commit")
    BY <1>1, <2>3, <2>5 DEF LockHeld, Locked
  <2>7. lock' = lock /\ counter' = counter
    BY <1>11, <2>3, <2>5, <2>6 DEF DeadlockVictim, TxFails
  <2> QED
    BY <2>4, <2>5, <2>7
<1> QED
  BY <1>3, <1>4, <1>5, <1>6, <1>7, <1>8, <1>9, <1>10, <1>11 DEF Next, Advance, Transaction, Outside

\* A row whose sequence is the counter keeps the order, and the counter stays above.
LEMMA AppendOrdered ==
    ASSUME TypeOK, CommitOrder, NEW m \in Message, m.seq = counter,
           log' = Append(log, m), counter' = counter + 1
    PROVE  CommitOrder'
<1> DEFINE n == Len(log)
<1>1. n \in Nat /\ DOMAIN log = 1..n
  BY DEF TypeOK
<1>2. /\ DOMAIN log' = 1..(n + 1)
      /\ \A i \in 1..n : log'[i] = log[i]
      /\ log'[n + 1] = m
  <2>1. log' \in Seq(Message) /\ Len(log') = n + 1
    BY Appended
  <2> QED
    BY <2>1, Appended
<1>3. counter \in Nat /\ \A i \in 1..n : log[i].seq \in Nat
  BY <1>1, Rows DEF TypeOK
<1>4. \A i, j \in 1..n : i < j => log[i].seq < log[j].seq
  BY <1>1 DEF CommitOrder
<1>5. \A i \in 1..n : log[i].seq < counter
  BY <1>1 DEF CommitOrder
<1> HIDE DEF n
<1>6. \A i, j \in 1..(n + 1) : i < j => log'[i].seq < log'[j].seq
  <2> SUFFICES ASSUME NEW i \in 1..(n + 1), NEW j \in 1..(n + 1), i < j
               PROVE  log'[i].seq < log'[j].seq
    OBVIOUS
  <2>1. i \in 1..n /\ log'[i] = log[i]
    BY <1>1, <1>2
  <2>2. CASE j = n + 1
    BY <1>2, <1>5, <2>1, <2>2
  <2>3. CASE j \in 1..n
    BY <1>2, <1>4, <2>1, <2>3
  <2> QED
    BY <1>1, <2>2, <2>3
<1>7. \A i \in 1..(n + 1) : log'[i].seq < counter'
  <2> SUFFICES ASSUME NEW i \in 1..(n + 1) PROVE log'[i].seq < counter + 1
    OBVIOUS
  <2>1. CASE i = n + 1
    BY <1>2, <1>3, <2>1
  <2>2. CASE i \in 1..n
    <3>1. log'[i] = log[i] /\ log[i].seq \in Nat /\ log[i].seq < counter
      BY <1>2, <1>3, <1>5, <2>2
    <3>2. \A s \in Nat : s < counter => s < counter + 1
      BY <1>3
    <3> QED
      BY <3>1, <3>2
  <2> QED
    BY <1>1, <2>1, <2>2
<1> QED
  BY <1>2, <1>6, <1>7 DEF CommitOrder

LEMMA OrderStep == IInv /\ [Next]_vars => CommitOrder'
<1> SUFFICES ASSUME IInv, [Next]_vars PROVE CommitOrder'
  OBVIOUS
<1> USE GateAssumption
<1>1. TypeOK /\ LockHeld /\ CommitOrder
  BY DEF IInv
<1>2. CASE UNCHANGED <<log, counter>>
  BY <1>1, <1>2 DEF CommitOrder
<1>3. ASSUME NEW p \in Procs, pc[p] = "commit", Committed(p) PROVE CommitOrder'
  <2>1. Posted(p) \in Message /\ Posted(p).seq = counter /\ draft[p].seq = counter
    BY <1>1, <1>3, CommittedType DEF Posted
  <2> QED
    BY <1>1, <1>3, <2>1, AppendOrdered DEF Committed
<1>4. \A by \in Agents \cup {Human}, b \in Bodies \cup {Notice} :
         Row(by, b) \in Message /\ Row(by, b).seq = counter
  <2>1. Grp \in BOOLEAN
    BY DEF Grp
  <2>2. counter \in Nat \ {0}
    BY <1>1 DEF TypeOK
  <2> QED
    BY <2>1, <2>2 DEF Row, Message, Ways
<1>5. CASE Speak
  BY <1>1, <1>4, <1>5, AppendOrdered DEF Speak
<1>6. CASE Move
  <2>1. members \subseteq Agents \cup {Human}
    BY <1>1 DEF TypeOK
  <2> QED
    BY <1>1, <1>4, <1>6, <2>1, AppendOrdered DEF Move
<1>7. CASE RepeatedPost
  <2>1. UNCHANGED log /\ counter' = counter + 1 /\ counter \in Nat
    BY <1>1, <1>7 DEF RepeatedPost, TypeOK
  <2>2. \A i \in DOMAIN log : log[i].seq \in Nat
    BY <1>1, Rows
  <2> QED
    BY <1>1, <2>1, <2>2 DEF CommitOrder
<1>8. ASSUME NEW p \in Procs, Transaction(p) \/ TxFails(p)
      PROVE  UNCHANGED <<log, counter>> \/ (pc[p] = "commit" /\ Committed(p))
  BY <1>8 DEF Transaction, BeginTx, ClaimSequence, Recheck, Touch, CommitReply, DeadlockVictim, TxFails,
     roomVars
<1>9. ASSUME NEW p \in Procs, Outside(p) PROVE UNCHANGED <<log, counter>>
  BY <1>1, <1>9, OutsideMoves
<1>10. CASE (\E a \in Agents : Ack(a) \/ EndTurn(a)) \/ Lapse
  BY <1>2, <1>10 DEF Ack, EndTurn, Lapse, roomVars
<1>11. CASE UNCHANGED vars
  BY <1>2, <1>11 DEF vars, roomVars
<1>12. CASE \E p \in Procs : Start(p) \/ Look(p) \/ Advance(p) \/ TxFails(p)
  <2>1. PICK p \in Procs : Outside(p) \/ Transaction(p) \/ TxFails(p)
    BY <1>12 DEF Advance, Outside
  <2> QED
    BY <1>2, <1>3, <1>8, <1>9, <2>1
<1> QED
  BY <1>5, <1>6, <1>7, <1>10, <1>11, <1>12 DEF Next

LEMMA InitIInv == Init => IInv
<1> SUFFICES ASSUME Init PROVE IInv
  OBVIOUS
<1>1. TypeOK
  BY InitType
<1>2. LockHeld
  BY DEF Init, LockHeld, Locked
<1>3. CommitOrder
  BY DEF Init, CommitOrder
<1> QED
  BY <1>1, <1>2, <1>3 DEF IInv

\* The invariant holds of every behaviour.
THEOREM LockInvariant == Spec => []IInv
<1>1. IInv /\ [Next]_vars => IInv'
  BY TypeStep, LockStep, OrderStep DEF IInv
<1> QED
  BY InitIInv, <1>1, PTL DEF Spec

\* Commands, messages and Redis keys are always of their types.
THEOREM TypeCorrect == Spec => []TypeOK
<1>1. IInv => TypeOK
  BY DEF IInv
<1> QED
  BY <1>1, LockInvariant, PTL

\* Messages become visible in the order of their sequences, whatever commands,
\* failures, membership changes and retried requests run at once.
THEOREM CommitsInOrder == Spec => []CommitOrder
<1>1. IInv => CommitOrder
  BY DEF IInv
<1> QED
  BY <1>1, LockInvariant, PTL

-----------------------------------------------------------------------------
\* The check made under the lock holds until the row is committed: nobody else
\* can write to the log in between.
Checked ==
    \A p \in Procs :
        pc[p] \in {"touch", "commit"} /\ draft[p].group => ~Repeats(Me(p), draft[p].body)

\* Between the check and the commit of p the log changes only by p's commit.
LEMMA LogGuarded ==
    ASSUME IInv, [Next]_vars, NEW q \in Procs, pc[q] \in Locked
    PROVE  UNCHANGED log \/ (pc[q] = "commit" /\ Committed(q) /\ pc'[q] \notin Locked)
<1>1. TypeOK /\ LockHeld /\ lock = q /\ pc[q] \in InTx
  BY DEF IInv, LockHeld, Locked, InTx
<1>2. ASSUME NEW p \in Procs, p # q, pc[p] = "commit" PROVE FALSE
  BY <1>1, <1>2 DEF LockHeld, Locked
<1>3. ASSUME NEW p \in Procs, Outside(p) PROVE UNCHANGED log
  BY <1>1, <1>3, OutsideMoves
<1>4. ASSUME NEW p \in Procs, Transaction(p) \/ TxFails(p)
      PROVE  UNCHANGED log \/ (pc[q] = "commit" /\ Committed(q) /\ pc'[q] \notin Locked)
  <2>1. UNCHANGED log \/ (pc[p] = "commit" /\ Committed(p) /\ (Goto(p, "own") \/ Done(p)))
    BY <1>4 DEF Transaction, BeginTx, ClaimSequence, Recheck, Touch, CommitReply, DeadlockVictim, TxFails,
       roomVars
  <2>2. Goto(p, "own") \/ Done(p) => pc'[p] \notin Locked
    BY <1>1, Arrives DEF Locked
  <2> QED
    BY <1>2, <2>1, <2>2
<1>5. CASE (\E a \in Agents : Ack(a) \/ EndTurn(a)) \/ Speak \/ RepeatedPost \/ Move \/ Lapse
  BY <1>1, <1>5, OthersMove DEF RoomUnlocked
<1>6. CASE UNCHANGED vars
  BY <1>6 DEF vars, roomVars
<1>7. CASE \E p \in Procs : Start(p) \/ Look(p) \/ Advance(p) \/ TxFails(p)
  <2>1. PICK p \in Procs : Outside(p) \/ Transaction(p) \/ TxFails(p)
    BY <1>7 DEF Advance, Outside
  <2> QED
    BY <1>3, <1>4, <2>1
<1> QED
  BY <1>5, <1>6, <1>7 DEF Next

\* How a command gets past the check: by making it, or by having made it.
LEMMA PastCheck ==
    ASSUME IInv, [Next]_vars, NEW q \in Procs, pc'[q] \in {"touch", "commit"}
    PROVE  /\ pc[q] \in Locked /\ UNCHANGED log /\ draft'[q] = draft[q]
           /\ \/ pc[q] \in {"touch", "commit"}
              \/ ~ (draft[q].group /\ Repeats(Me(q), draft[q].body))
<1>1. TypeOK
  BY DEF IInv
<1>2. pc'[q] \in InTx /\ pc'[q] \in Locked
  BY DEF InTx, Locked
<1> DEFINE Goal == /\ pc[q] \in Locked /\ draft'[q] = draft[q]
                   /\ \/ pc[q] \in {"touch", "commit"}
                      \/ ~ (draft[q].group /\ Repeats(Me(q), draft[q].body))
<1>3. ASSUME pc'[q] = pc[q], draft'[q] = draft[q] PROVE Goal
  BY <1>3 DEF Locked
<1>4. ASSUME NEW p \in Procs, Outside(p) PROVE Goal
  BY <1>1, <1>2, <1>3, <1>4, OutsideMoves
<1>5. ASSUME NEW p \in Procs, Transaction(p) \/ TxFails(p), p # q PROVE Goal
  <2>1. pc'[q] = pc[q]
    BY <1>1, <1>5, OnlyOneMoves
       DEF Transaction, BeginTx, ClaimSequence, Recheck, Touch, CommitReply, DeadlockVictim, TxFails
  <2>2. draft'[q] = draft[q]
    BY <1>1, <1>5, OnlyOneMoves
       DEF Transaction, BeginTx, ClaimSequence, Recheck, Touch, CommitReply, DeadlockVictim, TxFails
  <2> QED
    BY <1>3, <2>1, <2>2
<1>6. ASSUME Transaction(q) \/ TxFails(q) PROVE Goal
  <2>1. CASE Recheck(q)
    <3>1. pc[q] = "recheck"
      BY <2>1 DEF Recheck
    <3>2. ~ (draft[q].group /\ Repeats(Me(q), draft[q].body)) /\ UNCHANGED draft
      BY <1>1, <2>1, Arrives DEF Recheck
    <3> QED
      BY <3>1, <3>2 DEF Locked
  <2>2. CASE Touch(q)
    BY <2>2 DEF Touch, Locked
  <2>3. CASE BeginTx(q) \/ ClaimSequence(q) \/ CommitReply(q) \/ DeadlockVictim(q) \/ TxFails(q)
    <3>1. pc'[q] \notin {"touch", "commit"}
      BY <1>1, <2>3, Arrives DEF BeginTx, ClaimSequence, CommitReply, DeadlockVictim, TxFails
    <3> QED
      BY <3>1
  <2> QED
    BY <1>6, <2>1, <2>2, <2>3 DEF Transaction
<1>7. ASSUME (\E a \in Agents : Ack(a) \/ EndTurn(a)) \/ Speak \/ RepeatedPost \/ Move \/ Lapse
      PROVE  Goal
  BY <1>3, <1>7, OthersMove
<1>8. ASSUME UNCHANGED vars PROVE Goal
  BY <1>3, <1>8 DEF vars
<1>9. ASSUME \E p \in Procs : Start(p) \/ Look(p) \/ Advance(p) \/ TxFails(p) PROVE Goal
  <2>1. PICK p \in Procs : Outside(p) \/ Transaction(p) \/ TxFails(p)
    BY <1>9 DEF Advance, Outside
  <2> QED
    BY <1>4, <1>5, <1>6, <2>1
<1>10. Goal
  BY <1>7, <1>8, <1>9 DEF Next
<1>11. UNCHANGED log
  BY <1>2, <1>10, LogGuarded
<1> QED
  BY <1>10, <1>11

LEMMA CheckedStep == IInv /\ Checked /\ [Next]_vars => Checked'
<1> SUFFICES ASSUME IInv, Checked, [Next]_vars,
                    NEW q \in Procs, pc'[q] \in {"touch", "commit"}, draft'[q].group
             PROVE  ~Repeats(Me(q), draft[q].body)'
  BY DEF Checked, Me
<1>1. UNCHANGED log /\ draft'[q] = draft[q]
  BY PastCheck
<1>2. ~Repeats(Me(q), draft[q].body)
  BY <1>1, PastCheck DEF Checked
<1> QED
  BY <1>1, <1>2 DEF Repeats, TextOfPeers, IsLast, Me

\* A row that repeats nobody, a notice or a human's row keeps the log free of
\* duplicates.
LEMMA AppendFresh ==
    ASSUME TypeOK, NoVerbatimDup, NEW m \in Message, log' = Append(log, m),
           m.by \in Agents /\ m.body # Notice /\ m.group => ~Repeats(m.by, m.body)
    PROVE  NoVerbatimDup'
<1> DEFINE n == Len(log)
<1>1. n \in Nat /\ DOMAIN log = 1..n
  BY DEF TypeOK
<1>2. /\ DOMAIN log' = 1..(n + 1)
      /\ \A i \in 1..n : log'[i] = log[i]
      /\ log'[n + 1] = m
  <2>1. log' \in Seq(Message) /\ Len(log') = n + 1
    BY Appended
  <2> QED
    BY <2>1, Appended
<1>a. DOMAIN log' = 1..(n + 1)
  BY <1>2
<1> HIDE DEF n
<1> SUFFICES \A i \in 1..(n + 1) :
               log'[i].by \in Agents /\ log'[i].body # Notice /\ log'[i].group =>
                 ~ \E j \in 1..(i - 1) :
                     /\ log'[j].by # log'[i].by /\ log'[j].body = log'[i].body
                     /\ \A k \in (j+1)..(i-1) : log'[k].by = log'[i].by \/ log'[k].body = Notice
  BY <1>a DEF NoVerbatimDup
<1> SUFFICES ASSUME NEW i \in 1..(n + 1),
                    log'[i].by \in Agents, log'[i].body # Notice, log'[i].group,
                    NEW j \in 1..(i - 1),
                    log'[j].by # log'[i].by, log'[j].body = log'[i].body,
                    \A k \in (j+1)..(i-1) : log'[k].by = log'[i].by \/ log'[k].body = Notice
             PROVE  FALSE
  OBVIOUS
<1>3. j \in 1..n /\ log'[j] = log[j] /\ \A k \in (j+1)..(i-1) : k \in 1..n /\ log'[k] = log[k]
  BY <1>1, <1>2
<1>4. CASE i \in 1..n
  <2>1. log'[i] = log[i]
    BY <1>2, <1>4
  <2>2. \A k \in (j+1)..(i-1) : log[k].by = log[i].by \/ log[k].body = Notice
    BY <1>3, <2>1
  <2> QED
    BY <1>1, <1>3, <1>4, <2>1, <2>2 DEF NoVerbatimDup
<1>5. CASE i = n + 1
  <2>1. \A k \in (j+1)..n : log[k].by = m.by \/ log[k].body = Notice
    BY <1>1, <1>2, <1>3, <1>5
  <2>2. log[j].by # m.by /\ log[j].body = m.body /\ m.body # Notice
    BY <1>2, <1>3, <1>5
  <2>3. j \in TextOfPeers(m.by)
    BY <1>1, <1>3, <2>2 DEF TextOfPeers
  <2>4. \A k \in TextOfPeers(m.by) : k <= j
    <3> SUFFICES ASSUME NEW k \in TextOfPeers(m.by), ~(k <= j) PROVE FALSE
      OBVIOUS
    <3>1. k \in 1..n /\ log[k].by # m.by /\ log[k].body # Notice
      BY <1>1 DEF TextOfPeers
    <3>2. k \in (j+1)..n
      BY <1>1, <1>3, <3>1
    <3> QED
      BY <2>1, <3>1, <3>2
  <2>5. Repeats(m.by, m.body)
    BY <1>1, <1>3, <2>2, <2>3, <2>4 DEF Repeats, IsLast
  <2> QED
    BY <1>2, <1>5, <2>2, <2>5
<1> QED
  BY <1>1, <1>4, <1>5

LEMMA DupStep == IInv /\ Checked /\ NoVerbatimDup /\ [Next]_vars => NoVerbatimDup'
<1> SUFFICES ASSUME IInv, Checked, NoVerbatimDup, [Next]_vars PROVE NoVerbatimDup'
  OBVIOUS
<1> USE GateAssumption
<1>1. TypeOK /\ LockHeld
  BY DEF IInv
<1>2. CASE UNCHANGED log
  BY <1>2 DEF NoVerbatimDup
<1>3. ASSUME NEW p \in Procs, pc[p] = "commit", Committed(p) PROVE NoVerbatimDup'
  <2>1. Posted(p) \in Message
    BY <1>1, <1>3, CommittedType
  <2>2. Posted(p).by = Me(p) /\ Posted(p).body = draft[p].body /\ Posted(p).group = draft[p].group
    BY DEF Posted
  <2>3. draft[p].group => ~Repeats(Me(p), draft[p].body)
    BY <1>3 DEF Checked
  <2>4. log' = Append(log, Posted(p))
    BY <1>3 DEF Committed
  <2> QED
    BY <1>1, <2>1, <2>2, <2>3, <2>4, AppendFresh
<1>4. \A by \in Agents \cup {Human}, b \in Bodies \cup {Notice} :
         Row(by, b) \in Message /\ Row(by, b).by = by /\ Row(by, b).body = b
  <2>1. Grp \in BOOLEAN
    BY DEF Grp
  <2>2. counter \in Nat \ {0}
    BY <1>1 DEF TypeOK
  <2> QED
    BY <2>1, <2>2 DEF Row, Message, Ways
<1>5. CASE Speak
  BY <1>1, <1>4, <1>5, AppendFresh DEF Speak
<1>6. CASE Move
  <2>1. members \subseteq Agents \cup {Human}
    BY <1>1 DEF TypeOK
  <2> QED
    <3>1. PICK actor \in members : log' = Append(log, Row(actor, Notice))
      BY <1>6 DEF Move
    <3>2. Row(actor, Notice) \in Message /\ Row(actor, Notice).body = Notice
      BY <1>4, <2>1
    <3> QED
      BY <1>1, <3>1, <3>2, AppendFresh
<1>7. ASSUME NEW p \in Procs, Transaction(p) \/ TxFails(p)
      PROVE  UNCHANGED log \/ (pc[p] = "commit" /\ Committed(p))
  BY <1>7 DEF Transaction, BeginTx, ClaimSequence, Recheck, Touch, CommitReply, DeadlockVictim, TxFails,
     roomVars
<1>8. ASSUME NEW p \in Procs, Outside(p) PROVE UNCHANGED log
  BY <1>1, <1>8, OutsideMoves
<1>9. CASE (\E a \in Agents : Ack(a) \/ EndTurn(a)) \/ RepeatedPost \/ Lapse
  BY <1>2, <1>9 DEF Ack, EndTurn, RepeatedPost, Lapse, roomVars
<1>10. CASE UNCHANGED vars
  BY <1>2, <1>10 DEF vars, roomVars
<1>11. CASE \E p \in Procs : Start(p) \/ Look(p) \/ Advance(p) \/ TxFails(p)
  <2>1. PICK p \in Procs : Outside(p) \/ Transaction(p) \/ TxFails(p)
    BY <1>11 DEF Advance, Outside
  <2> QED
    BY <1>2, <1>3, <1>7, <1>8, <2>1
<1> QED
  BY <1>5, <1>6, <1>9, <1>10, <1>11 DEF Next

\* In a group no agent ever repeats the last text message of somebody else.
THEOREM NoDuplicates == Spec => []NoVerbatimDup
<1>1. Init => Checked /\ NoVerbatimDup
  <2>1. Init => Checked
    BY DEF Init, Checked
  <2>2. Init => NoVerbatimDup
    BY DEF Init, NoVerbatimDup
  <2> QED
    BY <2>1, <2>2
<1>2. IInv /\ Checked /\ NoVerbatimDup /\ [Next]_vars => Checked' /\ NoVerbatimDup'
  BY CheckedStep, DupStep
<1> QED
  BY <1>1, <1>2, LockInvariant, PTL DEF Spec

-----------------------------------------------------------------------------
(* The cursor and the acknowledgements are honest *)

\* The row of a sequence is a peer's, or one's own; a HELD envelope tells of the former.
Written(a, s) == \E i \in DOMAIN log : log[i].seq = s /\ log[i].by = a
Told(a, s) == s \in shown[a] /\ \E i \in DOMAIN log : log[i].seq = s /\ log[i].by # a
Known(a, s) == s \in shown[a] \/ Written(a, s)

SeenOK(a) == seen[a] > 0 => Known(a, seen[a])

\* A token stands on a row its agent was told of, and so it does in the hands of the
\* command that consumed it, until the command has compared it with the room.
HoldOK(a) == hold[a] > 0 => Told(a, hold[a])

DraftOK(p) ==
    /\ pc[p] \in {"stale", "heldseen", "heldhold"} => Told(Me(p), draft[p].base)
    /\ pc[p] \in {"turnpost", "gate", "hold", "seen", "fresh", "dup"} => ~draft[p].armed
    /\ pc[p] = "begin" /\ draft[p].armed /\ draft[p].base > 0 => draft[p].base \in shown[Me(p)]
    /\ pc[p] = "show" => draft[p].base \in shown[Me(p)]
    /\ pc[p] = "own" => Written(Me(p), draft[p].seq)

Honest ==
    /\ \A a \in Agents : SeenOK(a) /\ HoldOK(a)
    /\ \A p \in Procs : DraftOK(p)

\* Rows stay where they are, and what was shown was shown.
Grows ==
    /\ \A i \in DOMAIN log : i \in DOMAIN log' /\ log'[i] = log[i]
    /\ \A a \in Agents : shown[a] \subseteq shown'[a]

LEMMA AppendGrows ==
    ASSUME TypeOK, NEW m \in Message, log' = Append(log, m)
    PROVE  /\ \A i \in DOMAIN log : i \in DOMAIN log' /\ log'[i] = log[i]
           /\ Len(log) + 1 \in DOMAIN log' /\ log'[Len(log) + 1] = m
<1>1. DOMAIN log = 1 .. Len(log) /\ Len(log) \in Nat
  BY Rows
<1>2. log' \in Seq(Message) /\ Len(log') = Len(log) + 1
  BY Appended
<1>3. DOMAIN log' = 1 .. Len(log) + 1
  BY <1>2
<1> QED
  BY <1>1, <1>3, Appended

\* What a HELD envelope leaves behind.
LEMMA HoldShows ==
    ASSUME TypeOK, NEW p \in Procs, NEW S, S \subseteq DOMAIN log, Hold(p, S)
    PROVE  /\ \A a \in Agents : shown[a] \subseteq shown'[a]
           /\ \E i \in S : draft'[p].base = log[i].seq /\ log[i].seq \in shown'[Me(p)]
<1> USE GateAssumption
<1>1. Me(p) \in Agents /\ draft[p] \in Draft /\ shown \in [Agents -> SUBSET Nat]
  BY DEF Me, TypeOK
<1>2. shown' = [shown EXCEPT ![Me(p)] = shown[Me(p)] \cup {log[i].seq : i \in S}]
  BY DEF Hold
<1>3. PICK i \in DOMAIN log :
        IsLast(i, S) /\ Set(p, [draft[p] EXCEPT !.base = log[i].seq, !.armed = FALSE])
  BY DEF Hold
<1>4. draft'[p] = [draft[p] EXCEPT !.base = log[i].seq, !.armed = FALSE]
  BY <1>3, Arrives
<1>5. draft'[p].base = log[i].seq
  BY <1>1, <1>4 DEF Draft
<1> QED
  BY <1>1, <1>2, <1>3, <1>5 DEF IsLast

\* Which rows a command shows.
LEMMA ShowsRows ==
    ASSUME NEW a \in Agents
    PROVE  /\ \A b \in Nat : Held(a, b) \subseteq {i \in DOMAIN log : log[i].by # a}
           /\ {i \in DOMAIN log : IsLast(i, TextOfPeers(a))} \subseteq
                {i \in DOMAIN log : log[i].by # a}
BY DEF Held, Newer, IsLast, TextOfPeers

\* Who shows rows.
LEMMA ShownSteps ==
    ASSUME TypeOK, NEW p \in Procs, Outside(p) \/ Transaction(p) \/ TxFails(p)
    PROVE  \/ UNCHANGED shown
           \/ /\ pc[p] \in {"stale", "fresh", "dup", "recheck"}
              /\ \E S \in SUBSET {i \in DOMAIN log : log[i].by # Me(p)} : Hold(p, S)
           \/ Look(p)
<1>1. Me(p) \in Agents /\ draft[p].base \in Nat
  <2>1. draft[p] \in Draft
    BY DEF TypeOK
  <2> QED
    BY <2>1, GateAssumption DEF Me, Draft
<1>2. CASE StaleToken(p) \/ Freshness(p) \/ VerbatimDup(p)
  BY <1>1, <1>2, ShowsRows DEF StaleToken, Freshness, VerbatimDup
<1>3. CASE Recheck(p)
  BY <1>1, <1>3, ShowsRows DEF Recheck
<1>4. CASE Outside(p) /\ ~ (StaleToken(p) \/ Freshness(p) \/ VerbatimDup(p) \/ Look(p))
  BY <1>4 DEF Outside, Preflight, Afterwards, Show, Start, ReadTurnPost, MonologueGate,
     ConsumeHold, GetSeen, HeldSeen, HeldHold, RecordOwn, CountPost, MarkPost, DropHold
<1>5. CASE (Transaction(p) /\ ~Recheck(p)) \/ TxFails(p)
  BY <1>5 DEF Transaction, BeginTx, ClaimSequence, Touch, CommitReply, DeadlockVictim, TxFails
<1> QED
  BY <1>2, <1>3, <1>4, <1>5

LEMMA LookShows ==
    ASSUME TypeOK, NEW p \in Procs, Look(p)
    PROVE  /\ \A a \in Agents : shown[a] \subseteq shown'[a]
           /\ pc'[p] = "show" /\ draft'[p].base \in shown'[Me(p)]
<1> USE GateAssumption
<1>1. Me(p) \in Agents /\ shown \in [Agents -> SUBSET Nat]
  BY DEF Me, TypeOK
<1>2. PICK first \in DOMAIN log, all \in BOOLEAN :
        LET rows == {i \in first..Len(log) : all \/ log[i].by # Me(p)}
        IN  /\ \E i \in DOMAIN log :
                  IsLast(i, rows) /\ Set(p, [NoDraft EXCEPT !.base = log[i].seq])
            /\ shown' = [shown EXCEPT ![Me(p)] = @ \cup {log[i].seq : i \in rows}]
  BY DEF Look
<1> DEFINE rows == {i \in first..Len(log) : all \/ log[i].by # Me(p)}
<1>3. PICK i \in DOMAIN log : IsLast(i, rows) /\ Set(p, [NoDraft EXCEPT !.base = log[i].seq])
  BY <1>2
<1>4. shown' = [shown EXCEPT ![Me(p)] = shown[Me(p)] \cup {log[j].seq : j \in rows}]
  BY <1>2
<1>5. i \in rows
  BY <1>3 DEF IsLast
<1> HIDE DEF rows
<1>6. draft'[p] = [NoDraft EXCEPT !.base = log[i].seq]
  BY <1>3, Arrives
<1>7. draft'[p].base = log[i].seq
  BY <1>6 DEF NoDraft
<1>8. pc'[p] = "show"
  BY Arrives DEF Look
<1> QED
  BY <1>1, <1>4, <1>5, <1>7, <1>8

LEMMA RowsStay ==
    ASSUME IInv, [Next]_vars
    PROVE  \A i \in DOMAIN log : i \in DOMAIN log' /\ log'[i] = log[i]
<1> USE GateAssumption
<1>1. TypeOK /\ LockHeld
  BY DEF IInv
<1> DEFINE Stay == \A i \in DOMAIN log : i \in DOMAIN log' /\ log'[i] = log[i]
<1>2. ASSUME UNCHANGED log PROVE Stay
  BY <1>2
<1>3. ASSUME NEW m \in Message, log' = Append(log, m) PROVE Stay
  BY <1>1, <1>3, AppendGrows
<1>4. ASSUME NEW p \in Procs, pc[p] = "commit", Committed(p) PROVE Stay
  <2>1. Posted(p) \in Message
    BY <1>1, <1>4, CommittedType
  <2>2. log' = Append(log, Posted(p))
    BY <1>4 DEF Committed
  <2> QED
    BY <1>3, <2>1, <2>2
<1> SUFFICES Stay
  OBVIOUS
<1> HIDE DEF Stay
<1>5. \A by \in Agents \cup {Human}, b \in Bodies \cup {Notice} : Row(by, b) \in Message
  <2>1. Grp \in BOOLEAN /\ counter \in Nat \ {0}
    BY <1>1 DEF Grp, TypeOK
  <2> QED
    BY <2>1 DEF Row, Message, Ways
<1>6. CASE Speak \/ Move
  <2>1. members \subseteq Agents \cup {Human}
    BY <1>1 DEF TypeOK
  <2>2. \E by \in Agents \cup {Human}, b \in Bodies \cup {Notice} : log' = Append(log, Row(by, b))
    BY <1>6, <2>1 DEF Speak, Move
  <2> QED
    BY <1>3, <1>5, <2>2
<1>7. CASE (\E a \in Agents : Ack(a) \/ EndTurn(a)) \/ RepeatedPost \/ Lapse \/ UNCHANGED vars
  <2>1. UNCHANGED log
    BY <1>7 DEF Ack, EndTurn, RepeatedPost, Lapse, vars, roomVars
  <2> QED
    BY <1>2, <2>1
<1>8. ASSUME NEW p \in Procs, Outside(p) PROVE Stay
  <2>1. UNCHANGED log
    BY <1>1, <1>8, OutsideMoves
  <2> QED
    BY <1>2, <2>1
<1>9. ASSUME NEW p \in Procs, Transaction(p) \/ TxFails(p) PROVE Stay
  <2>1. UNCHANGED log \/ (pc[p] = "commit" /\ Committed(p))
    BY <1>9 DEF Transaction, BeginTx, ClaimSequence, Recheck, Touch, CommitReply,
       DeadlockVictim, TxFails, roomVars
  <2> QED
    BY <1>2, <1>4, <2>1
<1>10. CASE \E p \in Procs : Start(p) \/ Look(p) \/ Advance(p) \/ TxFails(p)
  <2>1. PICK p \in Procs : Outside(p) \/ Transaction(p) \/ TxFails(p)
    BY <1>10 DEF Advance, Outside
  <2> QED
    BY <1>8, <1>9, <2>1
<1> QED
  BY <1>6, <1>7, <1>10 DEF Next

LEMMA ShownStays ==
    ASSUME TypeOK, [Next]_vars
    PROVE  \A a \in Agents : shown[a] \subseteq shown'[a]
<1> DEFINE Stay == \A a \in Agents : shown[a] \subseteq shown'[a]
<1>1. ASSUME UNCHANGED shown PROVE Stay
  BY <1>1
<1>2. ASSUME NEW p \in Procs, NEW S \in SUBSET {i \in DOMAIN log : log[i].by # Me(p)}, Hold(p, S)
      PROVE  Stay
  BY <1>2, HoldShows
<1>3. ASSUME NEW p \in Procs, Look(p) PROVE Stay
  BY <1>3, LookShows
<1> SUFFICES Stay
  OBVIOUS
<1> HIDE DEF Stay
<1>4. CASE (\E a \in Agents : Ack(a) \/ EndTurn(a)) \/ Speak \/ Move \/ RepeatedPost \/ Lapse
           \/ UNCHANGED vars
  <2>1. UNCHANGED shown
    BY <1>4 DEF Ack, EndTurn, Speak, Move, RepeatedPost, Lapse, vars
  <2> QED
    BY <1>1, <2>1
<1>5. CASE \E p \in Procs : Start(p) \/ Look(p) \/ Advance(p) \/ TxFails(p)
  <2>1. PICK p \in Procs : Outside(p) \/ Transaction(p) \/ TxFails(p)
    BY <1>5 DEF Advance, Outside
  <2> QED
    BY <1>1, <1>2, <1>3, <2>1, ShownSteps
<1> QED
  BY <1>4, <1>5 DEF Next

LEMMA RoomGrows == IInv /\ [Next]_vars => Grows
  BY RowsStay, ShownStays DEF IInv, Grows

\* What was known stays known.
LEMMA KnownStays ==
    ASSUME Grows, NEW a \in Agents
    PROVE  /\ \A s \in Nat : Written(a, s) => Written(a, s)'
           /\ \A s \in Nat : Told(a, s) => Told(a, s)'
           /\ \A s \in Nat : Known(a, s) => Known(a, s)'
BY DEF Grows, Written, Told, Known

\* Where the cursors and the tokens come from.
LEMMA SeenSteps ==
    ASSUME TypeOK, [Next]_vars, NEW a \in Agents, seen'[a] # seen[a]
    PROVE  \/ seen'[a] = 0
           \/ \E p \in Procs : /\ Me(p) = a
                               /\ \/ pc[p] \in {"heldseen", "show"} /\ seen'[a] = draft[p].base
                                  \/ pc[p] = "own" /\ seen'[a] = draft[p].seq
<1> DEFINE From == \/ seen'[a] = 0
                   \/ \E p \in Procs : /\ Me(p) = a
                                       /\ \/ pc[p] \in {"heldseen", "show"} /\ seen'[a] = draft[p].base
                                          \/ pc[p] = "own" /\ seen'[a] = draft[p].seq
<1>1. seen \in [Agents -> Nat]
  BY DEF TypeOK
<1>2. ASSUME NEW b \in Agents, NEW n \in Nat, RecordSeen(b, n) PROVE a = b /\ seen'[a] = n
  <2>1. seen' = [seen EXCEPT ![b] = Greater(seen[b], n)]
    BY <1>2 DEF RecordSeen
  <2>2. a = b
    BY <1>1, <2>1
  <2>3. seen'[a] = Greater(seen[a], n)
    BY <1>1, <2>1, <2>2
  <2> QED
    BY <2>2, <2>3 DEF Greater
<1>3. ASSUME NEW p \in Procs, HeldSeen(p) \/ Show(p) \/ RecordOwn(p) PROVE From
  <2>1. Me(p) \in Agents /\ draft[p].base \in Nat /\ draft[p].seq \in Nat
    <3>1. draft[p] \in Draft
      BY DEF TypeOK
    <3> QED
      BY <3>1, GateAssumption DEF Me, Draft
  <2> QED
    BY <1>2, <1>3, <2>1 DEF HeldSeen, Show, RecordOwn
<1>4. ASSUME NEW p \in Procs, Outside(p) \/ Transaction(p) \/ TxFails(p) PROVE From
  <2>1. CASE HeldSeen(p) \/ Show(p) \/ RecordOwn(p)
    BY <1>3, <2>1
  <2>2. CASE Transaction(p) \/ TxFails(p)
    BY <2>2 DEF Transaction, BeginTx, ClaimSequence, Recheck, Touch, CommitReply, DeadlockVictim,
       TxFails, redisVars
  <2>3. CASE Outside(p) /\ ~ (HeldSeen(p) \/ Show(p) \/ RecordOwn(p))
    BY <2>3 DEF Outside, Preflight, Afterwards, Start, Look, ReadTurnPost, MonologueGate,
       ConsumeHold, StaleToken, GetSeen, Freshness, VerbatimDup, HeldHold, CountPost, MarkPost,
       DropHold, redisVars
  <2> QED
    BY <1>4, <2>1, <2>2, <2>3
<1>5. CASE Lapse
  <2>1. \/ UNCHANGED seen
        \/ \E b \in Agents : seen' = [seen EXCEPT ![b] = 0]
    BY <1>5 DEF Lapse, redisVars
  <2> QED
    BY <1>1, <2>1
<1>6. CASE (\E b \in Agents : Ack(b) \/ EndTurn(b)) \/ Speak \/ Move \/ RepeatedPost \/ UNCHANGED vars
  BY <1>6 DEF Ack, EndTurn, Speak, Move, RepeatedPost, vars, redisVars
<1> QED
  BY <1>4, <1>5, <1>6 DEF Next, Advance, Outside

LEMMA HoldSteps ==
    ASSUME TypeOK, [Next]_vars, NEW a \in Agents, hold'[a] # hold[a]
    PROVE  \/ hold'[a] = 0
           \/ \E p \in Procs : Me(p) = a /\ pc[p] = "heldhold" /\ hold'[a] = draft[p].base
<1> DEFINE From == \/ hold'[a] = 0
                   \/ \E p \in Procs : Me(p) = a /\ pc[p] = "heldhold" /\ hold'[a] = draft[p].base
<1>1. hold \in [Agents -> Nat]
  BY DEF TypeOK
<1>2. ASSUME NEW p \in Procs, HeldHold(p) PROVE From
  <2>1. hold' = [hold EXCEPT ![Me(p)] = draft[p].base] /\ pc[p] = "heldhold"
    BY <1>2 DEF HeldHold, RecordHold
  <2> QED
    BY <1>1, <2>1
<1>3. ASSUME NEW b \in Agents, hold' = [hold EXCEPT ![b] = 0] PROVE From
  BY <1>1, <1>3
<1>4. ASSUME NEW b \in Agents, ClearHold(b) PROVE From
  BY <1>3, <1>4 DEF ClearHold
<1>5. ASSUME NEW p \in Procs, Outside(p) \/ Transaction(p) \/ TxFails(p) PROVE From
  <2>0. Me(p) \in Agents
    BY GateAssumption DEF Me
  <2>1. CASE HeldHold(p)
    BY <1>2, <2>1
  <2>2. CASE DropHold(p)
    BY <1>4, <2>0, <2>2 DEF DropHold
  <2>3. CASE ConsumeHold(p)
    <3>1. UNCHANGED hold \/ hold' = [hold EXCEPT ![Me(p)] = 0]
      BY <2>3 DEF ConsumeHold
    <3> QED
      BY <1>3, <2>0, <3>1
  <2>4. CASE Transaction(p) \/ TxFails(p)
    BY <2>4 DEF Transaction, BeginTx, ClaimSequence, Recheck, Touch, CommitReply, DeadlockVictim,
       TxFails, redisVars
  <2>5. CASE Outside(p) /\ ~ (HeldHold(p) \/ DropHold(p) \/ ConsumeHold(p))
    BY <2>5 DEF Outside, Preflight, Afterwards, Start, Look, Show, ReadTurnPost, MonologueGate,
       StaleToken, GetSeen, Freshness, VerbatimDup, HeldSeen, RecordOwn, CountPost, MarkPost, redisVars
  <2> QED
    BY <1>5, <2>1, <2>2, <2>3, <2>4, <2>5
<1>6. CASE Lapse
  <2>1. \/ UNCHANGED hold
        \/ \E b \in Agents : hold' = [hold EXCEPT ![b] = 0]
    BY <1>6 DEF Lapse, redisVars
  <2> QED
    BY <1>3, <2>1
<1>7. CASE Speak \/ Move \/ RepeatedPost \/ UNCHANGED vars
  BY <1>7 DEF Speak, Move, RepeatedPost, vars, redisVars
<1>8. CASE \E b \in Agents : Ack(b) \/ EndTurn(b)
  BY <1>4, <1>8 DEF Ack, EndTurn
<1> QED
  BY <1>5, <1>6, <1>7, <1>8 DEF Next, Advance, Outside

LEMMA KeysStep ==
    ASSUME IInv, Honest, [Next]_vars, NEW a \in Agents
    PROVE  (SeenOK(a) /\ HoldOK(a))'
<1>1. TypeOK /\ Grows
  BY RoomGrows DEF IInv
<1>2. seen[a] \in Nat /\ hold[a] \in Nat /\ \A p \in Procs : draft[p].base \in Nat /\ draft[p].seq \in Nat
  <2>1. \A p \in Procs : draft[p] \in Draft
    BY <1>1 DEF TypeOK
  <2> QED
    BY <1>1, <2>1 DEF TypeOK, Draft
<1>3. \A s \in Nat : /\ Told(a, s) => Told(a, s)'
                     /\ Known(a, s) => Known(a, s)'
  BY <1>1, KnownStays
<1>4. SeenOK(a)'
  <2>1. CASE seen'[a] = seen[a]
    BY <1>2, <1>3, <2>1 DEF Honest, SeenOK
  <2>2. CASE seen'[a] # seen[a]
    <3>1. CASE seen'[a] = 0
      BY <3>1 DEF SeenOK
    <3>2. ASSUME NEW p \in Procs, Me(p) = a, pc[p] \in {"heldseen", "show"}, seen'[a] = draft[p].base
          PROVE  SeenOK(a)'
      <4>1. Known(a, draft[p].base)
        BY <3>2 DEF Honest, DraftOK, Told, Known
      <4> QED
        BY <1>2, <1>3, <3>2, <4>1 DEF SeenOK
    <3>3. ASSUME NEW p \in Procs, Me(p) = a, pc[p] = "own", seen'[a] = draft[p].seq
          PROVE  SeenOK(a)'
      <4>1. Known(a, draft[p].seq)
        BY <3>3 DEF Honest, DraftOK, Known
      <4> QED
        BY <1>2, <1>3, <3>3, <4>1 DEF SeenOK
    <3> QED
      BY <1>1, <2>2, <3>1, <3>2, <3>3, SeenSteps
  <2> QED
    BY <2>1, <2>2
<1>5. HoldOK(a)'
  <2>1. CASE hold'[a] = hold[a]
    BY <1>2, <1>3, <2>1 DEF Honest, HoldOK
  <2>2. CASE hold'[a] # hold[a]
    <3>1. CASE hold'[a] = 0
      BY <3>1 DEF HoldOK
    <3>2. ASSUME NEW p \in Procs, Me(p) = a, pc[p] = "heldhold", hold'[a] = draft[p].base
          PROVE  HoldOK(a)'
      <4>1. Told(a, draft[p].base)
        BY <3>2 DEF Honest, DraftOK
      <4> QED
        BY <1>2, <1>3, <3>2, <4>1 DEF HoldOK
    <3> QED
      BY <1>1, <2>2, <3>1, <3>2, HoldSteps
  <2> QED
    BY <2>1, <2>2
<1> QED
  BY <1>4, <1>5

\* A command that does not move keeps what it relies on.
LEMMA DraftStays ==
    ASSUME TypeOK, Grows, NEW q \in Procs, DraftOK(q), pc'[q] = pc[q], draft'[q] = draft[q]
    PROVE  DraftOK(q)'
<1>1. Me(q) \in Agents /\ draft[q].base \in Nat /\ draft[q].seq \in Nat
  <2>1. draft[q] \in Draft
    BY DEF TypeOK
  <2> QED
    BY <2>1, GateAssumption DEF Me, Draft
<1>2. /\ \A s \in Nat : Written(Me(q), s) => Written(Me(q), s)'
      /\ \A s \in Nat : Told(Me(q), s) => Told(Me(q), s)'
      /\ shown[Me(q)] \subseteq shown'[Me(q)]
  BY <1>1, KnownStays DEF Grows
<1>3. Me(q)' = Me(q)
  BY DEF Me
<1> QED
  BY <1>1, <1>2, <1>3 DEF DraftOK

\* Behind a HELD envelope stands a row of a peer that it showed.
LEMMA HoldTells ==
    ASSUME TypeOK, Grows, NEW p \in Procs, NEW S \in SUBSET {i \in DOMAIN log : log[i].by # Me(p)},
           Hold(p, S)
    PROVE  DraftOK(p)'
<1>1. pc'[p] = "heldseen"
  BY Arrives
<1>2. PICK i \in S : draft'[p].base = log[i].seq /\ log[i].seq \in shown'[Me(p)]
  BY HoldShows
<1>3. i \in DOMAIN log' /\ log'[i].seq = log[i].seq /\ log'[i].by # Me(p)
  BY DEF Grows
<1>4. Told(Me(p), draft[p].base)'
  BY <1>2, <1>3 DEF Told, Me
<1> QED
  BY <1>1, <1>4 DEF DraftOK

\* An acknowledgement that finds the room unmoved stands on the newest row of a peer.
LEMMA AckIsNewest ==
    ASSUME TypeOK, CommitOrder, NEW a \in Agents, NEW s \in Nat, Told(a, s), Unmoved(a, s),
           NEW i \in DOMAIN log, IsLast(i, Newer(a, 0))
    PROVE  log[i].seq = s
<1>1. PICK k \in DOMAIN log : log[k].seq = s /\ log[k].by # a
  BY DEF Told
<1>2. DOMAIN log = 1 .. Len(log) /\ Len(log) \in Nat /\ \A j \in DOMAIN log : log[j].seq \in Nat \ {0}
  <2>1. \A m \in Message : m.seq \in Nat \ {0}
    BY DEF Message
  <2> QED
    BY <2>1, Rows
<1>3. k \in Newer(a, 0)
  BY <1>1, <1>2 DEF Newer
<1>4. k <= i
  BY <1>3 DEF IsLast
<1>5. ~ (log[i].seq > s)
  BY DEF Unmoved, Newer, IsLast
<1>6. k # i => log[k].seq < log[i].seq
  BY <1>2, <1>4 DEF CommitOrder
<1> QED
  BY <1>1, <1>2, <1>5, <1>6

LEMMA PreflightHonest ==
    ASSUME IInv, Grows, NEW p \in Procs, DraftOK(p), HoldOK(Me(p)), Preflight(p)
    PROVE  DraftOK(p)'
<1>1. TypeOK /\ CommitOrder
  BY DEF IInv
<1>2. draft[p] \in Draft /\ Me(p) \in Agents /\ draft[p].base \in Nat /\ Me(p)' = Me(p)
  <2>1. draft[p] \in Draft
    BY <1>1 DEF TypeOK
  <2> QED
    BY <2>1, GateAssumption DEF Me, Draft
<1>3. ASSUME pc'[p] = "idle" PROVE DraftOK(p)'
  BY <1>3 DEF DraftOK
<1>4. ASSUME pc'[p] \in {"turnpost", "gate", "hold", "seen", "fresh", "dup", "begin"}, ~draft'[p].armed
      PROVE  DraftOK(p)'
  BY <1>4 DEF DraftOK
<1>5. \A s \in Nat : Told(Me(p), s) => Told(Me(p), s)'
  BY <1>1, <1>2, KnownStays
<1>6. CASE ReadTurnPost(p)
  <2>1. ~draft[p].armed /\ pc'[p] = "gate"
    BY <1>1, <1>6, Arrives DEF ReadTurnPost, DraftOK
  <2>2. draft'[p] = [draft[p] EXCEPT !.way = "delivery"] \/ draft'[p] = draft[p]
    BY <1>1, <1>6, Arrives DEF ReadTurnPost
  <2> QED
    BY <1>2, <1>4, <2>1, <2>2 DEF Draft
<1>7. CASE MonologueGate(p)
  <2>1. ~draft[p].armed
    BY <1>7 DEF MonologueGate, DraftOK
  <2>2. \/ pc'[p] = "idle"
        \/ pc'[p] = "hold" /\ draft'[p] = [draft[p] EXCEPT !.way = Way(p)]
    BY <1>1, <1>7, Arrives DEF MonologueGate
  <2> QED
    BY <1>2, <1>3, <1>4, <2>1, <2>2 DEF Draft
<1>8. CASE ConsumeHold(p)
  <2>1. ~draft[p].armed
    BY <1>8 DEF ConsumeHold, DraftOK
  <2>2. CASE Goto(p, AfterHold(p, FALSE, 0)) /\ UNCHANGED draft
    <3>1. pc'[p] \in {"seen", "begin"}
      BY <1>1, <2>2, Arrives DEF AfterHold
    <3> QED
      BY <1>4, <2>1, <2>2, <3>1
  <2>3. CASE Goto(p, AfterHold(p, TRUE, 0)) /\ Set(p, Armed(p, 0))
    <3>1. pc'[p] = "begin"
      BY <1>1, <2>3, Arrives DEF AfterHold
    <3>2. draft'[p] = [draft[p] EXCEPT !.armed = TRUE, !.base = 0]
      BY <1>1, <2>3, Arrives DEF Armed
    <3>3. draft'[p].base = 0
      BY <1>2, <3>2 DEF Draft
    <3> QED
      BY <3>1, <3>3 DEF DraftOK
  <2>4. CASE hold[Me(p)] > 0 /\ Goto(p, AfterHold(p, TRUE, hold[Me(p)])) /\ Set(p, Armed(p, hold[Me(p)]))
    <3>1. pc'[p] \in {"stale", "begin"}
      BY <1>1, <2>4, Arrives DEF AfterHold
    <3>2. draft'[p] = [draft[p] EXCEPT !.armed = TRUE, !.base = hold[Me(p)]]
      BY <1>1, <2>4, Arrives DEF Armed
    <3>3. draft'[p].base = hold[Me(p)] /\ hold[Me(p)] \in Nat
      BY <1>1, <1>2, <3>2 DEF Draft, TypeOK
    <3>4. Told(Me(p), hold[Me(p)])
      BY <2>4 DEF HoldOK
    <3>5. Told(Me(p), draft[p].base)'
      <4>1. PICK s \in Nat : s = hold[Me(p)]
        BY <3>3
      <4>2. Told(Me(p), s)'
        BY <1>5, <3>4, <4>1
      <4> QED
        BY <1>2, <3>3, <4>1, <4>2 DEF Told
    <3> QED
      BY <3>1, <3>5 DEF DraftOK, Told
  <2> QED
    BY <1>8, <2>2, <2>3, <2>4 DEF ConsumeHold
<1>9. CASE StaleToken(p)
  <2>1. Told(Me(p), draft[p].base)
    BY <1>9 DEF StaleToken, DraftOK
  <2>2. CASE Unmoved(Me(p), draft[p].base)
    <3>1. PICK i \in DOMAIN log :
            IsLast(i, Newer(Me(p), 0)) /\ Set(p, [draft[p] EXCEPT !.base = log[i].seq])
      BY <1>9, <2>2 DEF StaleToken
    <3>2. log[i].seq = draft[p].base
      BY <1>1, <1>2, <2>1, <2>2, <3>1, AckIsNewest
    <3>3. draft'[p] = [draft[p] EXCEPT !.base = log[i].seq] /\ pc'[p] = "begin"
      BY <1>1, <1>9, <2>2, <3>1, Arrives DEF StaleToken
    <3>4. draft'[p].base = draft[p].base
      BY <1>2, <3>2, <3>3 DEF Draft
    <3>5. draft[p].base \in shown'[Me(p)]
      BY <1>2, <2>1 DEF Told, Grows
    <3> QED
      BY <1>2, <3>3, <3>4, <3>5 DEF DraftOK
  <2>3. CASE ~Unmoved(Me(p), draft[p].base)
    BY <1>1, <1>2, <1>9, <2>3, HoldTells, ShowsRows DEF StaleToken
  <2> QED
    BY <2>2, <2>3
<1>10. CASE GetSeen(p)
  <2>1. ~draft[p].armed
    BY <1>10 DEF GetSeen, DraftOK
  <2>2. pc'[p] \in {"fresh", "dup"}
    BY <1>1, <1>10, Arrives DEF GetSeen
  <2>3. draft'[p] = [draft[p] EXCEPT !.base = seen[Me(p)]] \/ draft'[p] = draft[p]
    BY <1>1, <1>10, Arrives DEF GetSeen
  <2> QED
    BY <1>2, <1>4, <2>1, <2>2, <2>3 DEF Draft
<1>11. CASE Freshness(p)
  <2>1. ~draft[p].armed
    BY <1>11 DEF Freshness, DraftOK
  <2>2. CASE Goto(p, "dup") /\ UNCHANGED draft
    BY <1>1, <1>4, <2>1, <2>2, Arrives
  <2>3. CASE Hold(p, Held(Me(p), draft[p].base))
    BY <1>1, <1>2, <2>3, HoldTells, ShowsRows
  <2> QED
    BY <1>11, <2>2, <2>3 DEF Freshness
<1>12. CASE VerbatimDup(p)
  <2>1. ~draft[p].armed
    BY <1>12 DEF VerbatimDup, DraftOK
  <2>2. CASE Goto(p, "begin") /\ UNCHANGED draft
    BY <1>1, <1>4, <2>1, <2>2, Arrives
  <2>3. CASE Hold(p, {i \in DOMAIN log : IsLast(i, TextOfPeers(Me(p)))})
    BY <1>1, <1>2, <2>3, HoldTells, ShowsRows
  <2> QED
    BY <1>12, <2>2, <2>3 DEF VerbatimDup
<1>13. CASE HeldSeen(p)
  <2>1. pc'[p] = "heldhold" /\ draft'[p] = draft[p] /\ Told(Me(p), draft[p].base)
    BY <1>1, <1>13, Arrives DEF HeldSeen, DraftOK
  <2>2. Told(Me(p), draft[p].base)'
    <3>1. PICK s \in Nat : s = draft[p].base
      BY <1>2
    <3>2. Told(Me(p), s)'
      BY <1>5, <2>1, <3>1
    <3> QED
      BY <1>2, <2>1, <3>1, <3>2 DEF Told
  <2> QED
    BY <2>1, <2>2 DEF DraftOK
<1>14. CASE HeldHold(p)
  BY <1>1, <1>3, <1>14, Arrives DEF HeldHold
<1> QED
  BY <1>6, <1>7, <1>8, <1>9, <1>10, <1>11, <1>12, <1>13, <1>14 DEF Preflight

LEMMA OwnStepHonest ==
    ASSUME IInv, Grows, NEW p \in Procs, DraftOK(p), HoldOK(Me(p)),
           Outside(p) \/ Transaction(p) \/ TxFails(p)
    PROVE  DraftOK(p)'
<1>1. TypeOK /\ LockHeld
  BY DEF IInv
<1>2. draft[p] \in Draft /\ Me(p) \in Agents /\ Me(p)' = Me(p)
  BY <1>1, GateAssumption DEF Me, TypeOK
<1>3. ASSUME pc'[p] \in {"idle", "claim", "recheck", "touch", "commit", "count", "mark", "clear"}
      PROVE  DraftOK(p)'
  BY <1>3 DEF DraftOK
<1>4. CASE Preflight(p)
  BY <1>4, PreflightHonest
<1>5. CASE Afterwards(p) \/ Show(p)
  BY <1>1, <1>3, <1>5, Arrives DEF Afterwards, RecordOwn, CountPost, MarkPost, DropHold, Show
<1>6. CASE Start(p)
  <2>1. pc'[p] = "turnpost"
    BY <1>1, <1>6, Arrives DEF Start
  <2>2. PICK body \in Bodies, flags \in Flags :
          draft'[p] = [NoDraft EXCEPT !.body = body, !.flags = flags, !.run = run[Me(p)], !.group = Grp]
    BY <1>1, <1>6, Arrives DEF Start
  <2>3. ~draft'[p].armed
    BY <2>2 DEF NoDraft
  <2> QED
    BY <2>1, <2>3 DEF DraftOK
<1>7. CASE Look(p)
  BY <1>1, <1>2, <1>7, LookShows DEF DraftOK
<1>8. CASE CommitReply(p)
  <2>1. Posted(p) \in Message /\ log' = Append(log, Posted(p)) /\ pc'[p] = "own" /\ draft'[p] = draft[p]
    BY <1>1, <1>8, CommittedType, Arrives DEF CommitReply, Committed
  <2>2. PICK i \in DOMAIN log' : log'[i] = Posted(p)
    BY <1>1, <2>1, AppendGrows
  <2>3. Written(Me(p), draft[p].seq)'
    BY <1>2, <2>1, <2>2 DEF Written, Posted
  <2> QED
    BY <2>1, <2>3 DEF DraftOK
<1>9. CASE Recheck(p)
  <2>1. CASE Goto(p, "touch")
    BY <1>1, <1>3, <2>1, Arrives
  <2>2. CASE Hold(p, {i \in DOMAIN log : IsLast(i, TextOfPeers(Me(p)))})
    BY <1>1, <1>2, <2>2, HoldTells, ShowsRows
  <2> QED
    BY <1>9, <2>1, <2>2 DEF Recheck
<1>10. CASE BeginTx(p) \/ ClaimSequence(p) \/ Touch(p) \/ DeadlockVictim(p) \/ TxFails(p)
  BY <1>1, <1>3, <1>10, Arrives DEF BeginTx, ClaimSequence, Touch, DeadlockVictim, TxFails
<1> QED
  BY <1>4, <1>5, <1>6, <1>7, <1>8, <1>9, <1>10 DEF Outside, Transaction

LEMMA HonestStep == IInv /\ Honest /\ [Next]_vars => Honest'
<1> SUFFICES ASSUME IInv, Honest, [Next]_vars, NEW q \in Procs PROVE DraftOK(q)'
  BY KeysStep DEF Honest
<1>1. TypeOK /\ Grows
  BY RoomGrows DEF IInv
<1>2. DraftOK(q) /\ HoldOK(Me(q))
  BY GateAssumption DEF Honest, Me
<1>3. ASSUME pc'[q] = pc[q], draft'[q] = draft[q] PROVE DraftOK(q)'
  BY <1>1, <1>2, <1>3, DraftStays
<1>4. ASSUME NEW p \in Procs, Outside(p) \/ Transaction(p) \/ TxFails(p) PROVE DraftOK(q)'
  <2>1. CASE p = q
    BY <1>1, <1>2, <1>4, <2>1, OwnStepHonest
  <2>2. CASE p # q /\ Outside(p)
    BY <1>1, <1>3, <2>2, OutsideMoves
  <2>3. CASE p # q /\ (Transaction(p) \/ TxFails(p))
    <3>1. pc'[q] = pc[q]
      BY <1>1, <2>3, OnlyOneMoves DEF Transaction, BeginTx, ClaimSequence, Recheck, Touch,
         CommitReply, DeadlockVictim, TxFails
    <3>2. draft'[q] = draft[q]
      BY <1>1, <2>3, OnlyOneMoves DEF Transaction, BeginTx, ClaimSequence, Recheck, Touch,
         CommitReply, DeadlockVictim, TxFails
    <3> QED
      BY <1>3, <3>1, <3>2
  <2> QED
    BY <1>4, <2>1, <2>2, <2>3
<1>5. CASE (\E a \in Agents : Ack(a) \/ EndTurn(a)) \/ Speak \/ RepeatedPost \/ Move \/ Lapse
  BY <1>3, <1>5, OthersMove
<1>6. CASE UNCHANGED vars
  BY <1>3, <1>6 DEF vars
<1> QED
  BY <1>4, <1>5, <1>6 DEF Next, Advance, Outside

\* Cursors and overrides are honest in every behaviour.
LEMMA HonestAlways == Spec => []Honest
<1>1. Init => Honest
  BY DEF Init, Honest, SeenOK, HoldOK, DraftOK
<1>2. IInv /\ Honest /\ [Next]_vars => Honest'
  BY HonestStep
<1> QED
  BY <1>1, <1>2, LockInvariant, PTL DEF Spec

\* The cursor always stands on a row its agent was shown or wrote itself.
THEOREM CursorIsHonest == Spec => []SeenHonest
<1>1. Honest => SeenHonest
  BY DEF Honest, SeenOK, Known, Written, SeenHonest
<1> QED
  BY <1>1, HonestAlways, PTL

\* An override that passed its check acknowledges the newest row of a peer, and that
\* row was shown to the agent.
THEOREM OverrideIsInformed == Spec => []OverrideInformed
<1>1. Honest => OverrideInformed
  BY DEF Honest, DraftOK, OverrideInformed
<1> QED
  BY <1>1, HonestAlways, PTL

-----------------------------------------------------------------------------
(* One command at a time: the gates against monologues.                                *)

Working(p) == pc[p] \notin {"idle", "show"}

Step(p) == Outside(p) \/ Transaction(p) \/ TxFails(p)

LEMMA HoldKeeps ==
    ASSUME TypeOK, NEW p \in Procs, NEW S, S \subseteq DOMAIN log, Hold(p, S)
    PROVE  pc'[p] = "heldseen" /\ draft'[p].run = draft[p].run /\ draft'[p].way = draft[p].way
<1>1. PICK i \in DOMAIN log : Set(p, [draft[p] EXCEPT !.base = log[i].seq, !.armed = FALSE])
  BY DEF Hold
<1>2. draft'[p] = [draft[p] EXCEPT !.base = log[i].seq, !.armed = FALSE] /\ pc'[p] = "heldseen"
  BY <1>1, Arrives
<1>3. draft[p] \in Draft
  BY DEF TypeOK
<1> QED
  BY <1>2, <1>3 DEF Draft

\* A command that goes on keeps its run, and its way once the gate has been passed.
Keeps(p) ==
    /\ draft'[p].run = draft[p].run
    /\ \/ draft'[p].way = draft[p].way
       \/ ReadTurnPost(p) /\ SameTurn(p) /\ draft'[p].way = "delivery"
       \/ MonologueGate(p) /\ draft'[p].way = Way(p)

LEMMA PreflightKeeps ==
    ASSUME TypeOK, NEW p \in Procs, Preflight(p)
    PROVE  Keeps(p) \/ pc'[p] = "idle"
<1>1. draft[p] \in Draft
  BY DEF TypeOK
<1>2. ASSUME draft'[p] = draft[p] PROVE Keeps(p)
  BY <1>2 DEF Keeps
<1>3. ASSUME NEW S, S \subseteq DOMAIN log, Hold(p, S) PROVE Keeps(p)
  BY <1>3, HoldKeeps DEF Keeps
<1>4. \A b \in Nat : Held(Me(p), b) \subseteq DOMAIN log
  BY DEF Held, Newer
<1>5. CASE ReadTurnPost(p)
  <2>1. \/ draft'[p] = draft[p]
        \/ SameTurn(p) /\ draft'[p] = [draft[p] EXCEPT !.way = "delivery"]
    BY <1>5, Arrives DEF ReadTurnPost
  <2>2. CASE SameTurn(p) /\ draft'[p] = [draft[p] EXCEPT !.way = "delivery"]
    <3>1. draft'[p].run = draft[p].run /\ draft'[p].way = "delivery"
      BY <1>1, <2>2 DEF Draft
    <3> QED
      BY <1>5, <2>2, <3>1 DEF Keeps
  <2> QED
    BY <1>2, <2>1, <2>2
<1>6. CASE MonologueGate(p)
  <2>1. pc'[p] = "idle" \/ draft'[p] = [draft[p] EXCEPT !.way = Way(p)]
    BY <1>6, Arrives DEF MonologueGate
  <2>2. CASE draft'[p] = [draft[p] EXCEPT !.way = Way(p)]
    <3>1. draft'[p].run = draft[p].run /\ draft'[p].way = Way(p)
      BY <1>1, <2>2 DEF Draft
    <3> QED
      BY <1>6, <3>1 DEF Keeps
  <2> QED
    BY <2>1, <2>2
<1>7. CASE ConsumeHold(p)
  <2>1. draft'[p] = draft[p] \/ \E n : draft'[p] = [draft[p] EXCEPT !.armed = TRUE, !.base = n]
    BY <1>7, Arrives DEF ConsumeHold, Armed
  <2> QED
    BY <1>1, <1>2, <2>1 DEF Keeps, Draft
<1>8. CASE StaleToken(p)
  <2>1. CASE Unmoved(Me(p), draft[p].base)
    <3>1. \E n : draft'[p] = [draft[p] EXCEPT !.base = n]
      BY <1>8, <2>1, Arrives DEF StaleToken
    <3> QED
      BY <1>1, <3>1 DEF Keeps, Draft
  <2>2. CASE ~Unmoved(Me(p), draft[p].base)
    <3>1. draft[p].base \in Nat
      BY <1>1 DEF Draft
    <3> QED
      BY <1>3, <1>4, <1>8, <2>2, <3>1 DEF StaleToken
  <2> QED
    BY <2>1, <2>2
<1>9. CASE GetSeen(p)
  <2>1. draft'[p] = draft[p] \/ \E n : draft'[p] = [draft[p] EXCEPT !.base = n]
    BY <1>9, Arrives DEF GetSeen
  <2> QED
    BY <1>1, <1>2, <2>1 DEF Keeps, Draft
<1>10. CASE Freshness(p)
  <2>1. draft[p].base \in Nat
    BY <1>1 DEF Draft
  <2>2. draft' = draft \/ Hold(p, Held(Me(p), draft[p].base))
    BY <1>10 DEF Freshness
  <2> QED
    BY <1>2, <1>3, <1>4, <2>1, <2>2
<1>11. CASE VerbatimDup(p)
  <2>1. draft' = draft \/ Hold(p, {i \in DOMAIN log : IsLast(i, TextOfPeers(Me(p)))})
    BY <1>11 DEF VerbatimDup
  <2> QED
    BY <1>2, <1>3, <2>1
<1>12. CASE HeldSeen(p)
  BY <1>2, <1>12 DEF HeldSeen
<1>13. CASE HeldHold(p)
  BY <1>13, Arrives DEF HeldHold
<1> QED
  BY <1>5, <1>6, <1>7, <1>8, <1>9, <1>10, <1>11, <1>12, <1>13 DEF Preflight

LEMMA StepKeeps ==
    ASSUME TypeOK, NEW p \in Procs, Step(p)
    PROVE  Start(p) \/ Keeps(p) \/ pc'[p] \in {"idle", "show"}
<1>1. draft[p] \in Draft
  BY DEF TypeOK
<1>2. ASSUME draft'[p] = draft[p] PROVE Keeps(p)
  BY <1>2 DEF Keeps
<1>3. CASE Preflight(p)
  BY <1>3, PreflightKeeps
<1>4. CASE RecordOwn(p) \/ MarkPost(p)
  BY <1>2, <1>4 DEF RecordOwn, MarkPost
<1>5. CASE CountPost(p)
  <2>1. draft'[p] = draft[p] \/ \E n : draft'[p] = [draft[p] EXCEPT !.base = n]
    BY <1>5, Arrives DEF CountPost
  <2> QED
    BY <1>1, <1>2, <2>1 DEF Keeps, Draft
<1>6. CASE DropHold(p) \/ Show(p) \/ Look(p) \/ TxFails(p) \/ DeadlockVictim(p)
  BY <1>6, Arrives DEF DropHold, Show, Look, TxFails, DeadlockVictim
<1>7. CASE BeginTx(p)
  <2>1. pc'[p] = "idle" \/ draft'[p] = TxDraft(p)
    BY <1>7, Arrives DEF BeginTx
  <2>2. TxDraft(p).run = draft[p].run /\ TxDraft(p).way = draft[p].way
    BY <1>1 DEF TxDraft, Draft
  <2> QED
    BY <2>1, <2>2 DEF Keeps
<1>8. CASE ClaimSequence(p)
  <2>1. draft'[p] = [draft[p] EXCEPT !.seq = counter]
    BY <1>8, Arrives DEF ClaimSequence
  <2> QED
    BY <1>1, <2>1 DEF Keeps, Draft
<1>9. CASE Recheck(p)
  <2>1. draft' = draft \/ Hold(p, {i \in DOMAIN log : IsLast(i, TextOfPeers(Me(p)))})
    BY <1>9 DEF Recheck
  <2>2. CASE Hold(p, {i \in DOMAIN log : IsLast(i, TextOfPeers(Me(p)))})
    BY <2>2, HoldKeeps DEF Keeps
  <2> QED
    BY <1>2, <2>1, <2>2
<1>10. CASE Touch(p) \/ CommitReply(p)
  BY <1>2, <1>10 DEF Touch, CommitReply
<1> QED
  BY <1>3, <1>4, <1>5, <1>6, <1>7, <1>8, <1>9, <1>10 DEF Step, Outside, Afterwards, Transaction

\* Nothing a command does reaches another command.
LEMMA OthersStay ==
    ASSUME TypeOK, NEW p \in Procs, Step(p), NEW q \in Procs, p # q
    PROVE  pc'[q] = pc[q] /\ draft'[q] = draft[q]
<1>1. CASE Outside(p)
  BY <1>1, OutsideMoves
<1>2. CASE Transaction(p) \/ TxFails(p)
  <2>1. pc'[q] = pc[q]
    BY <1>2, OnlyOneMoves DEF Transaction, BeginTx, ClaimSequence, Recheck, Touch,
       CommitReply, DeadlockVictim, TxFails
  <2>2. draft'[q] = draft[q]
    BY <1>2, OnlyOneMoves DEF Transaction, BeginTx, ClaimSequence, Recheck, Touch,
       CommitReply, DeadlockVictim, TxFails
  <2> QED
    BY <2>1, <2>2
<1> QED
  BY <1>1, <1>2 DEF Step

\* Faults are counted.
LEMMA FaultsCounted ==
    ASSUME TypeOK, [Next]_vars
    PROVE  /\ faults'.redis = 0 => faults.redis = 0 /\ ~RedisError
           /\ faults'.tx = 0 => faults.tx = 0 /\ \A p \in Procs : ~TxFails(p)
           /\ faults'.lapses = 0 => faults.lapses = 0 /\ ~Lapse
           /\ faults'.moves = 0 => faults.moves = 0 /\ ~Move
<1>1. faults \in FaultType
  BY DEF TypeOK, FaultType
<1>2. \/ faults' = faults
      \/ faults' = [faults EXCEPT !.redis = @ + 1]
      \/ faults' = [faults EXCEPT !.tx = @ + 1]
      \/ faults' = [faults EXCEPT !.lapses = @ + 1]
      \/ faults' = [faults EXCEPT !.moves = @ + 1]
      \/ faults' = [faults EXCEPT !.gaps = @ + 1]
      \/ faults' = [faults EXCEPT !.looks = @ + 1]
  <2>1. ASSUME NEW p \in Procs, Preflight(p) \/ Afterwards(p) \/ Show(p)
        PROVE  faults' = faults \/ RedisError
    BY <2>1 DEF Preflight, Afterwards, Show, ReadTurnPost, MonologueGate, ConsumeHold, StaleToken,
       GetSeen, Freshness, VerbatimDup, HeldSeen, HeldHold, RecordOwn, CountPost, MarkPost, DropHold,
       RecordSeen, RecordHold, ClearHold
  <2>2. ASSUME NEW p \in Procs, Start(p) \/ Transaction(p)
        PROVE  faults' = faults
    BY <2>2 DEF Start, Transaction, BeginTx, ClaimSequence, Recheck, Touch, CommitReply, DeadlockVictim
  <2>3. ASSUME NEW a \in Agents, Ack(a) \/ EndTurn(a)
        PROVE  faults' = faults \/ RedisError
    BY <2>3 DEF Ack, EndTurn, ClearHold
  <2>4. CASE Speak \/ UNCHANGED vars
    BY <2>4 DEF Speak, vars
  <2>5. CASE RepeatedPost \/ Move \/ Lapse \/ \E p \in Procs : Look(p) \/ TxFails(p)
    BY <2>5 DEF RepeatedPost, Move, Lapse, Look, TxFails
  <2> QED
    BY <2>1, <2>2, <2>3, <2>4, <2>5 DEF Next, Advance, RedisError
<1>3. /\ faults.redis \in Nat /\ faults.tx \in Nat /\ faults.lapses \in Nat /\ faults.moves \in Nat
  BY <1>1 DEF FaultType
<1>4. /\ faults'.redis = 0 => faults.redis = 0
      /\ faults'.tx = 0 => faults.tx = 0
      /\ faults'.lapses = 0 => faults.lapses = 0
      /\ faults'.moves = 0 => faults.moves = 0
  BY <1>1, <1>2, <1>3 DEF FaultType
<1>5. RedisError => faults'.redis = faults.redis + 1
  BY <1>1 DEF RedisError, FaultType
<1>6. \A p \in Procs : TxFails(p) => faults'.tx = faults.tx + 1
  BY <1>1 DEF TxFails, FaultType
<1>7. Lapse => faults'.lapses = faults.lapses + 1
  BY <1>1 DEF Lapse, FaultType
<1>8. Move => faults'.moves = faults.moves + 1
  BY <1>1 DEF Move, FaultType
<1> QED
  BY <1>3, <1>4, <1>5, <1>6, <1>7, <1>8

\* From the gate to the commit the way of a command is decided.
Deciding == {"hold", "stale", "seen", "fresh", "dup", "begin", "claim", "recheck", "touch", "commit"}

LEMMA Decided ==
    ASSUME TypeOK, NEW p \in Procs, Step(p), pc'[p] \in Deciding
    PROVE  /\ UNCHANGED log
           /\ draft'[p].run = draft[p].run
           /\ \/ MonologueGate(p) /\ draft'[p].way = Way(p)
              \/ pc[p] \in Deciding /\ draft'[p].way = draft[p].way
<1>1. ~Start(p) /\ ~ReadTurnPost(p)
  BY Arrives DEF Start, ReadTurnPost, Deciding
<1>2. Keeps(p)
  BY <1>1, StepKeeps DEF Deciding
<1>3. UNCHANGED log
  <2>1. CASE Outside(p)
    BY <2>1, OutsideMoves
  <2>2. CASE BeginTx(p) \/ ClaimSequence(p) \/ Recheck(p) \/ Touch(p) \/ DeadlockVictim(p)
    BY <2>2 DEF BeginTx, ClaimSequence, Recheck, Touch, DeadlockVictim, roomVars
  <2>3. CASE CommitReply(p) \/ TxFails(p)
    BY <2>3, Arrives DEF CommitReply, TxFails, Deciding
  <2> QED
    BY <2>1, <2>2, <2>3 DEF Step, Transaction
<1>4. MonologueGate(p) \/ pc[p] \in Deciding
  <2>1. CASE Preflight(p)
    <3>1. HeldSeen(p) \/ HeldHold(p) => pc'[p] \notin Deciding
      BY Arrives DEF HeldSeen, HeldHold, Deciding
    <3> QED
      BY <1>1, <2>1, <3>1 DEF Preflight, ConsumeHold, StaleToken, GetSeen, Freshness, VerbatimDup, Deciding
  <2>2. CASE Afterwards(p)
    BY <2>2, Arrives DEF Afterwards, RecordOwn, CountPost, MarkPost, DropHold, Deciding
  <2>3. CASE Show(p) \/ Look(p)
    BY <2>3, Arrives DEF Show, Look, Deciding
  <2>4. CASE Transaction(p) \/ TxFails(p)
    <3>1. pc[p] \in {"begin", "claim", "recheck", "touch", "commit"} \/ pc'[p] = "idle"
      BY <2>4, Arrives DEF Transaction, BeginTx, ClaimSequence, Recheck, Touch, CommitReply,
         DeadlockVictim, TxFails
    <3> QED
      BY <3>1 DEF Deciding
  <2> QED
    BY <1>1, <2>1, <2>2, <2>3, <2>4 DEF Step, Outside
<1>5. MonologueGate(p) => pc[p] = "gate"
  BY DEF MonologueGate
<1>6. MonologueGate(p) => draft'[p].way = Way(p)
  <2> SUFFICES ASSUME MonologueGate(p) PROVE draft'[p].way = Way(p)
    OBVIOUS
  <2>1. draft'[p] = [draft[p] EXCEPT !.way = Way(p)]
    BY Arrives DEF MonologueGate, Deciding
  <2>2. draft[p] \in Draft
    BY DEF TypeOK
  <2> QED
    BY <2>1, <2>2 DEF Draft
<1> QED
  BY <1>1, <1>2, <1>3, <1>4, <1>6 DEF Keeps

\* How the log grows.
LEMMA LogSteps ==
    ASSUME IInv, [Next]_vars
    PROVE  \/ UNCHANGED log
           \/ \E p \in Procs : /\ Step(p) /\ pc[p] = "commit" /\ log' = Append(log, Posted(p))
                               /\ CommitReply(p) \/ TxFails(p)
           \/ \E by \in Agents \cup {Human}, b \in Bodies \cup {Notice} :
                 /\ log' = Append(log, Row(by, b)) /\ Row(by, b) \in Message
                 /\ UNCHANGED <<pc, draft, turnPost, run>>
                 /\ by = Human \/ Move
<1> USE GateAssumption
<1>1. TypeOK /\ LockHeld
  BY DEF IInv
<1>2. \A by \in Agents \cup {Human}, b \in Bodies \cup {Notice} : Row(by, b) \in Message
  <2>1. Grp \in BOOLEAN
    BY DEF Grp
  <2>2. counter \in Nat \ {0}
    BY <1>1 DEF TypeOK
  <2> QED
    BY <2>1, <2>2 DEF Row, Message, Ways
<1>3. CASE Speak
  <2>1. PICK b \in Bodies : log' = Append(log, Row(Human, b))
    BY <1>3 DEF Speak
  <2> QED
    BY <1>2, <1>3, <2>1 DEF Speak, redisVars
<1>4. CASE Move
  <2>1. PICK actor \in members : log' = Append(log, Row(actor, Notice))
    BY <1>4 DEF Move
  <2>2. actor \in Agents \cup {Human}
    BY <1>1 DEF TypeOK
  <2> QED
    BY <1>2, <1>4, <2>1, <2>2 DEF Move, redisVars
<1>5. CASE (\E a \in Agents : Ack(a) \/ EndTurn(a)) \/ RepeatedPost \/ Lapse
  BY <1>5 DEF Ack, EndTurn, RepeatedPost, Lapse, roomVars
<1>6. CASE UNCHANGED vars
  BY <1>6 DEF vars, roomVars
<1>7. CASE \E p \in Procs : Start(p) \/ Look(p) \/ Advance(p) \/ TxFails(p)
  <2>1. PICK p \in Procs : Step(p)
    BY <1>7 DEF Advance, Outside, Step
  <2>2. CASE Outside(p)
    BY <1>1, <2>2, OutsideMoves
  <2>3. CASE BeginTx(p) \/ ClaimSequence(p) \/ Recheck(p) \/ Touch(p) \/ DeadlockVictim(p)
    BY <2>3 DEF BeginTx, ClaimSequence, Recheck, Touch, DeadlockVictim, roomVars
  <2>4. CASE CommitReply(p)
    BY <2>1, <2>4 DEF CommitReply, Committed
  <2>5. CASE TxFails(p)
    BY <2>1, <2>5 DEF TxFails, Committed
  <2> QED
    BY <2>1, <2>2, <2>3, <2>4, <2>5 DEF Step, Transaction
<1> QED
  BY <1>3, <1>4, <1>5, <1>6, <1>7 DEF Next

\* Every step is a step of a command, or leaves all commands where they are.
LEMMA WhoMoves ==
    ASSUME [Next]_vars
    PROVE  \/ \E p \in Procs : Step(p)
           \/ UNCHANGED <<pc, draft>>
BY OthersMove DEF Next, Advance, Outside, Step, vars

\* A command whose way is open still follows somebody else.
OpenOK(p) == pc[p] \in Deciding /\ draft[p].way = "open" => ~OwnLast(p)

Unasked ==
    OneAtATime /\ faults.moves = 0 =>
        /\ \A p \in Procs : OpenOK(p)
        /\ \A i \in DOMAIN log :
              i > 1 /\ log[i].by \in Agents /\ log[i].way = "open" => log[i-1].by # log[i].by

LEMMA OpenStep ==
    ASSUME IInv, [Next]_vars, OneAtATime, ~Move, NEW q \in Procs, OpenOK(q)
    PROVE  OpenOK(q)'
<1> SUFFICES ASSUME pc'[q] \in Deciding, draft'[q].way = "open"
             PROVE  ~OwnLast(q)'
  BY DEF OpenOK
<1> USE GateAssumption
<1>1. TypeOK /\ Me(q) \in Agents /\ Me(q)' = Me(q)
  BY DEF IInv, Me
<1>2. UNCHANGED log => OwnLast(q)' = OwnLast(q)
  BY <1>1 DEF OwnLast
<1>3. ASSUME NEW m \in Message, log' = Append(log, m), m.by # Me(q)
      PROVE  ~OwnLast(q)'
  <2>1. Len(log') = Len(log) + 1 /\ log'[Len(log) + 1] = m
    BY <1>1, <1>3, Appended
  <2> QED
    BY <1>1, <1>3, <2>1 DEF OwnLast
<1>4. ASSUME pc'[q] = pc[q], draft'[q] = draft[q] PROVE ~OwnLast(q)'
  <2>1. ~OwnLast(q)
    BY <1>4 DEF OpenOK
  <2>2. ASSUME NEW p \in Procs, Step(p), pc[p] = "commit", log' = Append(log, Posted(p)),
               CommitReply(p) \/ TxFails(p)
        PROVE  ~OwnLast(q)'
    <3>1. Posted(p) \in Message
      BY <2>2, CommittedType DEF IInv
    <3>2. pc'[p] # "commit"
      BY <1>1, <2>2, Arrives DEF CommitReply, TxFails
    <3>3. p # q
      BY <1>4, <2>2, <3>2
    <3>4. Posted(p).by # Me(q)
      BY <3>3 DEF OneAtATime, Posted, Me
    <3> QED
      BY <1>3, <2>2, <3>1, <3>4
  <2>3. ASSUME NEW by \in Agents \cup {Human}, NEW b \in Bodies \cup {Notice},
               log' = Append(log, Row(by, b)), Row(by, b) \in Message, by = Human
        PROVE  ~OwnLast(q)'
    <3>1. Row(by, b).by # Me(q)
      BY <1>1, <2>3 DEF Row
    <3> QED
      BY <1>3, <2>3, <3>1
  <2> QED
    BY <1>2, <2>1, <2>2, <2>3, LogSteps
<1>5. ASSUME Step(q) PROVE ~OwnLast(q)'
  <2>1. Way(q) = "open" => ~OwnLast(q)
    BY DEF Way
  <2> QED
    BY <1>1, <1>2, <1>5, <2>1, Decided DEF OpenOK
<1>6. ASSUME NEW p \in Procs, Step(p), p # q PROVE ~OwnLast(q)'
  BY <1>1, <1>4, <1>6, OthersStay
<1> QED
  BY <1>4, <1>5, <1>6, WhoMoves

LEMMA UnaskedStep == IInv /\ Unasked /\ [Next]_vars => Unasked'
<1> SUFFICES ASSUME IInv, Unasked, [Next]_vars, OneAtATime, faults'.moves = 0
             PROVE  /\ \A p \in Procs : OpenOK(p)'
                    /\ \A i \in DOMAIN log' :
                          i > 1 /\ log'[i].by \in Agents /\ log'[i].way = "open" => log'[i-1].by # log'[i].by
  BY DEF Unasked, OneAtATime
<1> USE GateAssumption
<1>1. TypeOK /\ LockHeld
  BY DEF IInv
<1>2. faults.moves = 0 /\ ~Move
  BY <1>1, FaultsCounted
<1>3. /\ \A p \in Procs : OpenOK(p)
      /\ \A i \in DOMAIN log :
            i > 1 /\ log[i].by \in Agents /\ log[i].way = "open" => log[i-1].by # log[i].by
  BY <1>2 DEF Unasked
<1>4. \A p \in Procs : OpenOK(p)'
  BY <1>2, <1>3, OpenStep
<1>5. ASSUME NEW m \in Message, log' = Append(log, m),
             m.by \in Agents /\ m.way = "open" /\ log # <<>> => log[Len(log)].by # m.by,
             NEW i \in DOMAIN log', i > 1, log'[i].by \in Agents, log'[i].way = "open"
      PROVE  log'[i-1].by # log'[i].by
  <2>1. DOMAIN log = 1..Len(log) /\ Len(log) \in Nat
    BY <1>1, Rows
  <2>2. \A k \in 1..Len(log) : log'[k] = log[k]
    BY <1>1, <1>5, Appended
  <2>3. log'[Len(log) + 1] = m /\ DOMAIN log' = 1..(Len(log) + 1)
    <3>1. log' \in Seq(Message) /\ Len(log') = Len(log) + 1 /\ log'[Len(log) + 1] = m
      BY <1>1, <1>5, Appended
    <3> QED
      BY <3>1
  <2>4. CASE i \in 1..Len(log)
    <3>1. i - 1 \in 1..Len(log) /\ log'[i] = log[i]
      BY <1>5, <2>1, <2>2, <2>4
    <3> QED
      BY <1>3, <1>5, <2>1, <2>2, <2>4, <3>1
  <2>5. CASE i = Len(log) + 1
    <3>1. Len(log) \in 1..Len(log) /\ i - 1 = Len(log) /\ log # <<>>
      BY <1>5, <2>1, <2>5
    <3>2. log'[i] = m /\ log'[i - 1] = log[Len(log)]
      BY <2>2, <2>3, <2>5, <3>1
    <3> QED
      BY <1>5, <3>1, <3>2
  <2>6. i \in 1..Len(log) \/ i = Len(log) + 1
    BY <1>5, <2>1, <2>3
  <2> QED
    BY <2>4, <2>5, <2>6
<1>6. ASSUME NEW p \in Procs, pc[p] = "commit"
      PROVE  /\ Posted(p) \in Message
             /\ Posted(p).way = "open" /\ log # <<>> => log[Len(log)].by # Posted(p).by
  <2>1. OpenOK(p)
    BY <1>3
  <2>2. draft[p].way = "open" => ~OwnLast(p)
    BY <1>6, <2>1 DEF OpenOK, Deciding
  <2> QED
    BY <1>1, <1>6, <2>2, CommittedType DEF Posted, OwnLast
<1>7. \A by, b : Row(by, b).way # "open"
  BY DEF Row
<1>8. \A i \in DOMAIN log' :
         i > 1 /\ log'[i].by \in Agents /\ log'[i].way = "open" => log'[i-1].by # log'[i].by
  <2>1. CASE UNCHANGED log
    BY <1>3, <2>1
  <2>2. CASE \E p \in Procs : pc[p] = "commit" /\ log' = Append(log, Posted(p))
    BY <1>5, <1>6, <2>2
  <2>3. CASE \E by \in Agents \cup {Human}, b \in Bodies \cup {Notice} :
               log' = Append(log, Row(by, b)) /\ Row(by, b) \in Message
    BY <1>5, <1>7, <2>3
  <2> QED
    BY <2>1, <2>2, <2>3, LogSteps
<1> QED
  BY <1>4, <1>8

\* One command at a time and no change of membership: an agent never follows its own
\* recent message unasked.
THEOREM NoMonologues == Spec => []NoMonologue
<1>1. Init => Unasked
  BY DEF Init, Unasked, OpenOK, Deciding
<1>2. IInv /\ Unasked /\ [Next]_vars => Unasked'
  BY UnaskedStep
<1>3. Unasked => NoMonologue
  BY DEF Unasked, NoMonologue
<1> QED
  BY <1>1, <1>2, <1>3, LockInvariant, PTL DEF Spec

-----------------------------------------------------------------------------
(* One command at a time: announce, then deliver.                                      *)

OwnRows(a, r) == {i \in DOMAIN log : log[i].by = a /\ log[i].run = r}

LEMMA OwnRowsCount ==
    ASSUME TypeOK, NEW a, NEW r
    PROVE  /\ IsFiniteSet(OwnRows(a, r)) /\ Cardinality(OwnRows(a, r)) \in Nat
           /\ \A m \in Message : log' = Append(log, m) =>
                 /\ m.by # a \/ m.run # r => OwnRows(a, r)' = OwnRows(a, r)
                 /\ m.by = a /\ m.run = r =>
                       Cardinality(OwnRows(a, r)') = Cardinality(OwnRows(a, r)) + 1
<1>1. DOMAIN log = 1..Len(log) /\ Len(log) \in Nat
  BY Rows
<1>2. IsFiniteSet(OwnRows(a, r)) /\ Cardinality(OwnRows(a, r)) \in Nat
  <2>1. OwnRows(a, r) \subseteq 1..Len(log)
    BY <1>1 DEF OwnRows
  <2>2. IsFiniteSet(1..Len(log))
    BY <1>1, FS_Interval
  <2> QED
    BY <2>1, <2>2, FS_Subset, FS_CardinalityType
<1>3. ASSUME NEW m \in Message, log' = Append(log, m)
      PROVE  /\ m.by # a \/ m.run # r => OwnRows(a, r)' = OwnRows(a, r)
             /\ m.by = a /\ m.run = r =>
                   Cardinality(OwnRows(a, r)') = Cardinality(OwnRows(a, r)) + 1
  <2>1. DOMAIN log' = 1..(Len(log) + 1) /\ log'[Len(log) + 1] = m
    <3>1. log' \in Seq(Message) /\ Len(log') = Len(log) + 1 /\ log'[Len(log) + 1] = m
      BY <1>3, Appended
    <3> QED
      BY <3>1
  <2>2. \A k \in 1..Len(log) : log'[k] = log[k]
    BY <1>3, Appended
  <2>3. m.by # a \/ m.run # r => OwnRows(a, r)' = OwnRows(a, r)
    BY <1>1, <2>1, <2>2 DEF OwnRows
  <2>4. m.by = a /\ m.run = r => OwnRows(a, r)' = OwnRows(a, r) \cup {Len(log) + 1}
    BY <1>1, <2>1, <2>2 DEF OwnRows
  <2>5. Len(log) + 1 \notin OwnRows(a, r)
    BY <1>1 DEF OwnRows
  <2>6. Cardinality(OwnRows(a, r) \cup {Len(log) + 1}) = Cardinality(OwnRows(a, r)) + 1
    BY <1>2, <2>5, FS_AddElement
  <2> QED
    BY <2>3, <2>4, <2>6
<1> QED
  BY <1>2, <1>3

\* What the turn-post record, and a command between commit and record, account for.
Counted(p, r) == IF turnPost[Me(p)].run = r THEN turnPost[Me(p)].posts ELSE 0
Unmarked(p, r) == IF pc[p] \in {"own", "count", "mark"} /\ draft[p].run = r THEN 1 ELSE 0

TallyOK(p) ==
    RunIdKnown => \A r \in Nat \ {0} :
        r >= turnPost[Me(p)].run =>
            Cardinality(OwnRows(Me(p), r)) = Counted(p, r) + Unmarked(p, r)

RunsOK(p) ==
    /\ turnPost[Me(p)].run <= run[Me(p)] /\ run[Me(p)] > 0
    /\ Working(p) => /\ draft[p].run > 0 /\ draft[p].run <= run[Me(p)]
                     /\ turnPost[Me(p)].run <= draft[p].run

MarkOK(p) == pc[p] = "mark" => draft[p].base = Counted(p, draft[p].run) + 1

AllowedOK(p) ==
    pc[p] \in {"turnpost", "gate"} \cup Deciding /\ draft[p].way = "delivery" =>
        /\ RunIdKnown /\ turnPost[Me(p)].run = draft[p].run
        /\ turnPost[Me(p)].posts \in 1..(MaxPosts - 1)

Ledger(p) == TallyOK(p) /\ RunsOK(p) /\ MarkOK(p) /\ AllowedOK(p)

\* The part of a command's course the ledger depends on.
LEMMA Course ==
    ASSUME TypeOK, NEW p \in Procs, Step(p), ~TxFails(p), ~RedisError
    PROVE  /\ UNCHANGED run
           /\ MarkPost(p) \/ UNCHANGED turnPost
           /\ CommitReply(p) \/ UNCHANGED log
           /\ pc[p] = "own" => RecordOwn(p)
           /\ pc[p] = "count" => CountPost(p)
           /\ pc[p] = "mark" => MarkPost(p)
           /\ pc'[p] = "own" => CommitReply(p)
           /\ pc'[p] = "count" => RecordOwn(p)
           /\ pc'[p] = "mark" => CountPost(p)
           /\ pc'[p] = "turnpost" => Start(p)
           /\ pc'[p] = "gate" => ReadTurnPost(p)
           /\ Working(p)' => Start(p) \/ Working(p)
<1> DEFINE Goal == /\ pc[p] = "own" => RecordOwn(p)
                   /\ pc[p] = "count" => CountPost(p)
                   /\ pc[p] = "mark" => MarkPost(p)
                   /\ pc'[p] = "own" => CommitReply(p)
                   /\ pc'[p] = "count" => RecordOwn(p)
                   /\ pc'[p] = "mark" => CountPost(p)
                   /\ pc'[p] = "turnpost" => Start(p)
                   /\ pc'[p] = "gate" => ReadTurnPost(p)
                   /\ Working(p)' => Start(p) \/ Working(p)
<1>1. \A b, n : AfterHold(p, b, n) \in {"stale", "seen", "begin"}
  BY DEF AfterHold
<1>2. CASE Preflight(p)
  <2>1. UNCHANGED <<run, turnPost, log>>
    BY <1>2 DEF Preflight, ReadTurnPost, MonologueGate, ConsumeHold, StaleToken, GetSeen, Freshness,
       VerbatimDup, HeldSeen, HeldHold, roomVars, redisVars
  <2>2. pc[p] \in {"turnpost", "gate", "hold", "stale", "seen", "fresh", "dup", "heldseen", "heldhold"}
    BY <1>2 DEF Preflight, ReadTurnPost, MonologueGate, ConsumeHold, StaleToken, GetSeen, Freshness,
       VerbatimDup, HeldSeen, HeldHold
  <2>3. \/ pc'[p] \in {"hold", "stale", "seen", "fresh", "dup", "begin", "heldseen", "heldhold", "idle"}
        \/ ReadTurnPost(p) /\ pc'[p] = "gate"
    <3>1. CASE ConsumeHold(p)
      <4>1. \E b, n : Goto(p, AfterHold(p, b, n))
        BY <3>1 DEF ConsumeHold
      <4> QED
        BY <1>1, <4>1, Arrives
    <3>2. CASE ReadTurnPost(p) \/ MonologueGate(p) \/ GetSeen(p) \/ HeldSeen(p) \/ HeldHold(p)
      BY <3>2, Arrives DEF ReadTurnPost, MonologueGate, GetSeen, HeldSeen, HeldHold
    <3>3. CASE StaleToken(p) \/ Freshness(p) \/ VerbatimDup(p)
      BY <3>3, Arrives DEF StaleToken, Freshness, VerbatimDup
    <3> QED
      BY <1>2, <3>1, <3>2, <3>3 DEF Preflight
  <2>4. Goal
    BY <2>2, <2>3 DEF Working
  <2> QED
    BY <2>1, <2>4
<1>3. CASE Afterwards(p)
  <2>1. UNCHANGED <<run, log>> /\ (MarkPost(p) \/ UNCHANGED turnPost)
    BY <1>3 DEF Afterwards, RecordOwn, CountPost, MarkPost, DropHold, roomVars, redisVars
  <2>2. Goal
    <3>1. CASE RecordOwn(p)
      BY <3>1, Arrives DEF RecordOwn, Working
    <3>2. CASE CountPost(p)
      BY <3>2, Arrives DEF CountPost, Working
    <3>3. CASE MarkPost(p)
      BY <3>3, Arrives DEF MarkPost, Working
    <3>4. CASE DropHold(p)
      BY <3>4, Arrives DEF DropHold, Working
    <3> QED
      BY <1>3, <3>1, <3>2, <3>3, <3>4 DEF Afterwards
  <2> QED
    BY <2>1, <2>2
<1>4. CASE Show(p) \/ Start(p) \/ Look(p)
  <2>1. UNCHANGED <<run, log, turnPost>>
    BY <1>4 DEF Show, Start, Look, roomVars, redisVars
  <2>2. Goal
    BY <1>4, Arrives DEF Show, Start, Look, Working
  <2> QED
    BY <2>1, <2>2
<1>5. CASE Transaction(p)
  <2>1. UNCHANGED <<run, turnPost>> /\ (CommitReply(p) \/ UNCHANGED log)
    BY <1>5 DEF Transaction, BeginTx, ClaimSequence, Recheck, Touch, CommitReply, DeadlockVictim,
       roomVars, redisVars
  <2>2. Goal
    <3>1. CASE CommitReply(p)
      BY <3>1, Arrives DEF CommitReply, Working
    <3>2. CASE BeginTx(p) \/ ClaimSequence(p) \/ Touch(p)
      BY <3>2, Arrives DEF BeginTx, ClaimSequence, Touch, Working
    <3>3. CASE Recheck(p)
      BY <3>3, Arrives DEF Recheck, Working
    <3>4. CASE DeadlockVictim(p)
      BY <3>4, Arrives DEF DeadlockVictim, Deadlocked, Working
    <3> QED
      BY <1>5, <3>1, <3>2, <3>3, <3>4 DEF Transaction
  <2> QED
    BY <2>1, <2>2
<1> QED
  BY <1>2, <1>3, <1>4, <1>5 DEF Step, Outside

LEMMA TallyStays ==
    ASSUME NEW p \in Procs, TallyOK(p), turnPost'[Me(p)] = turnPost[Me(p)],
           \A r \in Nat \ {0} : Cardinality(OwnRows(Me(p), r)') = Cardinality(OwnRows(Me(p), r)),
           \A r \in Nat \ {0} : RunIdKnown => Unmarked(p, r)' = Unmarked(p, r)
    PROVE  TallyOK(p)'
<1> SUFFICES ASSUME RunIdKnown, NEW r \in Nat \ {0}, r >= turnPost[Me(p)].run
             PROVE  Cardinality(OwnRows(Me(p), r)') = Counted(p, r)' + Unmarked(p, r)'
  BY DEF TallyOK, Me
<1>1. Counted(p, r)' = Counted(p, r)
  BY DEF Counted, Me
<1>2. Cardinality(OwnRows(Me(p), r)) = Counted(p, r) + Unmarked(p, r)
  BY DEF TallyOK
<1> QED
  BY <1>1, <1>2

\* The values the ledger is about are numbers.
LEMMA LedgerTypes ==
    ASSUME TypeOK, NEW p \in Procs
    PROVE  /\ Me(p) \in Agents /\ Me(p)' = Me(p) /\ draft[p] \in Draft
           /\ draft[p].run \in Nat /\ run[Me(p)] \in Nat
           /\ turnPost[Me(p)].run \in Nat /\ turnPost[Me(p)].posts \in Nat
           /\ \A r \in Nat : Counted(p, r) \in Nat /\ Unmarked(p, r) \in Nat
<1>1. Me(p) \in Agents /\ Me(p)' = Me(p)
  BY GateAssumption DEF Me
<1>2. draft[p] \in Draft
  BY DEF TypeOK
<1>3. draft[p].run \in Nat
  BY <1>2 DEF Draft
<1>4. run[Me(p)] \in Nat /\ turnPost[Me(p)] \in [run : Nat, posts : Nat]
  BY <1>1 DEF TypeOK
<1> QED
  BY <1>1, <1>2, <1>3, <1>4 DEF Counted, Unmarked

\* While somebody else moves, only the agent's run may move on.
LEMMA LedgerStays ==
    ASSUME TypeOK, NEW p \in Procs, Ledger(p),
           pc'[p] = pc[p], draft'[p] = draft[p], turnPost'[Me(p)] = turnPost[Me(p)],
           run'[Me(p)] \in Nat, run'[Me(p)] >= run[Me(p)],
           \A r \in Nat \ {0} : Cardinality(OwnRows(Me(p), r)') = Cardinality(OwnRows(Me(p), r))
    PROVE  Ledger(p)'
<1> USE LedgerTypes DEF Ledger
<1>1. TallyOK(p)'
  BY TallyStays DEF Unmarked
<1>2. RunsOK(p)'
  BY DEF RunsOK, Working
<1>3. MarkOK(p)'
  BY DEF MarkOK, Counted
<1>4. AllowedOK(p)'
  BY DEF AllowedOK
<1> QED
  BY <1>1, <1>2, <1>3, <1>4

LEMMA CommitLedger ==
    ASSUME IInv, NEW p \in Procs, CommitReply(p), Ledger(p)
    PROVE  Ledger(p)'
<1>1. TypeOK /\ LockHeld
  BY DEF IInv
<1>2. /\ pc[p] = "commit" /\ pc'[p] = "own" /\ draft'[p] = draft[p]
      /\ UNCHANGED <<turnPost, run>> /\ log' = Append(log, Posted(p))
  BY <1>1, Arrives DEF CommitReply, Committed, redisVars
<1>3. Posted(p) \in Message /\ Posted(p).by = Me(p) /\ Posted(p).run = draft[p].run
  BY <1>1, <1>2, CommittedType DEF Posted
<1>4. Working(p) /\ draft[p].run \in Nat \ {0} /\ turnPost[Me(p)].run <= draft[p].run
  <2>1. Working(p)
    BY <1>2 DEF Working
  <2>2. draft[p].run > 0 /\ turnPost[Me(p)].run <= draft[p].run
    BY <2>1 DEF Ledger, RunsOK
  <2> QED
    BY <1>1, <2>1, <2>2, LedgerTypes
<1>5. TallyOK(p)'
  <2> SUFFICES ASSUME RunIdKnown, NEW r \in Nat \ {0}, r >= turnPost[Me(p)].run
               PROVE  Cardinality(OwnRows(Me(p), r)') = Counted(p, r)' + Unmarked(p, r)'
    BY <1>2 DEF TallyOK, Me
  <2>1. Cardinality(OwnRows(Me(p), r)) = Counted(p, r) + Unmarked(p, r)
    BY DEF Ledger, TallyOK
  <2>2. Counted(p, r)' = Counted(p, r) /\ Counted(p, r) \in Nat
    BY <1>1, <1>2, LedgerTypes DEF Counted, Me
  <2>3. Unmarked(p, r) = 0 /\ Unmarked(p, r)' = IF draft[p].run = r THEN 1 ELSE 0
    BY <1>2 DEF Unmarked
  <2>4. draft[p].run # r => OwnRows(Me(p), r)' = OwnRows(Me(p), r)
    BY <1>1, <1>2, <1>3, OwnRowsCount
  <2>5. draft[p].run = r => Cardinality(OwnRows(Me(p), r)') = Cardinality(OwnRows(Me(p), r)) + 1
    BY <1>1, <1>2, <1>3, OwnRowsCount
  <2> QED
    BY <2>1, <2>2, <2>3, <2>4, <2>5
<1>6. RunsOK(p)'
  BY <1>2, <1>4, LedgerTypes, <1>1 DEF Ledger, RunsOK
<1>7. MarkOK(p)' /\ AllowedOK(p)'
  BY <1>2 DEF MarkOK, AllowedOK, Deciding
<1> QED
  BY <1>5, <1>6, <1>7 DEF Ledger

LEMMA MarkLedger ==
    ASSUME IInv, NEW p \in Procs, MarkPost(p), ~RedisError, Ledger(p)
    PROVE  Ledger(p)'
<1>1. TypeOK
  BY DEF IInv
<1>2. /\ pc[p] = "mark" /\ pc'[p] = "clear" /\ draft'[p] = draft[p] /\ UNCHANGED <<run, log>>
      /\ turnPost' = [turnPost EXCEPT ![Me(p)] = [run |-> draft[p].run, posts |-> draft[p].base]]
  BY <1>1, Arrives DEF MarkPost, roomVars
<1>3. turnPost'[Me(p)].run = draft[p].run /\ turnPost'[Me(p)].posts = draft[p].base
  BY <1>1, <1>2, LedgerTypes DEF TypeOK
<1>4. Working(p) /\ draft[p].run \in Nat \ {0} /\ turnPost[Me(p)].run <= draft[p].run
  <2>1. Working(p)
    BY <1>2 DEF Working
  <2>2. draft[p].run > 0 /\ turnPost[Me(p)].run <= draft[p].run
    BY <2>1 DEF Ledger, RunsOK
  <2> QED
    BY <1>1, <2>1, <2>2, LedgerTypes
<1>5. draft[p].base = Counted(p, draft[p].run) + 1
  BY <1>2 DEF Ledger, MarkOK
<1>6. TallyOK(p)'
  <2> SUFFICES ASSUME RunIdKnown, NEW r \in Nat \ {0}, r >= draft[p].run
               PROVE  Cardinality(OwnRows(Me(p), r)') = Counted(p, r)' + Unmarked(p, r)'
    BY <1>3 DEF TallyOK, Me
  <2>1. OwnRows(Me(p), r)' = OwnRows(Me(p), r)
    BY <1>2 DEF OwnRows, Me
  <2>2. Unmarked(p, r)' = 0 /\ Unmarked(p, r) = IF draft[p].run = r THEN 1 ELSE 0
    BY <1>2 DEF Unmarked
  <2>3. Counted(p, r)' = IF draft[p].run = r THEN draft[p].base ELSE 0
    BY <1>3 DEF Counted, Me
  <2>4. r >= turnPost[Me(p)].run
    BY <1>1, <1>4, LedgerTypes
  <2>5. Cardinality(OwnRows(Me(p), r)) = Counted(p, r) + Unmarked(p, r)
    BY <2>4 DEF Ledger, TallyOK
  <2>6. CASE draft[p].run = r
    BY <1>1, <1>5, <2>1, <2>2, <2>3, <2>5, <2>6, LedgerTypes
  <2>7. CASE draft[p].run # r
    <3>1. turnPost[Me(p)].run # r
      BY <1>1, <1>4, <2>7, LedgerTypes
    <3>2. Counted(p, r) = 0
      BY <3>1 DEF Counted
    <3> QED
      BY <2>1, <2>2, <2>3, <2>5, <2>7, <3>2
  <2> QED
    BY <2>6, <2>7
<1>7. RunsOK(p)'
  <2>1. run'[Me(p)] = run[Me(p)] /\ draft'[p].run = draft[p].run /\ turnPost'[Me(p)].run = draft[p].run
    BY <1>2, <1>3
  <2>2. draft[p].run > 0 /\ draft[p].run <= run[Me(p)] /\ run[Me(p)] > 0
    BY <1>4 DEF Ledger, RunsOK
  <2> QED
    BY <1>1, <2>1, <2>2, LedgerTypes DEF RunsOK
<1>8. MarkOK(p)' /\ AllowedOK(p)'
  BY <1>2 DEF MarkOK, AllowedOK, Deciding
<1> QED
  BY <1>6, <1>7, <1>8 DEF Ledger

LEMMA OwnLedger ==
    ASSUME IInv, NEW p \in Procs, Step(p), ~TxFails(p), ~RedisError, Ledger(p)
    PROVE  Ledger(p)'
<1>1. TypeOK
  BY DEF IInv
<1>2. CASE CommitReply(p) \/ MarkPost(p)
  BY <1>2, CommitLedger, MarkLedger
<1>3. CASE ~CommitReply(p) /\ ~MarkPost(p)
  <2>1. UNCHANGED <<run, turnPost, log>>
    BY <1>1, <1>3, Course
  <2>2. turnPost'[Me(p)] = turnPost[Me(p)] /\ run'[Me(p)] = run[Me(p)]
    BY <1>1, <2>1, LedgerTypes
  <2>3. Start(p) => /\ pc[p] = "idle" /\ pc'[p] = "turnpost"
                    /\ draft'[p].run = run[Me(p)] /\ draft'[p].way = "none"
    <3> SUFFICES ASSUME Start(p)
                 PROVE  /\ pc[p] = "idle" /\ pc'[p] = "turnpost"
                        /\ draft'[p].run = run[Me(p)] /\ draft'[p].way = "none"
      OBVIOUS
    <3>1. PICK body \in Bodies, flags \in Flags :
            draft'[p] = [NoDraft EXCEPT !.body = body, !.flags = flags, !.run = run[Me(p)], !.group = Grp]
      BY <1>1, Arrives DEF Start
    <3>2. draft'[p].run = run[Me(p)] /\ draft'[p].way = "none"
      BY <3>1 DEF NoDraft
    <3> QED
      BY <1>1, <3>2, Arrives DEF Start
  <2>4. Working(p)' => Start(p) \/ (Working(p) /\ Keeps(p))
    BY <1>1, Course, StepKeeps DEF Working
  <2>5. RunsOK(p)'
    <3>1. CASE Start(p)
      BY <1>1, <2>2, <2>3, <3>1, LedgerTypes DEF Ledger, RunsOK
    <3>2. CASE ~Start(p) /\ Working(p)'
      BY <1>1, <2>2, <2>4, <3>2, LedgerTypes DEF Ledger, RunsOK, Keeps
    <3>3. CASE ~Working(p)'
      BY <1>1, <2>2, <3>3, LedgerTypes DEF Ledger, RunsOK
    <3> QED
      BY <3>1, <3>2, <3>3
  <2>6. pc[p] # "mark" /\ pc'[p] # "own"
    BY <1>1, <1>3, Course
  <2>7. pc[p] = "own" => RecordOwn(p) /\ pc'[p] = (IF RunIdKnown THEN "count" ELSE "clear") /\ draft'[p] = draft[p]
    BY <1>1, Course, Arrives DEF RecordOwn
  <2>8. pc[p] = "count" => /\ pc'[p] = "mark" /\ draft'[p].run = draft[p].run
                           /\ draft'[p].base = Counted(p, draft[p].run) + 1
    <3> SUFFICES ASSUME CountPost(p)
                 PROVE  /\ pc'[p] = "mark" /\ draft'[p].run = draft[p].run
                        /\ draft'[p].base = Counted(p, draft[p].run) + 1
      BY <1>1, Course
    <3>1. pc'[p] = "mark"
      BY <1>1, Arrives DEF CountPost
    <3>2. draft'[p] = [draft[p] EXCEPT !.base =
              IF turnPost[Me(p)].posts > 0 /\ turnPost[Me(p)].run = draft[p].run
              THEN turnPost[Me(p)].posts + 1 ELSE 1]
      BY <1>1, Arrives DEF CountPost
    <3>3. /\ draft'[p].run = draft[p].run
          /\ draft'[p].base = IF turnPost[Me(p)].posts > 0 /\ turnPost[Me(p)].run = draft[p].run
                              THEN turnPost[Me(p)].posts + 1 ELSE 1
      BY <1>1, <3>2, LedgerTypes DEF Draft
    <3> QED
      BY <1>1, <3>1, <3>3, LedgerTypes DEF Counted
  <2>9. pc'[p] = "mark" => pc[p] = "count"
    <3>1. pc'[p] = "mark" => CountPost(p)
      BY <1>1, Course
    <3> QED
      BY <3>1 DEF CountPost
  <2>10. pc'[p] = "count" => pc[p] = "own"
    <3>1. pc'[p] = "count" => RecordOwn(p)
      BY <1>1, Course
    <3> QED
      BY <3>1 DEF RecordOwn
  <2>11. \A r \in Nat \ {0} : RunIdKnown => Unmarked(p, r)' = Unmarked(p, r)
    BY <2>6, <2>7, <2>8, <2>9, <2>10 DEF Unmarked
  <2>12. \A r : OwnRows(Me(p), r)' = OwnRows(Me(p), r)
    BY <2>1 DEF OwnRows, Me
  <2>13. TallyOK(p)'
    BY <2>2, <2>11, <2>12, TallyStays DEF Ledger
  <2>14. MarkOK(p)'
    BY <1>1, <2>2, <2>8, <2>9, LedgerTypes DEF MarkOK, Counted
  <2>15. AllowedOK(p)'
    <3>1. ASSUME pc[p] \in {"turnpost", "gate"} \cup Deciding, draft[p].way = "delivery",
                 draft'[p].run = draft[p].run
          PROVE  AllowedOK(p)'
      BY <1>1, <2>2, <3>1, LedgerTypes DEF Ledger, AllowedOK
    <3>2. CASE Start(p)
      BY <2>3, <3>2 DEF AllowedOK
    <3>3. CASE ReadTurnPost(p)
      <4>1. pc[p] = "turnpost"
        BY <3>3 DEF ReadTurnPost
      <4>2. draft'[p] = draft[p] \/ (SameTurn(p) /\ draft'[p] = [draft[p] EXCEPT !.way = "delivery"])
        BY <1>1, <3>3, Arrives DEF ReadTurnPost
      <4>3. draft'[p].run = draft[p].run
        BY <1>1, <4>2, LedgerTypes DEF Draft
      <4>4. CASE SameTurn(p)
        BY <1>1, <2>2, <4>3, <4>4, LedgerTypes DEF SameTurn, AllowedOK
      <4>5. CASE draft'[p] = draft[p]
        BY <3>1, <4>1, <4>5 DEF AllowedOK
      <4> QED
        BY <4>2, <4>4, <4>5
    <3>4. CASE pc'[p] \in Deciding
      <4>1. Way(p) = "delivery" => draft[p].way = "delivery"
        BY DEF Way
      <4>2. MonologueGate(p) => pc[p] = "gate"
        BY DEF MonologueGate
      <4> QED
        BY <1>1, <3>1, <3>4, <4>1, <4>2, Decided DEF AllowedOK
    <3>5. pc'[p] \in {"turnpost", "gate"} => Start(p) \/ ReadTurnPost(p)
      BY <1>1, Course
    <3> QED
      BY <3>2, <3>3, <3>4, <3>5 DEF AllowedOK
  <2> QED
    BY <2>5, <2>13, <2>14, <2>15 DEF Ledger
<1> QED
  BY <1>2, <1>3


\* The same agent runs nothing else.
LEMMA OthersLedger ==
    ASSUME IInv, [Next]_vars, OneAtATime, ~Lapse, NEW p \in Procs, ~Step(p), Ledger(p)
    PROVE  Ledger(p)'
<1>1. TypeOK /\ LockHeld
  BY DEF IInv
<1>2. CASE \E q \in Procs : Step(q)
  <2>1. PICK q \in Procs : Step(q)
    BY <1>2
  <2>2. q # p /\ Me(q) # Me(p)
    BY <2>1 DEF OneAtATime, Me
  <2>3. pc'[p] = pc[p] /\ draft'[p] = draft[p]
    BY <1>1, <2>1, <2>2, OthersStay
  <2>4. UNCHANGED run
    BY <2>1 DEF Step, Outside, Preflight, Afterwards, Show, Start, Look, ReadTurnPost, MonologueGate,
       ConsumeHold, StaleToken, GetSeen, Freshness, VerbatimDup, HeldSeen, HeldHold, RecordOwn,
       CountPost, MarkPost, DropHold, Transaction, BeginTx, ClaimSequence, Recheck, Touch,
       CommitReply, DeadlockVictim, TxFails
  <2>5. turnPost'[Me(p)] = turnPost[Me(p)]
    <3>1. \/ UNCHANGED turnPost
          \/ \E x : turnPost' = [turnPost EXCEPT ![Me(q)] = x]
      <4>1. CASE Preflight(q)
        BY <4>1 DEF Preflight, ReadTurnPost, MonologueGate, ConsumeHold, StaleToken, GetSeen, Freshness,
           VerbatimDup, HeldSeen, HeldHold, redisVars
      <4>2. CASE Afterwards(q)
        BY <4>2 DEF Afterwards, RecordOwn, CountPost, MarkPost, DropHold, redisVars
      <4>3. CASE Show(q) \/ Start(q) \/ Look(q) \/ Transaction(q) \/ TxFails(q)
        BY <4>3 DEF Show, Start, Look, Transaction, BeginTx, ClaimSequence, Recheck, Touch,
           CommitReply, DeadlockVictim, TxFails, redisVars
      <4> QED
        BY <2>1, <4>1, <4>2, <4>3 DEF Step, Outside
    <3>2. Me(p) \in Agents /\ Me(q) \in Agents /\ turnPost \in [Agents -> [run : Nat, posts : Nat]]
      BY <1>1, LedgerTypes DEF TypeOK
    <3> QED
      BY <2>2, <3>1, <3>2
  <2>6. \A r \in Nat \ {0} : OwnRows(Me(p), r)' = OwnRows(Me(p), r)
    <3>1. CASE UNCHANGED log
      BY <3>1 DEF OwnRows, Me
    <3>2. CASE pc[q] = "commit" /\ log' = Append(log, Posted(q))
      <4>1. Posted(q) \in Message /\ Posted(q).by # Me(p)
        BY <1>1, <2>2, <3>2, CommittedType DEF Posted
      <4> QED
        BY <1>1, <3>2, <4>1, OwnRowsCount DEF Me
    <3>3. UNCHANGED log \/ (pc[q] = "commit" /\ log' = Append(log, Posted(q)))
      <4>1. CASE Outside(q)
        BY <1>1, <4>1, OutsideMoves
      <4>2. CASE Transaction(q) \/ TxFails(q)
        BY <4>2 DEF Transaction, BeginTx, ClaimSequence, Recheck, Touch, CommitReply, DeadlockVictim,
           TxFails, Committed, roomVars
      <4> QED
        BY <2>1, <4>1, <4>2 DEF Step
    <3> QED
      BY <3>1, <3>2, <3>3
  <2>7. run'[Me(p)] \in Nat /\ run'[Me(p)] >= run[Me(p)]
    BY <1>1, <2>4, LedgerTypes
  <2> QED
    BY <1>1, <2>3, <2>5, <2>6, <2>7, LedgerStays
<1>3. CASE ~ \E q \in Procs : Step(q)
  <2>1. UNCHANGED <<pc, draft>>
    BY <1>3, WhoMoves
  <2>2. \/ \E a \in Agents : Ack(a) \/ EndTurn(a)
        \/ Speak \/ RepeatedPost \/ Move \/ UNCHANGED vars
    BY <1>3 DEF Next, Advance, Step, Outside
  <2>3. UNCHANGED turnPost
    BY <2>2 DEF Ack, EndTurn, Speak, RepeatedPost, Move, vars, redisVars
  <2>4. run'[Me(p)] \in Nat /\ run'[Me(p)] >= run[Me(p)]
    <3>1. UNCHANGED run \/ \E a \in Agents : run' = [run EXCEPT ![a] = @ + 1]
      BY <2>2 DEF Ack, EndTurn, Speak, RepeatedPost, Move, vars
    <3>2. run \in [Agents -> Nat] /\ Me(p) \in Agents
      BY <1>1, LedgerTypes DEF TypeOK
    <3> QED
      BY <3>1, <3>2
  <2>5. \A r \in Nat \ {0} : OwnRows(Me(p), r)' = OwnRows(Me(p), r)
    <3>1. CASE UNCHANGED log
      BY <3>1 DEF OwnRows, Me
    <3>2. CASE \E by, b : log' = Append(log, Row(by, b)) /\ Row(by, b) \in Message
      <4>1. \A by, b : Row(by, b).run = 0
        BY DEF Row
      <4> QED
        BY <1>1, <3>2, <4>1, OwnRowsCount DEF Me
    <3> QED
      BY <1>3, <3>1, <3>2, LogSteps
  <2> QED
    BY <1>1, <2>1, <2>3, <2>4, <2>5, LedgerStays
<1> QED
  BY <1>2, <1>3

Delivered ==
    OneAtATime /\ faults.redis = 0 /\ faults.tx = 0 /\ faults.lapses = 0 =>
        /\ \A p \in Procs : Ledger(p)
        /\ \A i \in DOMAIN log :
              log[i].way = "delivery" =>
                  Cardinality({j \in 1..(i-1) : log[j].by = log[i].by /\ log[j].run = log[i].run})
                      < MaxPosts

\* A post admitted as the delivery of its turn is within the turn's allowance.
LEMMA DeliveryAllowed ==
    ASSUME IInv, NEW p \in Procs, Ledger(p), pc[p] = "commit", draft[p].way = "delivery"
    PROVE  Cardinality(OwnRows(Me(p), draft[p].run)) < MaxPosts
<1>1. TypeOK
  BY DEF IInv
<1>2. /\ RunIdKnown /\ turnPost[Me(p)].run = draft[p].run
      /\ turnPost[Me(p)].posts \in 1..(MaxPosts - 1)
  BY DEF Ledger, AllowedOK, Deciding
<1>3. Working(p) /\ draft[p].run > 0
  BY DEF Ledger, RunsOK, Working
<1>4. PICK r \in Nat \ {0} : r = draft[p].run
  BY <1>1, <1>3, LedgerTypes
<1>5. Cardinality(OwnRows(Me(p), r)) = Counted(p, r) + Unmarked(p, r)
  BY <1>2, <1>4 DEF Ledger, TallyOK
<1>6. Counted(p, r) = turnPost[Me(p)].posts /\ Unmarked(p, r) = 0
  BY <1>2, <1>4 DEF Counted, Unmarked
<1> QED
  BY <1>1, <1>2, <1>4, <1>5, <1>6, LedgerTypes, GateAssumption

LEMMA DeliveredStep == IInv /\ Delivered /\ [Next]_vars => Delivered'
<1> SUFFICES ASSUME IInv, Delivered, [Next]_vars, OneAtATime,
                    faults'.redis = 0, faults'.tx = 0, faults'.lapses = 0
             PROVE  /\ \A p \in Procs : Ledger(p)'
                    /\ \A i \in DOMAIN log' :
                          log'[i].way = "delivery" =>
                            Cardinality({j \in 1..(i-1) : log'[j].by = log'[i].by /\ log'[j].run = log'[i].run})
                                < MaxPosts
  BY DEF Delivered, OneAtATime
<1>1. TypeOK /\ LockHeld
  BY DEF IInv
<1>2. /\ faults.redis = 0 /\ faults.tx = 0 /\ faults.lapses = 0
      /\ ~RedisError /\ ~Lapse /\ \A p \in Procs : ~TxFails(p)
  BY <1>1, FaultsCounted
<1>3. /\ \A p \in Procs : Ledger(p)
      /\ \A i \in DOMAIN log :
            log[i].way = "delivery" =>
                Cardinality({j \in 1..(i-1) : log[j].by = log[i].by /\ log[j].run = log[i].run})
                    < MaxPosts
  BY <1>2 DEF Delivered
<1>4. \A p \in Procs : Ledger(p)'
  BY <1>2, <1>3, OwnLedger, OthersLedger
<1>5. DOMAIN log = 1..Len(log) /\ Len(log) \in Nat
  BY <1>1, Rows
<1>6. ASSUME NEW m \in Message, log' = Append(log, m),
             m.way = "delivery" => Cardinality(OwnRows(m.by, m.run)) < MaxPosts,
             NEW i \in DOMAIN log', log'[i].way = "delivery"
      PROVE  Cardinality({j \in 1..(i-1) : log'[j].by = log'[i].by /\ log'[j].run = log'[i].run}) < MaxPosts
  <2>1. \A k \in 1..Len(log) : log'[k] = log[k]
    BY <1>1, <1>6, Appended
  <2>2. log'[Len(log) + 1] = m /\ DOMAIN log' = 1..(Len(log) + 1)
    <3>1. log' \in Seq(Message) /\ Len(log') = Len(log) + 1 /\ log'[Len(log) + 1] = m
      BY <1>1, <1>6, Appended
    <3> QED
      BY <3>1
  <2>3. CASE i \in 1..Len(log)
    <3>1. log'[i] = log[i]
      BY <2>1, <2>3
    <3>2. \A j \in 1..(i-1) : log'[j] = log[j]
      BY <1>5, <2>1, <2>3
    <3>3. {j \in 1..(i-1) : log'[j].by = log'[i].by /\ log'[j].run = log'[i].run}
            = {j \in 1..(i-1) : log[j].by = log[i].by /\ log[j].run = log[i].run}
      BY <3>1, <3>2
    <3>4. i \in DOMAIN log /\ log[i].way = "delivery"
      BY <1>5, <1>6, <2>3, <3>1
    <3> QED
      BY <1>3, <3>3, <3>4
  <2>4. CASE i = Len(log) + 1
    <3>1. 1..(i-1) = 1..Len(log) /\ log'[i] = m
      BY <1>5, <2>2, <2>4
    <3>2. {j \in 1..(i-1) : log'[j].by = log'[i].by /\ log'[j].run = log'[i].run} = OwnRows(m.by, m.run)
      BY <1>5, <2>1, <3>1 DEF OwnRows
    <3> QED
      BY <1>6, <3>1, <3>2
  <2>5. i \in 1..Len(log) \/ i = Len(log) + 1
    BY <1>5, <1>6, <2>2
  <2> QED
    BY <2>3, <2>4, <2>5
<1>7. ASSUME NEW p \in Procs, pc[p] = "commit"
      PROVE  /\ Posted(p) \in Message
             /\ Posted(p).way = "delivery" => Cardinality(OwnRows(Posted(p).by, Posted(p).run)) < MaxPosts
  <2>1. Posted(p).by = Me(p) /\ Posted(p).run = draft[p].run /\ Posted(p).way = draft[p].way
    BY DEF Posted
  <2> QED
    BY <1>1, <1>3, <1>7, <2>1, CommittedType, DeliveryAllowed
<1>8. \A by, b : Row(by, b).way # "delivery"
  BY DEF Row
<1>9. \A i \in DOMAIN log' :
         log'[i].way = "delivery" =>
           Cardinality({j \in 1..(i-1) : log'[j].by = log'[i].by /\ log'[j].run = log'[i].run}) < MaxPosts
  <2>1. CASE UNCHANGED log
    BY <1>3, <2>1
  <2>2. CASE \E p \in Procs : pc[p] = "commit" /\ log' = Append(log, Posted(p))
    BY <1>6, <1>7, <2>2
  <2>3. CASE \E by, b : log' = Append(log, Row(by, b)) /\ Row(by, b) \in Message
    BY <1>6, <1>8, <2>3
  <2> QED
    BY <2>1, <2>2, <2>3, LogSteps
<1> QED
  BY <1>4, <1>9

\* One command at a time, no failing call and no expired key: what passes as the
\* delivery of its turn is at most the MaxPosts-th post of that turn.
THEOREM DeliversOnce == Spec => []DeliveredOnce
<1>1. Init => Delivered
  <2> SUFFICES ASSUME Init PROVE Delivered
    OBVIOUS
  <2>1. DOMAIN log = {} /\ \A a, r : OwnRows(a, r) = {}
    BY DEF Init, OwnRows
  <2>2. ASSUME NEW p \in Procs PROVE Ledger(p)
    <3>1. pc[p] = "idle" /\ Me(p) \in Agents
      BY GateAssumption DEF Init, Me
    <3>2. turnPost[Me(p)] = [run |-> 0, posts |-> 0] /\ run[Me(p)] = 1
      BY <3>1 DEF Init
    <3>3. TallyOK(p)
      <4> SUFFICES ASSUME NEW r \in Nat \ {0}
                   PROVE  Cardinality(OwnRows(Me(p), r)) = Counted(p, r) + Unmarked(p, r)
        BY DEF TallyOK
      <4>1. Cardinality(OwnRows(Me(p), r)) = 0
        BY <2>1, FS_EmptySet
      <4>2. Counted(p, r) = 0 /\ Unmarked(p, r) = 0
        BY <3>1, <3>2 DEF Counted, Unmarked
      <4> QED
        BY <4>1, <4>2
    <3> QED
      BY <3>1, <3>2, <3>3 DEF Ledger, RunsOK, MarkOK, AllowedOK, Deciding, Working
  <2> QED
    BY <2>1, <2>2 DEF Delivered
<1>2. IInv /\ Delivered /\ [Next]_vars => Delivered'
  BY DeliveredStep
<1>3. Delivered => DeliveredOnce
  BY DEF Delivered, DeliveredOnce
<1> QED
  BY <1>1, <1>2, <1>3, LockInvariant, PTL DEF Spec

=============================================================================
