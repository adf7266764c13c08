---------------------------- MODULE ServicesProofs ----------------------------
(***************************************************************************)
(* Three services that agents and people share, for every value of the     *)
(* constants: the claims of the worklog, the claims of routed wakes and    *)
(* the documents.  The components share no state, their proofs only the    *)
(* library.                                                                *)
(***************************************************************************)
EXTENDS MCServices, FiniteSetTheorems, SequenceTheorems, TLAPS

-----------------------------------------------------------------------------
(* Worklog: who may work at the same time. *)

\* Between its claim and the end of its release a command counts as active.
Active == {"expire", "work", "relget", "reldel"}

Holds(c) == entry # Nothing /\ entry.of = c

\* Who is active without the claim: its HSETNX failed open, or a release by such a
\* command of the same agent took the claim away.
Uncovered == {c \in Procs : pc[c] \in Active /\ ~Holds(c)}

\* No claim is old before a gap is over, so nobody evicts.
Fresh ==
    /\ entry # Nothing => ~entry.old
    /\ \A c \in Procs : pc[c] \notin {"evict", "retake", "look"}

\* Each command without the claim has a failed call to account for it: its own, or
\* the one of the command that took the claim away and became idle by that.
Accounted == IsFiniteSet(Uncovered) /\ Cardinality(Uncovered) <= faults.redis

IInv == TypeOK /\ (~faults.gap => Fresh /\ Accounted)

-----------------------------------------------------------------------------
(* Counting *)

\* A part of a set has at most as many elements.
LEMMA Fewer ==
    ASSUME NEW S, IsFiniteSet(S), NEW n \in Nat, Cardinality(S) <= n, NEW T \in SUBSET S
    PROVE  IsFiniteSet(T) /\ Cardinality(T) <= n
BY FS_Subset, FS_CardinalityType

\* One element more.
LEMMA OneMore ==
    ASSUME NEW S, IsFiniteSet(S), NEW n \in Nat, Cardinality(S) <= n, NEW x,
           NEW T \in SUBSET (S \cup {x})
    PROVE  IsFiniteSet(T) /\ Cardinality(T) <= n + 1
<1>1. /\ IsFiniteSet(S \cup {x})
      /\ Cardinality(S \cup {x}) \in Nat /\ Cardinality(S) \in Nat
      /\ Cardinality(S \cup {x}) <= Cardinality(S) + 1
  BY FS_AddElement, FS_CardinalityType
<1> QED
  BY <1>1, FS_Subset, FS_CardinalityType

\* One element for another.
LEMMA Exchange ==
    ASSUME NEW S, IsFiniteSet(S), NEW n \in Nat, Cardinality(S) <= n,
           NEW x \in S, NEW y, NEW T \in SUBSET ((S \ {x}) \cup {y})
    PROVE  IsFiniteSet(T) /\ Cardinality(T) <= n
<1>1. IsFiniteSet(S \ {x}) /\ Cardinality(S \ {x}) = Cardinality(S) - 1
  BY FS_RemoveElement
<1>2. Cardinality(S) \in Nat /\ Cardinality(S \ {x}) \in Nat
  BY <1>1, FS_CardinalityType
<1>3. n - 1 \in Nat /\ Cardinality(S \ {x}) <= n - 1
  BY <1>1, <1>2
<1> QED
  BY <1>1, <1>3, OneMore

-----------------------------------------------------------------------------
(* Types *)

LEMMA InitType == Init => TypeOK
<1> SUFFICES ASSUME Init PROVE TypeOK
  OBVIOUS
<1>1. faults \in [redis : Nat, crashes : Nat, gap : BOOLEAN]
  BY DEF Init
<1>2. entry \in Claim \cup {Nothing} /\ ttl \in BOOLEAN /\ pc \in [Procs -> Steps]
  BY DEF Init, Steps
<1> QED
  BY <1>1, <1>2 DEF TypeOK

LEMMA MineType == \A c \in Procs : Mine(c) \in Claim /\ Mine(c) # Nothing
<1> SUFFICES ASSUME NEW c \in Procs PROVE Mine(c) \in Claim /\ Mine(c) # Nothing
  OBVIOUS
<1>1. Owner[c] \in Agents /\ Nothing \notin Claim
  BY WorklogAssumption DEF WorklogAssumption, Claim
<1>2. Mine(c) \in Claim
  BY <1>1 DEF Mine, Claim
<1> QED
  BY <1>1, <1>2

\* One fault more.
LEMMA FaultsType ==
    ASSUME TypeOK
    PROVE  /\ [faults EXCEPT !.redis = @ + 1] \in [redis : Nat, crashes : Nat, gap : BOOLEAN]
           /\ [faults EXCEPT !.crashes = @ + 1] \in [redis : Nat, crashes : Nat, gap : BOOLEAN]
<1>1. faults \in [redis : Nat, crashes : Nat, gap : BOOLEAN]
  BY DEF TypeOK
<1>2. faults.redis + 1 \in Nat /\ faults.crashes + 1 \in Nat
  BY <1>1
<1> QED
  BY <1>1, <1>2

LEMMA NextType == TypeOK /\ [Next]_vars => TypeOK'
<1> SUFFICES ASSUME TypeOK, [Next]_vars PROVE TypeOK'
  OBVIOUS
<1> USE DEF TypeOK, Goto, Steps
<1>1. ASSUME NEW c \in Procs, Start(c) \/ Expire(c) \/ Hget(c) \/ Look(c) \/ Finish(c)
                              \/ ReleaseGet(c)
      PROVE  TypeOK'
  BY <1>1 DEF Start, Expire, Hget, Look, Finish, ReleaseGet
<1>2. ASSUME NEW c \in Procs, Hsetnx(c) PROVE TypeOK'
  BY <1>2, MineType DEF Hsetnx, ClaimField
<1>3. ASSUME NEW c \in Procs, Evict(c) \/ ReleaseDel(c) PROVE TypeOK'
  BY <1>3 DEF Evict, ReleaseDel, Drop
<1>4. ASSUME NEW c \in Procs, ClaimFails(c) PROVE TypeOK'
  <2>1. faults' \in [redis : Nat, crashes : Nat, gap : BOOLEAN]
    BY <1>4, FaultsType DEF ClaimFails
  <2>2. entry' \in Claim \cup {Nothing} /\ ttl' \in BOOLEAN
    <3>1. entry' \in {entry, Mine(c), Nothing}
      BY <1>4 DEF ClaimFails, Drop
    <3>2. ttl' \in {ttl, FALSE}
      BY <1>4 DEF ClaimFails, Drop
    <3>3. entry' \in Claim \cup {Nothing}
      BY <3>1, MineType
    <3>4. ttl' \in BOOLEAN
      BY <3>2
    <3> QED
      BY <3>3, <3>4
  <2>3. pc' \in [Procs -> Steps]
    BY <1>4 DEF ClaimFails
  <2> QED
    BY <2>1, <2>2, <2>3
<1>5. ASSUME NEW c \in Procs, ReleaseFails(c) \/ Crash(c) PROVE TypeOK'
  <2>1. faults' \in [redis : Nat, crashes : Nat, gap : BOOLEAN]
    BY <1>5, FaultsType DEF ReleaseFails, Crash
  <2>2. entry' \in Claim \cup {Nothing} /\ ttl' \in BOOLEAN
    BY <1>5 DEF ReleaseFails, Crash, Drop
  <2>3. pc' \in [Procs -> Steps]
    BY <1>5 DEF ReleaseFails, Crash
  <2> QED
    BY <2>1, <2>2, <2>3
<1>6. ASSUME Tick PROVE TypeOK'
  BY <1>6 DEF Tick, Claim
<1>7. ASSUME UNCHANGED vars PROVE TypeOK'
  BY <1>7 DEF vars
<1> QED
  BY <1>1, <1>2, <1>3, <1>4, <1>5, <1>6, <1>7 DEF Next, Advance

-----------------------------------------------------------------------------
(* Accounts *)

LEMMA InitInv == Init => IInv
<1> SUFFICES ASSUME Init PROVE IInv
  OBVIOUS
<1>1. Uncovered = {}
  BY DEF Init, Uncovered, Active
<1>2. Accounted
  BY <1>1, FS_EmptySet DEF Accounted, Init
<1> QED
  BY <1>2, InitType DEF IInv, Fresh, Init

LEMMA NextInv == IInv /\ [Next]_vars => IInv'
<1> SUFFICES ASSUME IInv, [Next]_vars PROVE IInv'
  OBVIOUS
<1>1. TypeOK /\ TypeOK'
  BY NextType DEF IInv
<1> SUFFICES ASSUME ~faults'.gap PROVE Fresh' /\ Accounted'
  BY <1>1 DEF IInv
<1>2. ~faults.gap
  <2>1. CASE Tick
    BY <2>1, <1>1 DEF Tick, TypeOK
  <2>2. ASSUME NEW c \in Procs,
               Start(c) \/ Advance(c) \/ ClaimFails(c) \/ ReleaseFails(c) \/ Crash(c)
        PROVE  faults'.gap = faults.gap
    BY <2>2, <1>1 DEF TypeOK, Start, Advance, Hsetnx, Expire, Hget, Evict, Look, Finish,
                      ReleaseGet, ReleaseDel, ClaimFails, ReleaseFails, Crash
  <2> QED
    BY <2>1, <2>2 DEF Next, vars
<1>3. Fresh /\ Accounted /\ faults.redis \in Nat
  BY <1>1, <1>2 DEF IInv, TypeOK
<1> USE DEF TypeOK, Goto, Steps, Active
\* Steps that leave the claim alone and bring nobody to it.
<1>4. ASSUME NEW c \in Procs, Start(c) \/ Expire(c) \/ Hget(c) \/ Look(c) \/ Finish(c)
                              \/ ReleaseGet(c) \/ Crash(c)
      PROVE  Fresh' /\ Accounted'
  <2>1. UNCHANGED entry /\ faults'.redis = faults.redis
    BY <1>4, <1>1 DEF Start, Expire, Hget, Look, Finish, ReleaseGet, Crash
  <2>2. \A d \in Procs : pc'[d] \in Active => pc[d] \in Active
    BY <1>1, <1>4 DEF Start, Expire, Hget, Look, Finish, ReleaseGet, Crash
  <2>3. Uncovered' \in SUBSET Uncovered
    BY <2>1, <2>2 DEF Uncovered, Holds
  <2>4. Accounted'
    BY <1>3, <2>1, <2>3, Fewer DEF Accounted
  <2>5. Fresh'
    BY <1>1, <1>3, <1>4 DEF Fresh, Stale, Start, Expire, Hget, Look, Finish, ReleaseGet, Crash
  <2> QED
    BY <2>4, <2>5
<1>5. ASSUME NEW c \in Procs, Hsetnx(c) PROVE Fresh' /\ Accounted'
  <2>1. faults' = faults /\ Fresh'
    BY <1>1, <1>3, <1>5, MineType DEF Fresh, Hsetnx, ClaimField, Mine
  <2>2. Uncovered' \in SUBSET Uncovered
    BY <1>1, <1>5, MineType DEF Uncovered, Holds, Hsetnx, ClaimField, Mine
  <2> QED
    BY <1>3, <2>1, <2>2, Fewer DEF Accounted
<1>6. ASSUME NEW c \in Procs, Evict(c) PROVE Fresh' /\ Accounted'
  BY <1>3, <1>6 DEF Fresh, Evict
\* Its own claim goes with the command, another's leaves its holder in its place.
<1>7. ASSUME NEW c \in Procs, pc[c] = "reldel", Drop, pc' = [pc EXCEPT ![c] = "idle"],
             faults'.redis \in Nat, faults'.redis >= faults.redis
      PROVE  Fresh' /\ Accounted'
  <2>1. Fresh'
    BY <1>1, <1>3, <1>7 DEF Fresh, Drop
  <2>2. CASE entry = Nothing \/ entry.of = c
    <3>1. Uncovered' \in SUBSET Uncovered
      BY <1>1, <1>7, <2>2 DEF Uncovered, Holds, Drop
    <3> QED
      BY <1>3, <1>7, <2>1, <3>1, Fewer, FS_CardinalityType DEF Accounted
  <2>3. CASE entry # Nothing /\ entry.of # c
    <3>1. c \in Uncovered
      BY <1>7, <2>3 DEF Uncovered, Holds
    <3>2. Uncovered' \in SUBSET ((Uncovered \ {c}) \cup {entry.of})
      BY <1>1, <1>7, <2>3 DEF Uncovered, Holds, Drop
    <3>3. IsFiniteSet(Uncovered') /\ Cardinality(Uncovered') <= faults.redis
      BY <1>3, <3>1, <3>2, Exchange DEF Accounted
    <3> QED
      BY <1>3, <1>7, <2>1, <3>3, FS_CardinalityType DEF Accounted
  <2> QED
    BY <2>2, <2>3
<1>8. ASSUME NEW c \in Procs, ReleaseDel(c) PROVE Fresh' /\ Accounted'
  <2>1. pc[c] = "reldel" /\ Drop /\ pc' = [pc EXCEPT ![c] = "idle"]
    BY <1>8 DEF ReleaseDel
  <2>2. faults'.redis \in Nat /\ faults'.redis >= faults.redis
    BY <1>3, <1>8 DEF ReleaseDel
  <2> QED
    BY <1>7, <2>1, <2>2
<1>9. ASSUME NEW c \in Procs, ClaimFails(c) PROVE Fresh' /\ Accounted'
  <2>1. faults'.redis = faults.redis + 1
    BY <1>1, <1>9 DEF ClaimFails
  <2>2. Fresh'
    BY <1>1, <1>3, <1>9, MineType DEF Fresh, ClaimFails, Mine
  <2>3. Uncovered' \in SUBSET (Uncovered \cup {c})
    BY <1>1, <1>3, <1>9, MineType DEF Fresh, Uncovered, Holds, ClaimFails, Mine
  <2> QED
    BY <1>3, <2>1, <2>2, <2>3, OneMore DEF Accounted
<1>10. ASSUME NEW c \in Procs, ReleaseFails(c) PROVE Fresh' /\ Accounted'
  <2>1. faults'.redis \in Nat /\ faults'.redis >= faults.redis
    BY <1>1, <1>3, <1>10 DEF ReleaseFails
  <2>2. CASE pc[c] = "reldel" /\ Drop
    BY <1>7, <1>10, <2>1, <2>2 DEF ReleaseFails
  <2>3. CASE UNCHANGED entry
    <3>1. Uncovered' \in SUBSET Uncovered
      BY <1>1, <1>10, <2>3 DEF Uncovered, Holds, ReleaseFails
    <3>2. Fresh'
      BY <1>1, <1>3, <1>10, <2>3 DEF Fresh, ReleaseFails
    <3> QED
      BY <1>3, <2>1, <3>1, <3>2, Fewer, FS_CardinalityType DEF Accounted
  <2> QED
    BY <1>10, <2>2, <2>3 DEF ReleaseFails
<1>11. ASSUME Tick PROVE Fresh' /\ Accounted'
  BY <1>1, <1>11 DEF Tick
<1>12. ASSUME UNCHANGED vars PROVE Fresh' /\ Accounted'
  BY <1>3, <1>12 DEF vars, Fresh, Accounted, Uncovered, Holds
<1> QED
  BY <1>4, <1>5, <1>6, <1>8, <1>9, <1>10, <1>11, <1>12 DEF Next, Advance

\* Claims, commands and the fault count keep their types.
THEOREM TypeCorrect == Spec => []TypeOK
BY InitType, NextType, PTL DEF Spec

\* Within the TTL at most one command more than Redis calls have failed does the
\* work: claimWork and releaseWork, for any number of commands, dead holders and
\* releases that read and delete in two calls.
THEOREM OneWinnerAtATime == Spec => []OneWinner
<1>1. IInv => OneWinner
  <2> SUFFICES ASSUME IInv, ~faults.gap PROVE Cardinality(Workers) <= 1 + faults.redis
    BY DEF OneWinner
  <2>1. IsFiniteSet(Uncovered) /\ Cardinality(Uncovered) <= faults.redis /\ faults.redis \in Nat
    BY DEF IInv, Accounted, TypeOK
  <2>2. Workers \in SUBSET (Uncovered \cup {entry.of})
    BY DEF Workers, Uncovered, Holds, Active
  <2>3. Cardinality(Workers) <= faults.redis + 1
    BY <2>1, <2>2, OneMore
  <2> QED
    BY <2>1, <2>3
<1> QED
  BY <1>1, InitInv, NextInv, PTL DEF Spec

-----------------------------------------------------------------------------
(* Routing claims: verdicts and rounds. *)

USE DEF agentVars

\* A pass that is not idle has its row, and the round it copied is past or present.
Copied ==
    \A s \in Sweeps : sweep[s].pc # "idle" =>
        /\ claim # NoRow
        /\ sweep[s].pc \in {"check", "lagging"} => sweep[s].at \in 1 .. claim.cursor

\* One pass at a time is at work on the row, under its lease and in its round.
OneAtWork ==
    \A s \in AtWork :
        /\ Pending /\ lease = "live"
        /\ sweep[s].at = claim.cursor
        /\ AtWork = {s}

\* No round was advanced to twice, or before its time; a row that was reaped is
\* not elected again.
Advanced ==
    /\ \A k \in Round : rounds[k] <= 1
    /\ claim # NoRow => \A k \in Round : k > claim.cursor => rounds[k] = 0
    /\ claim = NoRow => \/ \A k \in Round : rounds[k] = 0
                        \/ \A h \in Handlers : handler[h] = "done"

Exclusive == mishaps.overruns = 0 => OneAtWork /\ Advanced

-----------------------------------------------------------------------------
(* Rooms and lineups *)

\* Whoever the message is for, or is in a run, is in the room.
LEMMA RoomMembers == Recipients \subseteq Room /\ MidTurn \subseteq Room
  BY RoutingAssumption DEF Recipients

\* A room is finite, and no larger than its order is long.
LEMMA RoomSize ==
    /\ IsFiniteSet(Recipients) /\ Recipients \subseteq Room
    /\ Cardinality(Recipients) \in Nat /\ Len(Order) \in Nat
    /\ Cardinality(Recipients) <= Len(Order)
<1>1. Order \in Seq(Room) /\ Len(Order) \in Nat /\ DOMAIN Order = 1 .. Len(Order)
  BY RoutingAssumption
<1>2. IsFiniteSet(1 .. Len(Order)) /\ Cardinality(1 .. Len(Order)) = Len(Order)
  <2>1. PICK n \in Nat : n = Len(Order)
    BY <1>1
  <2>2. \A a, b \in Int : /\ IsFiniteSet(a .. b)
                          /\ Cardinality(a .. b) = IF a > b THEN 0 ELSE b - a + 1
    BY FS_Interval, Zenon
  <2>3. /\ IsFiniteSet(1 .. n)
        /\ Cardinality(1 .. n) = IF 1 > n THEN 0 ELSE n - 1 + 1
    BY <2>2
  <2> QED
    BY <2>1, <2>3
<1>3. Order \in Surjection(1 .. Len(Order), Room)
  BY <1>1 DEF Surjection, Room, ToSet
<1>4. IsFiniteSet(Room) /\ Cardinality(Room) <= Len(Order)
  BY <1>2, <1>3, FS_Surjection
<1>5. Recipients \in SUBSET Room
  BY DEF Recipients
<1> QED
  BY <1>1, <1>4, <1>5, FS_Subset, FS_CardinalityType

\* A lineup is a sequence of recipients, one place for each.
LEMMA LineupType ==
    ASSUME NEW lineup \in SetToSeqs(Recipients)
    PROVE  /\ lineup \in Seq(Recipients) /\ Len(lineup) = Cardinality(Recipients)
           /\ \A k \in 1 .. Cardinality(Recipients) : lineup[k] \in Room
           /\ ToSet(lineup) \in SUBSET Room
<1>1. lineup \in [1 .. Cardinality(Recipients) -> Recipients]
  BY DEF SetToSeqs
<1>2. Cardinality(Recipients) \in Nat /\ Recipients \subseteq Room
  BY RoomSize
<1>3. lineup \in Seq(Recipients) /\ Len(lineup) = Cardinality(Recipients)
  BY <1>1, <1>2
<1> QED
  BY <1>1, <1>2, <1>3 DEF ToSet

\* What is known of the row.
LEMMA RowFacts ==
    ASSUME ClaimsTypeOK, claim # NoRow
    PROVE  /\ claim \in ClaimRow
           /\ claim.cursor \in 1 .. Cardinality(Recipients) /\ claim.cursor \in Round
           /\ Len(claim.lineup) = Cardinality(Recipients)
           /\ claim.lineup \in SetToSeqs(Recipients)
           /\ \A k \in 1 .. Cardinality(Recipients) : claim.lineup[k] \in Room
           /\ ToSet(claim.lineup) \in SUBSET Room
<1>1. claim \in ClaimRow
  BY DEF ClaimsTypeOK
<1>2. claim.lineup \in SetToSeqs(Recipients) /\ claim.cursor \in 1 .. Cardinality(Recipients)
  BY <1>1 DEF ClaimRow
<1>3. claim.cursor \in Round
  BY <1>2, RoomSize DEF Round
<1> QED
  BY <1>1, <1>2, <1>3, LineupType

\* A new row, or one with another status or the next cursor, is a row.
LEMMA RowUpdates ==
    /\ \A lineup \in SetToSeqs(Recipients) :
         Recipients # {} =>
           [status |-> "pending", lineup |-> lineup, cursor |-> 1] \in ClaimRow
    /\ \A row \in ClaimRow : \A st \in Status : [row EXCEPT !.status = st] \in ClaimRow
    /\ \A row \in ClaimRow : \A k \in 1 .. Cardinality(Recipients) :
         [row EXCEPT !.cursor = k] \in ClaimRow
    /\ NoRow \notin ClaimRow
<1>1. Recipients # {} => 1 \in 1 .. Cardinality(Recipients)
  BY RoomSize, FS_EmptySet
<1>2. NoRow \notin ClaimRow
  BY RoutingAssumption
<1> QED
  BY <1>1, <1>2 DEF ClaimRow, Status

\* What the election writes.
LEMMA ElectedRow ==
    ASSUME NEW h \in Handlers, Elect(h), claim = NoRow
    PROVE  \E lineup \in SetToSeqs(Recipients) :
             /\ claim' = [status |-> "pending", lineup |-> lineup, cursor |-> 1]
             /\ StartWaking(h, {Head(lineup)})
             /\ claim' \in ClaimRow /\ Head(lineup) \in Room
<1>1. PICK proposal \in Room \cup {NoProposal}, busy \in SUBSET Recipients :
        \E lineup \in ElectLineup(proposal, busy) :
          /\ claim' = [status |-> "pending", lineup |-> lineup, cursor |-> 1]
          /\ StartWaking(h, {Head(lineup)})
  BY DEF Elect
<1>2. PICK lineup \in SetToSeqs(Recipients) :
          /\ claim' = [status |-> "pending", lineup |-> lineup, cursor |-> 1]
          /\ StartWaking(h, {Head(lineup)})
  BY <1>1 DEF ElectLineup
<1>3. Recipients # {}
  BY DEF Elect
<1>4. claim' \in ClaimRow
  BY <1>2, <1>3, RowUpdates
<1>5. 1 \in 1 .. Cardinality(Recipients)
  BY <1>3, RoomSize, FS_EmptySet
<1>6. Head(lineup) = lineup[1] /\ lineup[1] \in Room
  BY <1>5, LineupType
<1> QED
  BY <1>2, <1>4, <1>6

-----------------------------------------------------------------------------
(* Types *)

Mishaps == [faults : Nat, overruns : Nat, lost : SUBSET Room]

\* Counting a fault, and what it loses.
LEMMA MishapCounted ==
    ASSUME NEW m \in Mishaps, NEW b \in SUBSET Room
    PROVE  [m EXCEPT !.faults = @ + 1, !.lost = b] \in Mishaps
<1> DEFINE n == [m EXCEPT !.faults = @ + 1]
<1>1. n \in Mishaps
  BY DEF Mishaps
<1>2. [n EXCEPT !.lost = b] \in Mishaps
  <2> HIDE DEF n
  <2> QED
    BY <1>1 DEF Mishaps
<1>3. [m EXCEPT !.faults = @ + 1, !.lost = b] = [n EXCEPT !.lost = b]
  BY DEF Mishaps
<1> QED
  BY <1>2, <1>3

LEMMA ClaimsInitType == ClaimsInit => ClaimsTypeOK
<1> SUFFICES ASSUME ClaimsInit PROVE ClaimsTypeOK
  OBVIOUS
<1>1. 0 \in Round
  BY RoomSize DEF Round
<1>2. mishaps \in [faults : Nat, overruns : Nat, lost : SUBSET Room]
  BY DEF ClaimsInit
<1>3. sweep \in [Sweeps -> [pc : {"idle", "check", "lagging", "waking"}, at : Round]]
  BY <1>1 DEF ClaimsInit
<1>4. turn \in [Room -> Round] /\ rounds \in [Round -> 0 .. 2]
  BY <1>1 DEF ClaimsInit
<1>5. wakeKey \in BOOLEAN /\ {passed, called} \subseteq SUBSET Room
  BY DEF ClaimsInit
<1> QED
  BY <1>2, <1>3, <1>4, <1>5 DEF ClaimsInit, ClaimsTypeOK

\* The steps of a handler.
LEMMA HandlerType ==
    ASSUME ClaimsTypeOK, NEW h \in Handlers,
           Hear(h) \/ FanOut(h) \/ Elect(h) \/ HandlerDone(h) \/ HandlerFails(h)
    PROVE  ClaimsTypeOK'
<1> USE DEF ClaimsTypeOK
<1>1. h \in Wakers /\ Recipients \in SUBSET Room
  BY RoomSize DEF Wakers
<1>2. CASE Hear(h) \/ FanOut(h) \/ HandlerDone(h)
  BY <1>1, <1>2 DEF Hear, FanOut, HandlerDone, StartWaking
<1>3. CASE Elect(h)
  <2>1. CASE claim = NoRow
    <3>1. PICK lineup \in SetToSeqs(Recipients) :
             /\ claim' = [status |-> "pending", lineup |-> lineup, cursor |-> 1]
             /\ StartWaking(h, {Head(lineup)})
             /\ claim' \in ClaimRow /\ Head(lineup) \in Room
      BY <1>3, <2>1, ElectedRow
    <3> QED
      BY <1>1, <1>3, <2>1, <3>1 DEF Elect, StartWaking
  <2>2. CASE claim # NoRow
    <3>1. Pending => claim.lineup[claim.cursor] \in Room
      BY <2>2, RowFacts
    <3> QED
      BY <1>1, <1>3, <2>2, <3>1 DEF Elect, StartWaking
  <2> QED
    BY <2>1, <2>2
<1>4. CASE HandlerFails(h)
  <2>1. (IF Pending THEN mishaps.lost ELSE mishaps.lost \cup Unserved(h)) \in SUBSET Room
    BY <1>1 DEF Unserved
  <2>2. mishaps' \in Mishaps
    BY <1>4, <2>1, MishapCounted DEF HandlerFails, Mishaps
  <2> QED
    BY <1>1, <1>4, <2>2 DEF HandlerFails, Mishaps
<1> QED
  BY <1>2, <1>3, <1>4

\* The steps of a pass.
LEMMA SweepType ==
    ASSUME ClaimsTypeOK, Copied, NEW s \in Sweeps,
           Take(s) \/ Serve(s) \/ Lagging(s) \/ LaggingFails(s) \/ Exhaust(s) \/ Move(s)
             \/ PassDone(s) \/ PassFails(s)
    PROVE  ClaimsTypeOK'
<1> USE DEF ClaimsTypeOK, PassGoes
<1>1. s \in Wakers /\ 0 \in Round
  BY RoomSize DEF Wakers, Round
<1>2. CASE Take(s)
  BY <1>2, RowFacts DEF Take, Pending, Renewed
<1>3. CASE Serve(s)
  <2>1. claim # NoRow
    BY <1>3 DEF Serve, Copied
  <2>2. claim' \in ClaimRow
    BY <1>3, <2>1, RowFacts, RowUpdates DEF Serve, Status
  <2> QED
    BY <1>3, <2>2 DEF Serve
<1>4. CASE Lagging(s)
  <2>1. wakes' \in [Wakers -> SUBSET Room]
    BY <1>1, <1>4, RoomSize DEF Lagging
  <2> QED
    BY <1>4, <2>1 DEF Lagging
<1>5. CASE LaggingFails(s)
  <2>1. mishaps.lost \cup ToWake(s) \in SUBSET Room
    BY <1>1, RoomSize DEF ToWake
  <2>2. mishaps' \in Mishaps
    BY <1>5, <2>1, MishapCounted DEF LaggingFails, Mishaps
  <2> QED
    BY <1>5, <2>2 DEF LaggingFails, Mishaps
<1>6. CASE Exhaust(s)
  <2>1. claim # NoRow
    BY <1>6 DEF Exhaust, Copied
  <2>2. claim' \in ClaimRow
    BY <1>6, <2>1, RowFacts, RowUpdates DEF Exhaust, Status
  <2>3. wakes' \in [Wakers -> SUBSET Room]
    BY <1>1, <1>6, <2>1, RowFacts DEF Exhaust, Fallback
  <2> QED
    BY <1>6, <2>2, <2>3 DEF Exhaust
<1>7. CASE Move(s)
  <2>1. claim # NoRow /\ sweep[s].at \in 1 .. claim.cursor
    BY <1>7 DEF Move, Copied
  <2>2. sweep[s].at + 1 \in 1 .. Cardinality(Recipients)
    BY <1>7, <2>1, RowFacts, RoomSize DEF Move, LastRound
  <2>3. claim' \in ClaimRow /\ lease' \in {"live", "over"}
    BY <1>7, <2>1, <2>2, RowFacts, RowUpdates DEF Move
  <2>4. wakes' \in [Wakers -> SUBSET Room]
    BY <1>1, <1>7, <2>1, <2>2, RowFacts DEF Move
  <2>5. sweep[s].at + 1 \in Round
    BY <2>2, RoomSize DEF Round
  <2>6. (IF rounds[sweep[s].at + 1] = 2 THEN 2 ELSE rounds[sweep[s].at + 1] + 1) \in 0 .. 2
    BY <2>5
  <2>7. rounds' \in [Round -> 0 .. 2]
    BY <1>7, <2>6 DEF Move
  <2> QED
    BY <1>7, <2>3, <2>4, <2>7 DEF Move
<1>8. CASE PassDone(s)
  BY <1>1, <1>8 DEF PassDone
<1>9. CASE PassFails(s)
  <2>1. (IF Pending THEN mishaps.lost ELSE mishaps.lost \cup ToWake(s)) \in SUBSET Room
    BY <1>1, RoomSize DEF ToWake
  <2>2. mishaps' \in Mishaps
    BY <1>9, <2>1, MishapCounted DEF PassFails, Mishaps
  <2> QED
    BY <1>1, <1>9, <2>2 DEF PassFails, Mishaps
<1> QED
  BY <1>2, <1>3, <1>4, <1>5, <1>6, <1>7, <1>8, <1>9

LEMMA OtherType ==
    ASSUME ClaimsTypeOK
    PROVE  /\ \A p \in Wakers : Wake(p) => ClaimsTypeOK'
           /\ KeyLapses \/ LeaseLapses \/ Reap => ClaimsTypeOK'
           /\ \A a \in Recipients : TurnStarts(a) => ClaimsTypeOK'
           /\ \A a \in MidTurn : PassesBy(a) => ClaimsTypeOK'
           /\ UNCHANGED claimVars => ClaimsTypeOK'
<1> USE DEF ClaimsTypeOK
<1>1. ASSUME NEW p \in Wakers, Wake(p) PROVE ClaimsTypeOK'
  BY <1>1 DEF Wake
<1>2. ASSUME LeaseLapses PROVE ClaimsTypeOK'
  <2>1. mishaps' \in [faults : Nat, overruns : Nat, lost : SUBSET Room]
    BY <1>2 DEF LeaseLapses
  <2> QED
    BY <1>2, <2>1 DEF LeaseLapses
<1>3. ASSUME KeyLapses \/ Reap PROVE ClaimsTypeOK'
  BY <1>3 DEF KeyLapses, Reap
<1>4. ASSUME NEW a \in Recipients, TurnStarts(a) PROVE ClaimsTypeOK'
  BY <1>4, RowFacts, RoomSize DEF TurnStarts
<1>5. ASSUME UNCHANGED claimVars PROVE ClaimsTypeOK'
  BY <1>5 DEF claimVars
<1>6. ASSUME NEW a \in MidTurn, PassesBy(a) PROVE ClaimsTypeOK'
  BY <1>6, RoutingAssumption DEF PassesBy
<1> QED
  BY <1>1, <1>2, <1>3, <1>4, <1>5, <1>6

-----------------------------------------------------------------------------
(* Copies of the row *)

LEMMA CopiedStep ==
    ASSUME ClaimsTypeOK, Copied, [ClaimsNext]_claimVars
    PROVE  Copied'
<1> USE DEF Copied
\* Whoever leaves passes and row alone, or the row with its cursor or a later one.
<1>1. ASSUME UNCHANGED sweep, claim' # NoRow \/ claim' = claim,
             claim # NoRow => claim' # NoRow /\ claim'.cursor = claim.cursor
      PROVE  Copied'
  BY <1>1
<1>2. ASSUME NEW h \in Handlers,
             Hear(h) \/ FanOut(h) \/ HandlerDone(h) \/ Wake(h) \/ HandlerFails(h)
      PROVE  Copied'
  BY <1>1, <1>2 DEF Hear, FanOut, HandlerDone, Wake, HandlerFails
<1>3. ASSUME NEW h \in Handlers, Elect(h) PROVE Copied'
  <2>1. CASE claim # NoRow
    BY <1>1, <1>3, <2>1 DEF Elect
  <2>2. CASE claim = NoRow
    BY <1>3, <2>2 DEF Elect
  <2> QED
    BY <2>1, <2>2
<1>4. ASSUME NEW s \in Sweeps, Take(s) PROVE Copied'
  <2>1. claim # NoRow /\ UNCHANGED claim
    BY <1>4 DEF Take, Pending
  <2>2. claim.cursor \in 1 .. claim.cursor
    BY <2>1, RowFacts, RoomSize
  <2> QED
    BY <1>4, <2>1, <2>2 DEF Take, ClaimsTypeOK
<1>5. ASSUME NEW s \in Sweeps, Serve(s) \/ Exhaust(s) PROVE Copied'
  <2>1. claim # NoRow
    BY <1>5 DEF Serve, Exhaust
  <2>2. claim' # NoRow /\ claim'.cursor = claim.cursor
    BY <1>5, <2>1, RowFacts, RowUpdates DEF Serve, Exhaust, Status, ClaimRow
  <2>3. \A t \in Sweeps : sweep'[t].at = sweep[t].at
                         /\ (sweep'[t].pc # "idle" => sweep[t].pc # "idle")
                         /\ (sweep'[t].pc \in {"check", "lagging"} =>
                              sweep[t].pc \in {"check", "lagging"})
    BY <1>5 DEF Serve, Exhaust, PassGoes, ClaimsTypeOK
  <2> QED
    BY <2>1, <2>2, <2>3
<1>6. ASSUME NEW s \in Sweeps, Lagging(s) \/ LaggingFails(s) \/ PassDone(s) \/ PassFails(s) \/ Wake(s)
      PROVE  Copied'
  BY <1>6 DEF Lagging, LaggingFails, PassDone, PassFails, Wake, PassGoes, ClaimsTypeOK
<1>7. ASSUME NEW s \in Sweeps, Move(s) PROVE Copied'
  <2>1. claim # NoRow /\ sweep[s].at \in 1 .. claim.cursor
    BY <1>7 DEF Move
  <2>2. sweep[s].at + 1 \in 1 .. Cardinality(Recipients)
    BY <1>7, <2>1, RowFacts, RoomSize DEF Move, LastRound
  <2>3. claim' # NoRow /\ claim'.cursor \in Int /\ claim'.cursor >= claim.cursor
    BY <1>7, <2>1, <2>2, RowFacts, RowUpdates, RoomSize DEF Move, ClaimRow
  <2>4. \A t \in Sweeps : sweep'[t].at = sweep[t].at
                         /\ (sweep'[t].pc # "idle" => sweep[t].pc # "idle")
                         /\ (sweep'[t].pc \in {"check", "lagging"} =>
                              sweep[t].pc \in {"check", "lagging"})
    BY <1>7 DEF Move, PassGoes, ClaimsTypeOK
  <2>5. \A k \in 1 .. claim.cursor : k \in 1 .. claim'.cursor
    BY <2>1, <2>3, RowFacts, RoomSize
  <2> QED
    BY <2>1, <2>3, <2>4, <2>5
<1>8. ASSUME NEW a \in Room, TurnStarts(a) \/ PassesBy(a) PROVE Copied'
  BY <1>1, <1>8 DEF TurnStarts, PassesBy
<1>9. ASSUME KeyLapses \/ LeaseLapses PROVE Copied'
  BY <1>1, <1>9 DEF KeyLapses, LeaseLapses
<1>10. ASSUME Reap PROVE Copied'
  BY <1>10 DEF Reap
<1>11. ASSUME UNCHANGED claimVars PROVE Copied'
  BY <1>11 DEF claimVars
<1> QED
  BY <1>2, <1>3, <1>4, <1>5, <1>6, <1>7, <1>8, <1>9, <1>10, <1>11, RoomMembers
     DEF ClaimsNext, HandlerSteps, SweepSteps

\* Types and copies together are inductive.
LEMMA ClaimsNextType ==
    ASSUME ClaimsTypeOK, Copied, [ClaimsNext]_claimVars
    PROVE  ClaimsTypeOK' /\ Copied'
<1>1. Copied'
  BY CopiedStep
<1>2. Handlers \subseteq Wakers /\ Sweeps \subseteq Wakers
  BY DEF Wakers
<1>3. ASSUME NEW h \in Handlers, Hear(h) \/ HandlerSteps(h) \/ HandlerFails(h)
      PROVE  ClaimsTypeOK'
  BY <1>2, <1>3, HandlerType, OtherType DEF HandlerSteps
<1>4. ASSUME NEW s \in Sweeps, Take(s) \/ SweepSteps(s) \/ LaggingFails(s) \/ PassFails(s)
      PROVE  ClaimsTypeOK'
  BY <1>2, <1>4, SweepType, OtherType DEF SweepSteps
<1> QED
  BY <1>1, <1>3, <1>4, OtherType DEF ClaimsNext

\* The row, the deliveries, the passes and their copies keep their types, for any
\* room and any number of deliveries and passes.
THEOREM ClaimsTypeCorrect == ClaimsSpec => []ClaimsTypeOK
<1>1. ClaimsInit => ClaimsTypeOK /\ Copied
  BY ClaimsInitType DEF ClaimsInit, Copied
<1>2. ClaimsTypeOK /\ Copied /\ [ClaimsNext]_claimVars => (ClaimsTypeOK /\ Copied)'
  BY ClaimsNextType
<1> QED
  BY <1>1, <1>2, PTL DEF ClaimsSpec

-----------------------------------------------------------------------------
(* Verdicts *)

\* A verdict stands while the lineup stays, turns and cursor do not go back, and
\* the status does not change.
LEMMA VerdictStands ==
    ASSUME ClaimsTypeOK, ClaimsTypeOK', VerdictHonest, claim # NoRow,
           claim' # NoRow, claim'.lineup = claim.lineup, claim'.status = claim.status,
           claim'.cursor >= claim.cursor, \A a \in Room : turn'[a] >= turn[a],
           claim.status = "exhausted" => claim'.cursor = claim.cursor
    PROVE  VerdictHonest'
<1>1. Cardinality(Recipients) \in Nat /\ claim.cursor \in 1 .. Cardinality(Recipients)
      /\ claim'.cursor \in 1 .. Cardinality(Recipients)
  BY RowFacts, RoomSize DEF ClaimsTypeOK, ClaimRow
<1>2. CASE claim.status = "served"
  <2>1. PICK k \in 1 .. claim.cursor : turn[claim.lineup[k]] >= k
    BY <1>2 DEF VerdictHonest
  <2>2. k \in 1 .. claim'.cursor /\ claim.lineup[k] \in Room
    BY <1>1, RowFacts
  <2>3. turn[claim.lineup[k]] \in Int /\ turn'[claim.lineup[k]] \in Int
    BY <2>2, RoomSize DEF ClaimsTypeOK, Round
  <2>4. turn'[claim.lineup[k]] >= k
    BY <2>1, <2>2, <2>3
  <2> QED
    BY <1>2, <2>2, <2>4 DEF VerdictHonest
<1>3. CASE claim.status # "served"
  BY <1>3 DEF VerdictHonest
<1> QED
  BY <1>2, <1>3

LEMMA VerdictStep ==
    ASSUME ClaimsTypeOK, Copied, VerdictHonest, [ClaimsNext]_claimVars
    PROVE  VerdictHonest'
<1>0. ClaimsTypeOK'
  BY ClaimsNextType
<1>1. \A a \in Room : turn[a] \in Int /\ turn[a] >= turn[a]
  BY RoomSize DEF ClaimsTypeOK, Round
<1>2. ASSUME UNCHANGED <<claim, turn>> PROVE VerdictHonest'
  BY <1>2 DEF VerdictHonest
<1>3. ASSUME NEW h \in Handlers, Elect(h) PROVE VerdictHonest'
  <2>1. CASE claim # NoRow
    BY <1>2, <1>3, <2>1 DEF Elect
  <2>2. CASE claim = NoRow
    <3>1. PICK lineup \in SetToSeqs(Recipients) :
             claim' = [status |-> "pending", lineup |-> lineup, cursor |-> 1]
      BY <1>3, <2>2, ElectedRow
    <3>2. claim'.status = "pending"
      BY <3>1
    <3> QED
      BY <3>2 DEF VerdictHonest
  <2> QED
    BY <2>1, <2>2
\* The witness of a served claim is the candidate the pass looked at.
<1>4. ASSUME NEW s \in Sweeps, Serve(s) PROVE VerdictHonest'
  <2>1. claim # NoRow /\ sweep[s].at \in 1 .. claim.cursor
    BY <1>4 DEF Serve, Copied
  <2>2. /\ claim'.status = "served" /\ claim'.cursor = claim.cursor
        /\ claim'.lineup = claim.lineup /\ turn' = turn
    BY <1>4, <2>1, RowFacts DEF Serve, ClaimRow
  <2>3. turn[claim.lineup[sweep[s].at]] >= sweep[s].at
    BY <1>4 DEF Serve, HasRunSince
  <2> QED
    BY <2>1, <2>2, <2>3 DEF VerdictHonest
\* A copy of the last round is not old.
<1>5. ASSUME NEW s \in Sweeps, Exhaust(s) PROVE VerdictHonest'
  <2>1. claim # NoRow /\ sweep[s].at \in 1 .. claim.cursor
    BY <1>5 DEF Exhaust, Copied
  <2>2. /\ claim'.status = "exhausted" /\ claim'.cursor = claim.cursor
        /\ claim'.lineup = claim.lineup
    BY <1>5, <2>1, RowFacts DEF Exhaust, ClaimRow
  <2>3. claim.cursor = Len(claim.lineup)
    BY <1>5, <2>1, RowFacts, RoomSize DEF Exhaust, LastRound
  <2> QED
    BY <2>2, <2>3 DEF VerdictHonest
<1>6. ASSUME NEW s \in Sweeps, Move(s) PROVE VerdictHonest'
  <2>1. claim # NoRow /\ sweep[s].at \in 1 .. claim.cursor /\ turn' = turn
    BY <1>6 DEF Move, Copied
  <2>2. sweep[s].at + 1 \in 1 .. Cardinality(Recipients)
    BY <1>6, <2>1, RowFacts, RoomSize DEF Move, LastRound
  <2>3. CASE claim.cursor # sweep[s].at
    BY <1>2, <1>6, <2>1, <2>3 DEF Move
  <2>4. CASE claim.cursor = sweep[s].at
    <3>1. claim' = [claim EXCEPT !.cursor = sweep[s].at + 1]
      BY <1>6, <2>4 DEF Move
    <3>2. claim' # NoRow /\ claim'.lineup = claim.lineup /\ claim'.status = claim.status
          /\ claim'.cursor >= claim.cursor
      BY <2>1, <2>2, <2>4, <3>1, RowFacts, RowUpdates, RoomSize DEF ClaimRow
    <3>3. ASSUME claim.status = "exhausted" PROVE FALSE
      <4>1. claim.cursor = Cardinality(Recipients)
        BY <2>1, <3>3, RowFacts DEF VerdictHonest
      <4> QED
        BY <2>2, <2>4, <4>1, RoomSize
    <3> QED
      BY <1>0, <1>1, <2>1, <3>2, <3>3, VerdictStands
  <2> QED
    BY <2>3, <2>4
<1>7. ASSUME NEW a \in Recipients, TurnStarts(a) PROVE VerdictHonest'
  <2>1. claim # NoRow /\ claim' = claim
    BY <1>7 DEF TurnStarts
  <2>2. \A b \in Room : turn'[b] >= turn[b]
    BY <1>1, <1>7, <2>1, RowFacts, RoomSize DEF TurnStarts, ClaimsTypeOK
  <2>3. claim'.cursor >= claim.cursor
    BY <2>1, RowFacts, RoomSize
  <2> QED
    BY <1>0, <2>1, <2>2, <2>3, VerdictStands
<1>8. ASSUME Reap PROVE VerdictHonest'
  BY <1>8 DEF Reap, VerdictHonest
<1>9. ASSUME NEW h \in Handlers,
             Hear(h) \/ FanOut(h) \/ HandlerDone(h) \/ Wake(h) \/ HandlerFails(h)
      PROVE  VerdictHonest'
  BY <1>2, <1>9 DEF Hear, FanOut, HandlerDone, Wake, HandlerFails
<1>10. ASSUME NEW s \in Sweeps, Take(s) \/ Lagging(s) \/ LaggingFails(s) \/ PassDone(s)
                                \/ PassFails(s) \/ Wake(s)
      PROVE  VerdictHonest'
  BY <1>2, <1>10 DEF Take, Lagging, LaggingFails, PassDone, PassFails, Wake
<1>11. ASSUME KeyLapses \/ LeaseLapses \/ UNCHANGED claimVars PROVE VerdictHonest'
  BY <1>2, <1>11 DEF KeyLapses, LeaseLapses, claimVars
<1>12. ASSUME NEW a \in MidTurn, PassesBy(a) PROVE VerdictHonest'
  BY <1>2, <1>12 DEF PassesBy
<1> QED
  BY <1>3, <1>4, <1>5, <1>6, <1>7, <1>8, <1>9, <1>10, <1>11, <1>12
     DEF ClaimsNext, HandlerSteps, SweepSteps

\* A claim is served only for a candidate who started a turn in its round or later,
\* and exhausted only after the last round, whatever passes overlap on old copies
\* of the row (sweepRoutingClaimsOnce): the copy of a pass is never ahead of the row.
THEOREM VerdictsAreHonest == ClaimsSpec => []VerdictHonest
<1> DEFINE Inv == ClaimsTypeOK /\ Copied /\ VerdictHonest
<1>1. ClaimsInit => Inv
  BY ClaimsInitType DEF ClaimsInit, Copied, VerdictHonest
<1>2. Inv /\ [ClaimsNext]_claimVars => Inv'
  BY ClaimsNextType, VerdictStep
<1>3. Inv => VerdictHonest
  OBVIOUS
<1> QED
  BY <1>1, <1>2, <1>3, PTL DEF ClaimsSpec

-----------------------------------------------------------------------------
(* Who is woken *)

\* Only a handler or a pass in its wakes has any in memory.
WakesInHand ==
    /\ \A h \in Handlers : handler[h] # "waking" => wakes[h] = {}
    /\ \A s \in Sweeps : sweep[s].pc # "waking" => wakes[s] = {}

\* A pass that looks for lagging members left a candidate with a run behind.
RunSeen ==
    \A s \in Sweeps : sweep[s].pc = "lagging" => turn[claim.lineup[sweep[s].at]] > 0

\* The row is written by a delivery.
RowHeard == ~Heard => claim = NoRow

\* Somebody or something still stands for the wake of a, or a does not need it.
InCare(a) ==
    \/ Reached(a) \/ a \in passed \/ a \in mishaps.lost
    \/ Pending
    \/ \E p \in Wakers : a \in wakes[p]
    \/ \E s \in Sweeps : sweep[s].pc = "lagging"

Undecided == claim = NoRow /\ \E h \in Handlers : handler[h] = "heard"

NobodyForgotten == Heard => Undecided \/ \A a \in Recipients : InCare(a)

\* A lineup has everybody: a sequence without repetitions, as long as they are many.
LEMMA LineupComplete ==
    ASSUME NEW lineup \in SetToSeqs(Recipients)
    PROVE  ToSet(lineup) = Recipients
<1> DEFINE n == Cardinality(Recipients)
<1>1. n \in Nat /\ IsFiniteSet(Recipients) /\ IsFiniteSet(1 .. n) /\ Cardinality(1 .. n) = n
  <2>1. PICK m \in Nat : m = n
    BY RoomSize
  <2>2. \A a, b \in Int : /\ IsFiniteSet(a .. b)
                          /\ Cardinality(a .. b) = IF a > b THEN 0 ELSE b - a + 1
    BY FS_Interval, Zenon
  <2>3. /\ IsFiniteSet(1 .. m)
        /\ Cardinality(1 .. m) = IF 1 > m THEN 0 ELSE m - 1 + 1
    BY <2>2
  <2> QED
    BY <2>1, <2>3, RoomSize
<1>2. lineup \in [1 .. n -> Recipients] /\ \A i, j \in 1 .. n : i # j => lineup[i] # lineup[j]
  BY DEF SetToSeqs
<1>3. lineup \in Injection(1 .. n, Recipients)
  BY <1>2 DEF Injection, IsInjective
<1>4. lineup \in Surjection(1 .. n, Recipients)
  BY <1>1, <1>3, FS_Injection
<1>5. DOMAIN lineup = 1 .. n
  BY <1>2
<1> QED
  BY <1>2, <1>4, <1>5 DEF Surjection, ToSet

\* Handlers and passes are different wakers.
LEMMA WakersApart == /\ Handlers \cap Sweeps = {}
                     /\ Handlers \subseteq Wakers /\ Sweeps \subseteq Wakers
BY RoutingAssumption DEF Handlers, Sweeps, Wakers

LEMMA WakesInHandStep ==
    ASSUME ClaimsTypeOK, WakesInHand, [ClaimsNext]_claimVars
    PROVE  WakesInHand'
<1> USE WakersApart DEF WakesInHand, ClaimsTypeOK
<1>1. ASSUME NEW h \in Handlers,
             Hear(h) \/ FanOut(h) \/ Elect(h) \/ HandlerDone(h) \/ HandlerFails(h)
      PROVE  WakesInHand'
  <2>1. /\ \A g \in Handlers \ {h} : handler'[g] = handler[g]
        /\ \A p \in Wakers \ {h} : wakes'[p] = wakes[p]
        /\ sweep' = sweep
    BY <1>1 DEF Hear, FanOut, Elect, HandlerDone, HandlerFails, StartWaking
  <2>2. handler'[h] # "waking" => wakes'[h] = {}
    BY <1>1 DEF Hear, FanOut, Elect, HandlerDone, HandlerFails, StartWaking
  <2> QED
    BY <2>1, <2>2
<1>2. ASSUME NEW s \in Sweeps,
             Take(s) \/ Serve(s) \/ Lagging(s) \/ LaggingFails(s) \/ Exhaust(s) \/ Move(s)
               \/ PassDone(s) \/ PassFails(s)
      PROVE  WakesInHand'
  <2>1. /\ \A t \in Sweeps \ {s} : sweep'[t] = sweep[t]
        /\ \A p \in Wakers \ {s} : wakes'[p] = wakes[p]
        /\ handler' = handler
    BY <1>2 DEF Take, Serve, Lagging, LaggingFails, Exhaust, Move, PassDone, PassFails, PassGoes
  <2>2. sweep'[s].pc # "waking" => wakes'[s] = {}
    BY <1>2 DEF Take, Serve, Lagging, LaggingFails, Exhaust, Move, PassDone, PassFails, PassGoes
  <2> QED
    BY <2>1, <2>2
<1>3. ASSUME NEW p \in Wakers, Wake(p) PROVE WakesInHand'
  BY <1>3 DEF Wake
<1>4. ASSUME Reap PROVE WakesInHand'
  BY <1>4 DEF Reap
<1>5. ASSUME NEW a \in Room, TurnStarts(a) \/ PassesBy(a) PROVE WakesInHand'
  BY <1>5 DEF TurnStarts, PassesBy
<1>6. ASSUME KeyLapses \/ LeaseLapses \/ UNCHANGED claimVars PROVE WakesInHand'
  BY <1>6 DEF KeyLapses, LeaseLapses, claimVars
<1> QED
  BY <1>1, <1>2, <1>3, <1>4, <1>5, <1>6, RoomMembers DEF ClaimsNext, HandlerSteps, SweepSteps

LEMMA RunSeenStep ==
    ASSUME ClaimsTypeOK, Copied, RunSeen, [ClaimsNext]_claimVars
    PROVE  RunSeen'
<1> USE DEF RunSeen
<1>1. \A s \in Sweeps : sweep[s].pc \in {"check", "lagging"} =>
         claim # NoRow /\ sweep[s].at \in Nat \ {0} /\ claim.lineup[sweep[s].at] \in Room
  BY RowFacts, RoomSize DEF Copied
\* Whoever leaves lineup and runs alone, and brings no pass to the lagging members.
<1>2. ASSUME claim # NoRow => claim'.lineup = claim.lineup, \A a \in Room : turn[a] > 0 => turn'[a] > 0,
             \A s \in Sweeps : sweep'[s].pc = "lagging" =>
               sweep[s].pc = "lagging" /\ sweep'[s].at = sweep[s].at
      PROVE  RunSeen'
  BY <1>1, <1>2
<1>3. ASSUME NEW h \in Handlers,
             Hear(h) \/ FanOut(h) \/ Elect(h) \/ HandlerDone(h) \/ HandlerFails(h) \/ Wake(h)
      PROVE  RunSeen'
  BY <1>2, <1>3 DEF Hear, FanOut, Elect, HandlerDone, HandlerFails, Wake
<1>4. ASSUME NEW s \in Sweeps, Serve(s) PROVE RunSeen'
  <2>1. claim # NoRow /\ sweep[s].at \in Nat \ {0} /\ claim.lineup[sweep[s].at] \in Room
    BY <1>1, <1>4 DEF Serve
  <2>2. claim'.lineup = claim.lineup /\ turn' = turn
    BY <1>4, <2>1, RowFacts DEF Serve, ClaimRow
  <2>3. turn[claim.lineup[sweep[s].at]] > 0
    BY <1>4, <2>1, RoomSize DEF Serve, HasRunSince, ClaimsTypeOK, Round
  <2>4. /\ sweep'[s].at = sweep[s].at
        /\ \A t \in Sweeps \ {s} : sweep'[t] = sweep[t]
    BY <1>4 DEF Serve, PassGoes, ClaimsTypeOK
  <2> QED
    BY <2>2, <2>3, <2>4
<1>5. ASSUME NEW s \in Sweeps,
             Take(s) \/ Lagging(s) \/ LaggingFails(s) \/ PassDone(s) \/ PassFails(s) \/ Wake(s)
      PROVE  RunSeen'
  <2>1. UNCHANGED <<claim, turn>>
    BY <1>5 DEF Take, Lagging, LaggingFails, PassDone, PassFails, Wake
  <2>2. \A t \in Sweeps : sweep'[t].pc = "lagging" =>
               sweep[t].pc = "lagging" /\ sweep'[t].at = sweep[t].at
    BY <1>5 DEF Take, Lagging, LaggingFails, PassDone, PassFails, Wake, PassGoes, ClaimsTypeOK
  <2> QED
    BY <1>2, <2>1, <2>2
<1>6. ASSUME NEW s \in Sweeps, Exhaust(s) \/ Move(s) PROVE RunSeen'
  <2>1. claim # NoRow /\ turn' = turn
    BY <1>6 DEF Exhaust, Move, Copied
  <2>2. claim'.lineup = claim.lineup
    BY <1>6, <2>1, RowFacts DEF Exhaust, Move, ClaimRow
  <2>3. \A t \in Sweeps : sweep'[t].pc = "lagging" =>
               sweep[t].pc = "lagging" /\ sweep'[t].at = sweep[t].at
    <3>1. sweep' = [sweep EXCEPT ![s].pc = "waking"]
      BY <1>6 DEF Exhaust, Move, PassGoes
    <3> QED
      BY <3>1 DEF ClaimsTypeOK
  <2> QED
    BY <1>2, <2>1, <2>2, <2>3
<1>7. ASSUME NEW a \in Recipients, TurnStarts(a) PROVE RunSeen'
  <2>1. \A b \in Room : turn[b] > 0 => turn'[b] > 0
    BY <1>7, RowFacts, RoomSize DEF TurnStarts, ClaimsTypeOK
  <2> QED
    BY <1>2, <1>7, <2>1 DEF TurnStarts
<1>8. ASSUME Reap PROVE RunSeen'
  BY <1>8 DEF Reap
<1>9. ASSUME KeyLapses \/ LeaseLapses \/ UNCHANGED claimVars PROVE RunSeen'
  BY <1>2, <1>9 DEF KeyLapses, LeaseLapses, claimVars
<1>10. ASSUME NEW a \in MidTurn, PassesBy(a) PROVE RunSeen'
  BY <1>2, <1>10 DEF PassesBy
<1> QED
  BY <1>3, <1>4, <1>5, <1>6, <1>7, <1>8, <1>9, <1>10 DEF ClaimsNext, HandlerSteps, SweepSteps

\* A delivery that was heard stays heard.
LEMMA HeardStays ==
    ASSUME ClaimsTypeOK, Copied, RowHeard, [ClaimsNext]_claimVars
    PROVE  /\ RowHeard'
           /\ \A g \in Handlers : handler[g] # "none" => handler'[g] # "none"
<1>1. \A g \in Handlers : handler[g] # "none" => handler'[g] # "none"
  <2>1. ASSUME NEW h \in Handlers, Hear(h) \/ HandlerSteps(h) \/ HandlerFails(h)
        PROVE  \A g \in Handlers : handler[g] # "none" => handler'[g] # "none"
    BY <2>1 DEF Hear, HandlerSteps, FanOut, Elect, HandlerDone, HandlerFails, Wake, StartWaking,
         ClaimsTypeOK
  <2>2. ASSUME NEW s \in Sweeps, Take(s) \/ SweepSteps(s) \/ LaggingFails(s) \/ PassFails(s)
        PROVE  handler' = handler
    BY <2>2 DEF Take, SweepSteps, Serve, Lagging, LaggingFails, Exhaust, Move, PassDone,
         PassFails, Wake
  <2>3. ASSUME \/ \E a \in Room : TurnStarts(a) \/ PassesBy(a)
               \/ KeyLapses \/ LeaseLapses \/ Reap \/ UNCHANGED claimVars
        PROVE  \A g \in Handlers : handler[g] # "none" => handler'[g] # "none"
    BY <2>3 DEF TurnStarts, PassesBy, KeyLapses, LeaseLapses, Reap, claimVars
  <2> QED
    BY <2>1, <2>2, <2>3, RoomMembers DEF ClaimsNext
<1>2. ASSUME ~Heard' PROVE claim' = NoRow
  <2>1. ~Heard /\ claim = NoRow /\ \A h \in Handlers : handler[h] = "none"
    BY <1>1, <1>2 DEF RowHeard, Heard
  <2>2. ASSUME NEW h \in Handlers, Hear(h) \/ HandlerSteps(h) \/ HandlerFails(h)
        PROVE  claim' = NoRow
    BY <2>1, <2>2 DEF Hear, HandlerSteps, FanOut, Elect, HandlerDone, HandlerFails, Wake
  <2>3. ASSUME NEW s \in Sweeps, Take(s) \/ SweepSteps(s) \/ LaggingFails(s) \/ PassFails(s)
        PROVE  claim' = NoRow
    BY <2>1, <2>3 DEF Take, SweepSteps, Serve, Lagging, LaggingFails, Exhaust, Move, PassDone,
         PassFails, Wake, Copied, Pending
  <2>4. ASSUME \/ \E a \in Room : TurnStarts(a) \/ PassesBy(a)
               \/ KeyLapses \/ LeaseLapses \/ Reap \/ UNCHANGED claimVars
        PROVE  claim' = NoRow
    BY <2>1, <2>4 DEF TurnStarts, PassesBy, KeyLapses, LeaseLapses, Reap, claimVars
  <2> QED
    BY <2>2, <2>3, <2>4, RoomMembers DEF ClaimsNext
<1> QED
  BY <1>1, <1>2 DEF RowHeard

\* Nobody is forgotten by a step that takes nothing away but what it does.
LEMMA CareStays ==
    ASSUME NobodyForgotten, Heard' => Heard,
           claim = NoRow => claim' = NoRow, Pending => Pending',
           claim = NoRow =>
             \A h \in Handlers : handler[h] = "heard" => handler'[h] = "heard",
           called \subseteq called', passed \subseteq passed',
           \A a \in Room : turn[a] > 0 => turn'[a] > 0,
           mishaps.lost \subseteq mishaps'.lost,
           \A p \in Wakers : wakes[p] \subseteq wakes'[p] \cup called' \cup mishaps'.lost,
           \A s \in Sweeps : sweep[s].pc = "lagging" => sweep'[s].pc = "lagging"
    PROVE  NobodyForgotten'
<1> SUFFICES ASSUME Heard', ~Undecided', NEW a \in Recipients
             PROVE  InCare(a)'
  BY DEF NobodyForgotten
<1>1. ~Undecided
  BY DEF Undecided
<1>2. InCare(a) /\ a \in Room
  BY <1>1, RoomSize DEF NobodyForgotten
<1> QED
  BY <1>2 DEF InCare, Reached

\* Whoever has run, or is past the message, needs no wake of a pass that looks for
\* the lagging members.
LEMMA CaughtUp ==
    ASSUME ClaimsTypeOK, NEW s \in Sweeps, sweep[s].pc = "lagging", NEW a \in Recipients
    PROVE  Reached(a) \/ a \in passed \/ a \in ToWake(s)
<1>1. a \in Room /\ turn[a] \in Nat
  BY RoomSize DEF ClaimsTypeOK, Round
<1> QED
  BY <1>1 DEF Reached, ToWake, Behind

LEMMA CareStep ==
    ASSUME ClaimsTypeOK, Copied, WakesInHand, RunSeen, RowHeard, NobodyForgotten,
           [ClaimsNext]_claimVars
    PROVE  NobodyForgotten'
<1>0. /\ Recipients \subseteq Room /\ Handlers \subseteq Wakers /\ Sweeps \subseteq Wakers
      /\ Handlers \cap Sweeps = {}
  BY RoomSize, WakersApart
<1>1. ASSUME \A a \in Recipients : InCare(a)' PROVE NobodyForgotten'
  BY <1>1 DEF NobodyForgotten
<1>2. ASSUME NEW h \in Handlers, Hear(h) PROVE NobodyForgotten'
  <2>1. CASE Heard
    BY <1>2, <2>1, CareStays DEF Hear, Pending, ClaimsTypeOK
  <2>2. CASE ~Heard
    <3>1. claim' = NoRow /\ handler'[h] = "heard"
      BY <1>2, <2>2 DEF Hear, RowHeard, ClaimsTypeOK
    <3> QED
      BY <3>1 DEF NobodyForgotten, Undecided
  <2> QED
    BY <2>1, <2>2
<1>3. ASSUME NEW h \in Handlers, FanOut(h) PROVE NobodyForgotten'
  <2>1. wakes'[h] = Recipients
    BY <1>0, <1>3 DEF FanOut, StartWaking, ClaimsTypeOK
  <2> QED
    BY <1>0, <1>1, <2>1 DEF InCare
\* The row, or what its candidate has to hear of it.
<1>4. ASSUME NEW h \in Handlers, Elect(h) PROVE NobodyForgotten'
  <2>1. CASE claim = NoRow
    <3>1. PICK lineup \in SetToSeqs(Recipients) :
             /\ claim' = [status |-> "pending", lineup |-> lineup, cursor |-> 1]
             /\ claim' \in ClaimRow
      BY <1>4, <2>1, ElectedRow
    <3>2. Pending'
      BY <3>1, RowUpdates DEF Pending
    <3> QED
      BY <1>1, <3>2 DEF InCare
  <2>2. CASE claim # NoRow
    <3>1. Heard /\ ~Undecided
      BY <2>2 DEF RowHeard, Undecided
    <3>2. wakes[h] = {}
      BY <1>4 DEF Elect, WakesInHand
    <3>3. /\ UNCHANGED <<claim, sweep, turn, passed, called, mishaps>>
          /\ \A p \in Wakers : wakes[p] \subseteq wakes'[p]
      BY <1>0, <1>4, <2>2, <3>2 DEF Elect, StartWaking, ClaimsTypeOK
    <3>4. \A a \in Recipients : InCare(a) => InCare(a)'
      BY <3>3 DEF InCare, Reached, Pending
    <3> QED
      BY <1>1, <3>1, <3>4 DEF NobodyForgotten
  <2> QED
    BY <2>1, <2>2
<1>5. ASSUME NEW h \in Handlers, HandlerDone(h) PROVE NobodyForgotten'
  <2>1. Heard /\ \A g \in Handlers : handler[g] = "heard" => handler'[g] = "heard"
    BY <1>5 DEF HandlerDone, Heard, ClaimsTypeOK
  <2> QED
    BY <1>5, <2>1, CareStays DEF HandlerDone, Pending
\* What a terminal row does not make up for is noted.
<1>6. ASSUME NEW h \in Handlers, HandlerFails(h) PROVE NobodyForgotten'
  <2>1. /\ UNCHANGED <<claim, sweep, turn, passed, called>>
        /\ mishaps'.lost = IF Pending THEN mishaps.lost ELSE mishaps.lost \cup Unserved(h)
    BY <1>6 DEF HandlerFails, ClaimsTypeOK
  <2>2. CASE Pending
    BY <1>1, <2>1, <2>2 DEF Pending, InCare
  <2>3. CASE handler[h] = "heard" /\ claim = NoRow
    BY <1>1, <2>1, <2>3 DEF InCare, Pending, Unserved
  <2>4. CASE ~Pending /\ ~(handler[h] = "heard" /\ claim = NoRow)
    <3>1. Heard
      BY <1>6 DEF HandlerFails, Heard
    <3>2. claim = NoRow =>
            \A g \in Handlers : handler[g] = "heard" => handler'[g] = "heard"
      BY <1>6, <2>4 DEF HandlerFails, ClaimsTypeOK
    <3>3. \A p \in Wakers : wakes[p] \subseteq wakes'[p] \cup called' \cup mishaps'.lost
      BY <1>6, <2>1, <2>4 DEF HandlerFails, ClaimsTypeOK, Unserved
    <3> QED
      BY <2>1, <2>4, <3>1, <3>2, <3>3, CareStays
  <2> QED
    BY <2>2, <2>3, <2>4
<1>7. ASSUME NEW p \in Wakers, Wake(p) PROVE NobodyForgotten'
  <2>1. /\ called \subseteq called' /\ \A q \in Wakers : wakes[q] \subseteq wakes'[q] \cup called'
        /\ UNCHANGED <<claim, handler, sweep, turn, passed, mishaps>>
    BY <1>7 DEF Wake, ClaimsTypeOK
  <2> QED
    BY <2>1, CareStays DEF Heard, Pending
<1>8. ASSUME NEW s \in Sweeps, Take(s) PROVE NobodyForgotten'
  <2>1. \A t \in Sweeps : sweep[t].pc = "lagging" => sweep'[t].pc = "lagging"
    BY <1>8 DEF Take, ClaimsTypeOK
  <2> QED
    BY <1>8, <2>1, CareStays DEF Take, Heard, Pending
<1>9. ASSUME NEW s \in Sweeps, Serve(s) PROVE NobodyForgotten'
  <2>1. sweep'[s].pc = "lagging"
    BY <1>9 DEF Serve, PassGoes, ClaimsTypeOK
  <2> QED
    BY <1>1, <2>1 DEF InCare
\* Whoever is not behind has run, and so has the candidate that is left out.
<1>10. ASSUME NEW s \in Sweeps, Lagging(s) PROVE NobodyForgotten'
  <2>1. {a \in Room : Behind(a)} \ {claim.lineup[sweep[s].at]} \subseteq wakes'[s]
    BY <1>0, <1>10 DEF Lagging, ClaimsTypeOK
  <2>2. turn[claim.lineup[sweep[s].at]] > 0 /\ turn' = turn
    BY <1>10 DEF Lagging, RunSeen
  <2>3. ASSUME NEW a \in Recipients, ~Reached(a)', a \notin passed' PROVE a \in wakes'[s]
    <3>1. a \in Room /\ turn[a] \in Nat /\ ~(turn[a] > 0) /\ a \notin passed
      BY <1>0, <1>10, <2>2, <2>3, RoomSize DEF Reached, ClaimsTypeOK, Round, Lagging
    <3>2. Behind(a) /\ a # claim.lineup[sweep[s].at]
      BY <2>2, <3>1 DEF Behind
    <3> QED
      BY <2>1, <3>1, <3>2
  <2> QED
    BY <1>0, <1>1, <2>3 DEF InCare
<1>11. ASSUME NEW s \in Sweeps, LaggingFails(s) PROVE NobodyForgotten'
  <2>1. mishaps'.lost = mishaps.lost \cup ToWake(s) /\ UNCHANGED <<turn, passed, called>>
    BY <1>11 DEF LaggingFails, ClaimsTypeOK
  <2>2. \A a \in Recipients : Reached(a) \/ a \in passed \/ a \in ToWake(s)
    BY <1>11, CaughtUp DEF LaggingFails
  <2> QED
    BY <1>1, <2>1, <2>2 DEF InCare, Reached
<1>12. ASSUME NEW s \in Sweeps, Exhaust(s) PROVE NobodyForgotten'
  <2>1. claim # NoRow
    BY <1>12 DEF Exhaust, Copied
  <2>2. ToSet(claim.lineup) = Recipients
    BY <2>1, RowFacts, LineupComplete
  <2>3. wakes'[s] = Recipients
    BY <1>0, <1>12, <2>2 DEF Exhaust, Fallback, ClaimsTypeOK
  <2> QED
    BY <1>0, <1>1, <2>3 DEF InCare
<1>13. ASSUME NEW s \in Sweeps, Move(s) PROVE NobodyForgotten'
  <2>1. claim # NoRow /\ wakes[s] = {} /\ UNCHANGED <<handler, turn, passed, called, mishaps>>
    BY <1>13 DEF Move, Copied, WakesInHand
  <2>2. Heard /\ ~Undecided
    BY <2>1 DEF RowHeard, Undecided
  <2>3. Pending => Pending'
    <3>1. sweep[s].at + 1 \in 1 .. Cardinality(Recipients)
      BY <1>13, <2>1, RowFacts, RoomSize DEF Move, LastRound, Copied
    <3>2. CASE claim.cursor = sweep[s].at
      <4>1. claim' = [claim EXCEPT !.cursor = sweep[s].at + 1]
        BY <1>13, <3>2 DEF Move
      <4> QED
        BY <2>1, <3>1, <4>1, RowFacts, RowUpdates DEF Pending, ClaimRow
    <3>3. CASE claim.cursor # sweep[s].at
      BY <1>13, <3>3 DEF Move, Pending
    <3> QED
      BY <3>2, <3>3
  <2>4. \A p \in Wakers : wakes[p] \subseteq wakes'[p]
    BY <1>13, <2>1 DEF Move, ClaimsTypeOK
  <2>5. \A t \in Sweeps : sweep[t].pc = "lagging" => sweep'[t].pc = "lagging"
    BY <1>13 DEF Move, PassGoes, ClaimsTypeOK
  <2>6. \A a \in Recipients : InCare(a) => InCare(a)'
    BY <2>1, <2>3, <2>4, <2>5 DEF InCare, Reached
  <2> QED
    BY <1>1, <2>2, <2>6 DEF NobodyForgotten
<1>14. ASSUME NEW s \in Sweeps, PassDone(s) PROVE NobodyForgotten'
  <2>1. \A t \in Sweeps : sweep[t].pc = "lagging" => sweep'[t].pc = "lagging"
    BY <1>14 DEF PassDone, ClaimsTypeOK
  <2> QED
    BY <1>14, <2>1, CareStays DEF PassDone, Heard, Pending
<1>15. ASSUME NEW s \in Sweeps, PassFails(s) PROVE NobodyForgotten'
  <2>1. /\ UNCHANGED <<claim, handler, turn, passed, called>>
        /\ mishaps'.lost = IF Pending THEN mishaps.lost ELSE mishaps.lost \cup ToWake(s)
    BY <1>15 DEF PassFails, ClaimsTypeOK
  <2>2. CASE Pending
    BY <1>1, <2>1, <2>2 DEF Pending, InCare
  <2>3. CASE ~Pending /\ sweep[s].pc = "lagging"
    <3>1. \A a \in Recipients : Reached(a) \/ a \in passed \/ a \in ToWake(s)
      BY <2>3, CaughtUp
    <3> QED
      BY <1>1, <2>1, <2>3, <3>1 DEF InCare, Reached
  <2>4. CASE ~Pending /\ sweep[s].pc # "lagging"
    <3>1. /\ \A t \in Sweeps : sweep[t].pc = "lagging" => sweep'[t].pc = "lagging"
          /\ \A p \in Wakers : wakes[p] \subseteq wakes'[p] \cup called' \cup mishaps'.lost
      BY <1>15, <2>1, <2>4 DEF PassFails, ClaimsTypeOK, ToWake
    <3> QED
      BY <2>1, <2>4, <3>1, CareStays DEF Heard, Pending
  <2> QED
    BY <2>2, <2>3, <2>4
\* Nothing is under way when the row is reaped.
<1>16. ASSUME Reap PROVE NobodyForgotten'
  <2>1. /\ claim # NoRow /\ ~Pending /\ UNCHANGED <<turn, passed, called, mishaps>>
        /\ \A s \in Sweeps : sweep[s].pc = "idle"
    BY <1>16 DEF Reap
  <2>2. \A p \in Wakers : wakes[p] = {}
    BY <1>16, <2>1 DEF Reap, WakesInHand, Wakers
  <2>3. \A a \in Recipients : InCare(a)
    BY <2>1 DEF NobodyForgotten, RowHeard, Undecided
  <2>4. \A a \in Recipients : InCare(a)'
    BY <2>1, <2>2, <2>3 DEF InCare, Reached
  <2> QED
    BY <1>1, <2>4
<1>17. ASSUME NEW a \in Recipients, TurnStarts(a) PROVE NobodyForgotten'
  <2>1. \A b \in Room : turn[b] > 0 => turn'[b] > 0
    BY <1>17, RowFacts, RoomSize DEF TurnStarts, ClaimsTypeOK
  <2> QED
    BY <1>17, <2>1, CareStays DEF TurnStarts, Heard, Pending
<1>18. ASSUME KeyLapses \/ UNCHANGED claimVars PROVE NobodyForgotten'
  BY <1>18, CareStays DEF KeyLapses, claimVars, Heard, Pending
<1>19. ASSUME LeaseLapses PROVE NobodyForgotten'
  <2>1. mishaps'.lost = mishaps.lost
    BY <1>19 DEF LeaseLapses, ClaimsTypeOK
  <2> QED
    BY <1>19, <2>1, CareStays DEF LeaseLapses, Heard, Pending
<1>20. ASSUME NEW a \in MidTurn, PassesBy(a) PROVE NobodyForgotten'
  BY <1>20, CareStays DEF PassesBy, Heard, Pending
<1> QED
  BY <1>0, <1>2, <1>3, <1>4, <1>5, <1>6, <1>7, <1>8, <1>9, <1>10, <1>11, <1>12, <1>13, <1>14,
     <1>15, <1>16, <1>17, <1>18, <1>19, <1>20 DEF ClaimsNext, HandlerSteps, SweepSteps

\* From the first delivery on, each agent the message is for has been woken or has
\* started a run that reads it, or the row is pending, or a handler or a pass has the
\* wake in hand; or it is one whose cursor a run from before the election moved past
\* the message, or whose wake was in the memory of what a fault hit after the row was
\* terminal: the safety half of NobodyLeftOut, whatever passes overlap, die or find
\* the row already settled.  Once nothing is under way, one of the first two or the
\* last two holds of everybody.
THEOREM NobodyIsForgotten ==
    ClaimsSpec => [](/\ NobodyForgotten
                     /\ /\ Heard /\ ~Pending
                        /\ \A h \in Handlers : handler[h] \in {"none", "done"}
                        /\ \A s \in Sweeps : sweep[s].pc = "idle"
                        => \A a \in Recipients :
                             Reached(a) \/ a \in passed \/ a \in mishaps.lost)
<1> DEFINE Inv == /\ ClaimsTypeOK /\ Copied /\ WakesInHand /\ RunSeen
                  /\ RowHeard /\ NobodyForgotten
           AtRest == /\ Heard /\ ~Pending
                     /\ \A h \in Handlers : handler[h] \in {"none", "done"}
                     /\ \A s \in Sweeps : sweep[s].pc = "idle"
<1>1. ClaimsInit => Inv
  <2> SUFFICES ASSUME ClaimsInit PROVE Inv
    OBVIOUS
  <2>1. WakesInHand /\ RunSeen /\ Copied
    BY WakersApart DEF ClaimsInit, WakesInHand, RunSeen, Copied
  <2>2. RowHeard /\ NobodyForgotten
    BY DEF ClaimsInit, RowHeard, NobodyForgotten, Heard
  <2> QED
    BY <2>1, <2>2, ClaimsInitType
<1>2. Inv /\ [ClaimsNext]_claimVars => Inv'
  BY ClaimsNextType, WakesInHandStep, RunSeenStep, HeardStays, CareStep
<1>3. Inv => NobodyForgotten /\ (AtRest => \A a \in Recipients :
                                             Reached(a) \/ a \in passed \/ a \in mishaps.lost)
  <2> SUFFICES ASSUME Inv, AtRest, NEW a \in Recipients
               PROVE  Reached(a) \/ a \in passed \/ a \in mishaps.lost
    OBVIOUS
  <2>1. \A p \in Wakers : wakes[p] = {}
    BY DEF WakesInHand, Wakers
  <2>2. ~Undecided
    BY DEF Undecided
  <2> QED
    BY <2>1, <2>2 DEF NobodyForgotten, InCare
<1> QED
  BY <1>1, <1>2, <1>3, PTL DEF ClaimsSpec

-----------------------------------------------------------------------------
(* Rounds *)

\* What is not at work on the row, or was not before, changes neither.
LEMMA ExclusiveStays ==
    ASSUME ClaimsTypeOK, Exclusive,
           mishaps'.overruns = 0 => mishaps.overruns = 0,
           UNCHANGED <<claim, lease, rounds>>, AtWork' \in SUBSET AtWork,
           \A s \in AtWork' : sweep'[s].at = sweep[s].at,
           \A h \in Handlers : handler[h] = "done" => handler'[h] = "done"
    PROVE  Exclusive'
BY DEF Exclusive, OneAtWork, Advanced, Pending

LEMMA ExclusiveStep ==
    ASSUME ClaimsTypeOK, Copied, Exclusive, [ClaimsNext]_claimVars
    PROVE  Exclusive'
<1>1. mishaps.overruns \in Nat
  BY DEF ClaimsTypeOK
<1>2. ASSUME NEW h \in Handlers,
             Hear(h) \/ FanOut(h) \/ HandlerDone(h) \/ HandlerFails(h) \/ Wake(h)
      PROVE  Exclusive'
  <2>1. \A g \in Handlers : handler[g] = "done" => handler'[g] = "done"
    BY <1>2 DEF Hear, FanOut, StartWaking, HandlerDone, HandlerFails, Wake, ClaimsTypeOK
  <2>2. UNCHANGED <<claim, lease, rounds, sweep>> /\ mishaps'.overruns = mishaps.overruns
    BY <1>2 DEF Hear, FanOut, HandlerDone, HandlerFails, Wake, ClaimsTypeOK
  <2>3. AtWork' = AtWork
    BY <2>2 DEF AtWork
  <2> QED
    BY <2>1, <2>2, <2>3, ExclusiveStays
\* A row is elected before any round, for no handler is left when it was reaped.
<1>3. ASSUME NEW h \in Handlers, Elect(h) PROVE Exclusive'
  <2>1. CASE claim # NoRow
    <3>1. \A g \in Handlers : handler[g] = "done" => handler'[g] = "done"
      BY <1>3, <2>1 DEF Elect, StartWaking, ClaimsTypeOK
    <3>2. UNCHANGED <<claim, lease, rounds, sweep, mishaps>> /\ AtWork' = AtWork
      BY <1>3, <2>1 DEF Elect, AtWork
    <3> QED
      BY <3>1, <3>2, ExclusiveStays
  <2>2. CASE claim = NoRow
    <3>1. AtWork' = {}
      BY <1>3, <2>2 DEF Elect, AtWork, Copied
    <3>2. UNCHANGED <<rounds, mishaps>> /\ handler[h] = "heard" /\ claim' # NoRow
      BY <1>3, <2>2, RowUpdates, ElectedRow DEF Elect
    <3> QED
      BY <2>2, <3>1, <3>2 DEF Exclusive, OneAtWork, Advanced
  <2> QED
    BY <2>1, <2>2
\* The lease is over, so nobody is at work yet.
<1>4. ASSUME NEW s \in Sweeps, Take(s) PROVE Exclusive'
  <2>1. UNCHANGED <<claim, rounds, handler, mishaps>> /\ lease' = "live" /\ Pending /\ Pending'
    BY <1>4 DEF Take, Renewed, Pending
  <2>2. ASSUME mishaps.overruns = 0 PROVE AtWork = {}
    BY <1>4, <2>2 DEF Exclusive, OneAtWork, Take
  <2>3. AtWork' = AtWork \cup {s} /\ sweep'[s].at = claim.cursor
    BY <1>4 DEF Take, AtWork, ClaimsTypeOK
  <2> QED
    BY <2>1, <2>2, <2>3 DEF Exclusive, OneAtWork, Advanced
<1>5. ASSUME NEW s \in Sweeps, Serve(s) \/ Exhaust(s) PROVE Exclusive'
  <2>1. claim # NoRow /\ s \in AtWork
    BY <1>5 DEF Serve, Exhaust, Copied, AtWork
  <2>2. claim' # NoRow /\ claim'.cursor = claim.cursor
    BY <1>5, <2>1, RowFacts, RowUpdates DEF Serve, Exhaust, Status, ClaimRow
  <2>3. AtWork' = AtWork \ {s} /\ UNCHANGED <<lease, rounds, handler, mishaps>>
    BY <1>5 DEF Serve, Exhaust, PassGoes, AtWork, ClaimsTypeOK
  <2>4. mishaps.overruns = 0 => AtWork = {s}
    BY <2>1 DEF Exclusive, OneAtWork
  <2> QED
    BY <2>1, <2>2, <2>3, <2>4 DEF Exclusive, OneAtWork, Advanced
\* The pass is in the round of the row, and nobody else is.
<1>6. ASSUME NEW s \in Sweeps, Move(s) PROVE Exclusive'
  <2>1. claim # NoRow /\ s \in AtWork /\ UNCHANGED <<handler, mishaps>>
    BY <1>6 DEF Move, Copied, AtWork
  <2>2. AtWork' = AtWork \ {s}
    BY <1>6 DEF Move, PassGoes, AtWork, ClaimsTypeOK
  <2> SUFFICES ASSUME mishaps.overruns = 0 PROVE OneAtWork' /\ Advanced'
    BY <2>1 DEF Exclusive
  <2>3. OneAtWork /\ Advanced
    BY DEF Exclusive
  <2>4. AtWork = {s} /\ sweep[s].at = claim.cursor
    BY <2>1, <2>3 DEF OneAtWork
  <2>5. claim.cursor + 1 \in 1 .. Cardinality(Recipients) /\ claim.cursor + 1 \in Round
    BY <1>6, <2>1, <2>4, RowFacts, RoomSize DEF Move, LastRound, Round
  <2>6. claim' # NoRow /\ claim'.cursor = claim.cursor + 1
    BY <1>6, <2>1, <2>4, <2>5, RowFacts, RowUpdates DEF Move, ClaimRow
  <2>7. rounds[claim.cursor + 1] = 0
    BY <2>1, <2>3, <2>5, RowFacts, RoomSize DEF Advanced
  <2>8. rounds' = [rounds EXCEPT ![claim.cursor + 1] = 1]
    BY <1>6, <2>4, <2>7 DEF Move
  <2>9. Advanced'
    BY <2>1, <2>3, <2>5, <2>6, <2>8, RowFacts, RoomSize DEF Advanced, ClaimsTypeOK, Round
  <2> QED
    BY <2>2, <2>4, <2>9 DEF OneAtWork
<1>7. ASSUME NEW s \in Sweeps,
             Lagging(s) \/ LaggingFails(s) \/ PassDone(s) \/ PassFails(s) \/ Wake(s)
      PROVE  Exclusive'
  <2>1. UNCHANGED <<claim, lease, rounds, handler>> /\ mishaps'.overruns = mishaps.overruns
    BY <1>7 DEF Lagging, LaggingFails, PassDone, PassFails, Wake, ClaimsTypeOK
  <2>2. AtWork' \in SUBSET AtWork /\ \A t \in AtWork' : sweep'[t].at = sweep[t].at
    <3>1. \/ sweep' = sweep
          \/ sweep' = [sweep EXCEPT ![s].pc = "waking"]
          \/ sweep' = [sweep EXCEPT ![s] = [pc |-> "idle", at |-> 0]]
      BY <1>7 DEF Lagging, LaggingFails, PassDone, PassFails, Wake, PassGoes
    <3> QED
      BY <3>1 DEF AtWork, ClaimsTypeOK
  <2> QED
    BY <2>1, <2>2, ExclusiveStays
\* A lease that lapses under a pass at work is counted.
<1>8. ASSUME LeaseLapses PROVE Exclusive'
  <2>1. CASE AtWork = {}
    BY <1>8, <2>1 DEF LeaseLapses, AtWork, Exclusive, OneAtWork, Advanced
  <2>2. CASE AtWork # {}
    <3>1. mishaps'.overruns = mishaps.overruns + 1
      BY <1>8, <2>2 DEF LeaseLapses, ClaimsTypeOK
    <3> QED
      BY <1>1, <3>1 DEF Exclusive
  <2> QED
    BY <2>1, <2>2
<1>9. ASSUME Reap PROVE Exclusive'
  <2>1. AtWork' = {} /\ UNCHANGED <<rounds, mishaps>> /\ claim' = NoRow
    BY <1>9 DEF Reap, AtWork
  <2>2. \A h \in Handlers : handler'[h] = "done"
    BY <1>9 DEF Reap
  <2> QED
    BY <2>1, <2>2 DEF Exclusive, OneAtWork, Advanced
<1>10. ASSUME NEW a \in Recipients, TurnStarts(a) PROVE Exclusive'
  BY <1>10, ExclusiveStays DEF TurnStarts, AtWork
<1>11. ASSUME KeyLapses \/ UNCHANGED claimVars PROVE Exclusive'
  BY <1>11, ExclusiveStays DEF KeyLapses, claimVars, AtWork
<1>12. ASSUME NEW a \in MidTurn, PassesBy(a) PROVE Exclusive'
  BY <1>12, ExclusiveStays DEF PassesBy, AtWork
<1> QED
  BY <1>2, <1>3, <1>4, <1>5, <1>6, <1>7, <1>8, <1>9, <1>10, <1>11, <1>12
     DEF ClaimsNext, HandlerSteps, SweepSteps

\* As long as no lease lapses under the pass that renewed it, each round of a claim
\* is advanced to once: the UPDATE of Take keeps the other passes of all replicas
\* out, and the row of a message is not written twice.
THEOREM RoundsAdvanceOnce == ClaimsSpec => []OneAdvancePerRound
<1> DEFINE Inv == ClaimsTypeOK /\ Copied /\ Exclusive
<1>1. ClaimsInit => Inv
  BY ClaimsInitType DEF ClaimsInit, Copied, Exclusive, OneAtWork, Advanced, AtWork
<1>2. Inv /\ [ClaimsNext]_claimVars => Inv'
  BY ClaimsNextType, ExclusiveStep
<1>3. Inv => OneAdvancePerRound
  BY DEF Exclusive, Advanced, OneAdvancePerRound
<1> QED
  BY <1>1, <1>2, <1>3, PTL DEF ClaimsSpec

-----------------------------------------------------------------------------
(* Documents: what compaction, loads and rooms keep. *)

\* The variables as functions and sets of the right kind, without the ids.
Shape ==
    /\ rowOf \in [Updates -> Row]
    /\ snapshot.merged \in SUBSET Updates
    /\ compactor \in [Instances -> [rows : SUBSET Updates, merged : SUBSET Updates]]
    /\ room \in [Instances -> [st : {"absent", "loading", "read", "ready"},
                               doc : SUBSET Updates]]
    /\ saving \in [Instances -> SUBSET Updates]
    /\ bus \in SUBSET (Updates \X Instances) /\ unheard \in SUBSET (Updates \X Instances)

\* An update is inserted by the instance of its edit, which lets go of it at the commit.
SavedByOne ==
    /\ \A i, j \in Instances : saving[i] \cap saving[j] # {} => i = j
    /\ \A i \in Instances : \A u \in saving[i] : rowOf[u] \in {"none", "open"}

\* The advisory lock: nobody else changes the snapshot, and the rows read are there
\* until the compaction deletes them.
OneCompaction ==
    /\ \A i, j \in Instances : Compacting(i) /\ Compacting(j) => i = j
    /\ \A i \in Instances : Compacting(i) =>
         /\ compactor[i].rows \subseteq Log
         /\ compactor[i].merged = (compactor[i].rows \cup snapshot.merged)

\* Every room hears of an update that is not stored yet, or had its message already
\* and noted it as unheard, or has it; so a stored one is not missed either.
RoomsHeard ==
    /\ \A i \in Instances : \A u \in Stored :
         room[i].st \in {"read", "ready"} => u \in room[i].doc \/ <<u, i>> \in bus \cup unheard
    /\ \A i, j \in Instances : \A u \in saving[j] \ Stored :
         \/ room[i].st = "ready" /\ u \in room[i].doc
         \/ <<u, i>> \in bus \cup unheard

StoreInv == Shape /\ SavedByOne /\ OneCompaction

-----------------------------------------------------------------------------
(* The store *)

LEMMA StoreInit == DocInit => StoreInv
BY DEF DocInit, StoreInv, Shape, SavedByOne, OneCompaction, Compacting, None, Row

\* Steps that leave log, snapshot, compaction and inserts alone leave the store as it is.
LEMMA StoreSame ==
    ASSUME StoreInv, UNCHANGED <<rowOf, snapshot, compactor, saving>>, Shape'
    PROVE  StoreInv' /\ Stored' = Stored
BY DEF StoreInv, SavedByOne, OneCompaction, Compacting, Log, Stored

LEMMA InsertKeeps ==
    ASSUME StoreInv, NEW i \in Instances, NEW u \in Updates, Insert(i, u)
    PROVE  StoreInv' /\ Stored' = Stored
<1>1. rowOf' \in [Updates -> Row]
  BY DEF Insert, StoreInv, Shape, Row
<1>2. Log' = Log /\ Stored' = Stored
  BY DEF Insert, StoreInv, Shape, Log, Stored
<1>3. Shape'
  BY <1>1 DEF Insert, StoreInv, Shape
<1>4. SavedByOne'
  BY DEF Insert, StoreInv, Shape, SavedByOne
<1>5. OneCompaction'
  BY <1>2 DEF Insert, StoreInv, OneCompaction, Compacting
<1> QED
  BY <1>2, <1>3, <1>4, <1>5 DEF StoreInv

LEMMA CommitKeeps ==
    ASSUME StoreInv, NEW i \in Instances, NEW u \in Updates, Commit(i, u)
    PROVE  StoreInv' /\ Stored' = Stored \cup {u}
<1>1. Log' = Log \cup {u}
  BY DEF Commit, StoreInv, Shape, Log
<1>2. Stored' = Stored \cup {u}
  BY <1>1 DEF Commit, Stored
<1>3. rowOf' \in [Updates -> Row] /\ saving' \in [Instances -> SUBSET Updates]
  BY DEF Commit, StoreInv, Shape, Row
<1>4. Shape'
  BY <1>3 DEF Commit, StoreInv, Shape
<1>5. SavedByOne'
  BY DEF Commit, StoreInv, Shape, SavedByOne
<1>6. OneCompaction'
  BY <1>1 DEF Commit, StoreInv, OneCompaction, Compacting
<1> QED
  BY <1>2, <1>4, <1>5, <1>6 DEF StoreInv

LEMMA InsertFailsKeeps ==
    ASSUME StoreInv, NEW i \in Instances, NEW u \in Updates, InsertFails(i, u)
    PROVE  StoreInv' /\ Stored' = Stored
<1>1. rowOf' \in [Updates -> Row] /\ saving' \in [Instances -> SUBSET Updates]
  BY DEF InsertFails, StoreInv, Shape, Row
<1>2. Log' = Log
  BY DEF InsertFails, StoreInv, Shape, SavedByOne, Log
<1>3. Stored' = Stored
  BY <1>2 DEF InsertFails, Stored
<1>4. Shape'
  BY <1>1 DEF InsertFails, StoreInv, Shape
<1>5. SavedByOne'
  BY DEF InsertFails, StoreInv, Shape, SavedByOne
<1>6. OneCompaction'
  BY <1>2 DEF InsertFails, StoreInv, OneCompaction, Compacting
<1> QED
  BY <1>3, <1>4, <1>5, <1>6 DEF StoreInv

LEMMA BeginCompactKeeps ==
    ASSUME StoreInv, NEW i \in Instances, BeginCompact(i)
    PROVE  StoreInv' /\ Stored' = Stored
<1>1. Log' = Log /\ Stored' = Stored
  BY DEF BeginCompact, Log, Stored
<1>2. Shape'
  BY DEF BeginCompact, StoreInv, Shape, Log, DocumentState
<1>3. SavedByOne'
  BY DEF BeginCompact, StoreInv, SavedByOne
<1>4. OneCompaction'
  BY <1>1 DEF BeginCompact, StoreInv, Shape, OneCompaction, Compacting, DocumentState
<1> QED
  BY <1>1, <1>2, <1>3, <1>4 DEF StoreInv

\* Exactly the rows that the new snapshot holds go.
LEMMA CompactKeeps ==
    ASSUME StoreInv, NEW i \in Instances, Compact(i)
    PROVE  StoreInv' /\ Stored' = Stored
<1>1. /\ compactor[i].rows \subseteq Log
      /\ compactor[i].merged = compactor[i].rows \cup snapshot.merged
  BY DEF Compact, StoreInv, OneCompaction
<1>2. Log' = Log \ compactor[i].rows
  BY DEF Compact, Deleted, StoreInv, Shape, Log
<1>3. snapshot'.merged = compactor[i].merged
  BY DEF Compact
<1>4. Stored' = Stored
  BY <1>1, <1>2, <1>3 DEF Stored
<1>5. rowOf' \in [Updates -> Row]
  BY DEF Compact, StoreInv, Shape, Row
<1>6. compactor' \in [Instances -> [rows : SUBSET Updates, merged : SUBSET Updates]]
  BY DEF Compact, None, StoreInv, Shape
<1>7. compactor[i].merged \in SUBSET Updates
  BY DEF StoreInv, Shape
<1>8. Shape'
  BY <1>3, <1>5, <1>6, <1>7 DEF Compact, StoreInv, Shape
<1>9. SavedByOne'
  BY <1>1 DEF Compact, Deleted, StoreInv, Shape, SavedByOne, Log
<1>10. \A j \in Instances : ~Compacting(j)'
  BY DEF Compact, None, StoreInv, Shape, OneCompaction, Compacting
<1> QED
  BY <1>4, <1>8, <1>9, <1>10 DEF StoreInv, OneCompaction

LEMMA CompactFailsKeeps ==
    ASSUME StoreInv, NEW i \in Instances, CompactFails(i)
    PROVE  StoreInv' /\ Stored' = Stored
<1>1. Log' = Log /\ Stored' = Stored
  BY DEF CompactFails, Log, Stored
<1>2. Shape'
  BY DEF CompactFails, None, StoreInv, Shape
<1>3. SavedByOne'
  BY DEF CompactFails, StoreInv, SavedByOne
<1>4. OneCompaction'
  BY <1>1 DEF CompactFails, None, StoreInv, Shape, OneCompaction, Compacting
<1> QED
  BY <1>1, <1>2, <1>3, <1>4 DEF StoreInv

LEMMA CrashKeeps ==
    ASSUME StoreInv, NEW i \in Instances, InstanceCrash(i)
    PROVE  StoreInv' /\ Stored' = Stored
<1>1. rowOf' \in [Updates -> Row]
  BY DEF InstanceCrash, StoreInv, Shape, Row
<1>2. Log' = Log
  BY DEF InstanceCrash, StoreInv, Shape, SavedByOne, Log
<1>3. Stored' = Stored
  BY <1>2 DEF InstanceCrash, Stored
<1>4. /\ compactor' \in [Instances -> [rows : SUBSET Updates, merged : SUBSET Updates]]
      /\ saving' \in [Instances -> SUBSET Updates]
      /\ room' \in [Instances -> [st : {"absent", "loading", "read", "ready"},
                                  doc : SUBSET Updates]]
  BY DEF InstanceCrash, None, StoreInv, Shape
<1>5. bus' \in SUBSET (Updates \X Instances) /\ unheard' \in SUBSET (Updates \X Instances)
  BY DEF InstanceCrash, StoreInv, Shape
<1>6. Shape'
  BY <1>1, <1>4, <1>5 DEF InstanceCrash, StoreInv, Shape
<1>7. SavedByOne'
  BY DEF InstanceCrash, StoreInv, Shape, SavedByOne
<1>8. OneCompaction'
  BY <1>2 DEF InstanceCrash, None, StoreInv, Shape, OneCompaction, Compacting
<1> QED
  BY <1>3, <1>6, <1>7, <1>8 DEF StoreInv

LEMMA EditKeeps ==
    ASSUME StoreInv, NEW i \in Instances, NEW u \in Updates, Edit(i, u)
    PROVE  StoreInv' /\ Stored' = Stored
<1>1. Log' = Log /\ Stored' = Stored
  BY DEF Edit, Log, Stored
<1>2. room' \in [Instances -> [st : {"absent", "loading", "read", "ready"},
                               doc : SUBSET Updates]]
  BY DEF Edit, StoreInv, Shape
<1>3. saving' \in [Instances -> SUBSET Updates] /\ bus' \in SUBSET (Updates \X Instances)
  BY DEF Edit, Published, StoreInv, Shape
<1>4. Shape'
  BY <1>2, <1>3 DEF Edit, StoreInv, Shape
<1>5. SavedByOne'
  BY DEF Edit, StoreInv, Shape, SavedByOne
<1>6. OneCompaction'
  BY <1>1 DEF Edit, StoreInv, OneCompaction, Compacting
<1> QED
  BY <1>1, <1>4, <1>5, <1>6 DEF StoreInv

\* The life of a room and its messages.
RoomStep(i) ==
    \/ BeginLoad(i) \/ ReadState(i) \/ Hydrate(i) \/ LoadFails(i) \/ CloseRoom(i)
    \/ \E u \in Updates : Receive(i, u) \/ LoseMessage(i, u)

LEMMA RoomStepKeeps ==
    ASSUME StoreInv, NEW i \in Instances, RoomStep(i)
    PROVE  StoreInv' /\ Stored' = Stored
<1>1. UNCHANGED <<rowOf, snapshot, compactor, saving>>
  BY DEF RoomStep, BeginLoad, ReadState, Hydrate, LoadFails, CloseRoom, Receive, LoseMessage
<1>2. Stored \in SUBSET Updates
  BY DEF Stored, Log, StoreInv, Shape
<1>3. room' \in [Instances -> [st : {"absent", "loading", "read", "ready"},
                               doc : SUBSET Updates]]
  <2>1. CASE BeginLoad(i) \/ LoadFails(i) \/ CloseRoom(i)
    BY <2>1 DEF BeginLoad, LoadFails, CloseRoom, StoreInv, Shape
  <2>2. CASE ReadState(i)
    BY <2>2, <1>2 DEF ReadState, DocumentState, Stored, StoreInv, Shape
  <2>3. CASE Hydrate(i)
    BY <2>3 DEF Hydrate, StoreInv, Shape
  <2>4. ASSUME NEW u \in Updates, Receive(i, u) \/ LoseMessage(i, u)
        PROVE  room' \in [Instances -> [st : {"absent", "loading", "read", "ready"},
                                        doc : SUBSET Updates]]
    BY <2>4 DEF Receive, LoseMessage, StoreInv, Shape
  <2> QED
    BY <2>1, <2>2, <2>3, <2>4 DEF RoomStep
<1>4. bus' \in SUBSET (Updates \X Instances) /\ unheard' \in SUBSET (Updates \X Instances)
  BY <1>2 DEF RoomStep, BeginLoad, ReadState, Hydrate, LoadFails, CloseRoom, Receive, LoseMessage,
     StoreInv, Shape
<1>5. Shape'
  BY <1>1, <1>3, <1>4 DEF StoreInv, Shape
<1> QED
  BY <1>1, <1>5, StoreSame

LEMMA StoreNext ==
    StoreInv /\ [DocNext]_docVars => StoreInv' /\ Stored \subseteq Stored'
<1> SUFFICES ASSUME StoreInv, [DocNext]_docVars PROVE StoreInv' /\ Stored \subseteq Stored'
  OBVIOUS
<1>1. CASE UNCHANGED docVars
  BY <1>1, StoreSame DEF docVars, StoreInv, Shape
<1>2. ASSUME NEW i \in Instances, RoomStep(i) PROVE StoreInv' /\ Stored \subseteq Stored'
  BY <1>2, RoomStepKeeps
<1>3. ASSUME NEW i \in Instances,
             BeginCompact(i) \/ Compact(i) \/ CompactFails(i) \/ InstanceCrash(i)
      PROVE  StoreInv' /\ Stored \subseteq Stored'
  BY <1>3, BeginCompactKeeps, CompactKeeps, CompactFailsKeeps, CrashKeeps
<1>4. ASSUME NEW i \in Instances, NEW u \in Updates,
             Edit(i, u) \/ Insert(i, u) \/ Commit(i, u) \/ InsertFails(i, u)
      PROVE  StoreInv' /\ Stored \subseteq Stored'
  BY <1>4, EditKeeps, InsertKeeps, CommitKeeps, InsertFailsKeeps
<1> QED
  BY <1>1, <1>2, <1>3, <1>4 DEF DocNext, RoomStep

\* No step of any instance - inserts that commit late, compactions on old reads,
\* crashes - takes a committed update from what a load finds (compactDocument).
THEOREM NothingCommittedIsLost == DocSpec => CommittedStays
<1>1. StoreInv /\ [DocNext]_docVars => StoreInv'
  BY StoreNext
<1>2. StoreInv /\ [DocNext]_docVars => [Stored \subseteq Stored']_docVars
  BY StoreNext
<1> QED
  BY StoreInit, <1>1, <1>2, PTL DEF DocSpec, CommittedStays

-----------------------------------------------------------------------------
(* The rooms *)

LEMMA HeardInit == DocInit => RoomsHeard
BY DEF DocInit, RoomsHeard, Stored, Log

\* A room that opens, closes or loads.
LEMMA LifeHeard ==
    ASSUME StoreInv, RoomsHeard, NEW i \in Instances, Stored' = Stored,
           BeginLoad(i) \/ ReadState(i) \/ Hydrate(i) \/ LoadFails(i) \/ CloseRoom(i)
    PROVE  RoomsHeard'
<1>1. saving' = saving /\ bus' = bus
  BY DEF BeginLoad, ReadState, Hydrate, LoadFails, CloseRoom
<1>2. \A j \in Instances : j # i => room'[j] = room[j]
  BY DEF BeginLoad, ReadState, Hydrate, LoadFails, CloseRoom, StoreInv, Shape
<1>3. CASE BeginLoad(i) \/ LoadFails(i)
  <2>1. room'[i].st = "absent" \/ room'[i].st = "loading"
    BY <1>3 DEF BeginLoad, LoadFails, StoreInv, Shape
  <2>2. unheard' = unheard /\ room[i].st # "ready"
    BY <1>3 DEF BeginLoad, LoadFails
  <2> QED
    BY <1>1, <1>2, <2>1, <2>2 DEF RoomsHeard
<1>4. CASE ReadState(i)
  <2>1. room'[i].doc = Stored /\ room'[i].st = "read" /\ room[i].st # "ready"
    BY <1>4 DEF ReadState, DocumentState, Stored, StoreInv, Shape
  <2>2. unheard' = unheard \ (Stored \X {i})
    BY <1>4 DEF ReadState
  <2> QED
    BY <1>1, <1>2, <2>1, <2>2 DEF RoomsHeard
<1>5. CASE Hydrate(i)
  <2>1. room'[i].st = "ready" /\ room'[i].doc = room[i].doc /\ room[i].st = "read"
    BY <1>5 DEF Hydrate, StoreInv, Shape
  <2>2. unheard' = unheard
    BY <1>5 DEF Hydrate
  <2> QED
    BY <1>1, <1>2, <2>1, <2>2 DEF RoomsHeard
<1>6. CASE CloseRoom(i)
  <2>1. room'[i].st = "absent"
    BY <1>6 DEF CloseRoom, StoreInv, Shape
  <2>2. unheard' = unheard \cup ((room[i].doc \ Stored) \X {i})
    BY <1>6 DEF CloseRoom
  <2> QED
    BY <1>1, <1>2, <2>1, <2>2 DEF RoomsHeard
<1> QED
  BY <1>3, <1>4, <1>5, <1>6

\* A message that arrives is applied, or noted.
LEMMA MessageHeard ==
    ASSUME StoreInv, RoomsHeard, NEW i \in Instances, NEW u \in Updates, Stored' = Stored,
           Receive(i, u) \/ LoseMessage(i, u)
    PROVE  RoomsHeard'
<1>1. saving' = saving /\ bus' = bus \ {<<u, i>>}
  BY DEF Receive, LoseMessage
<1>2. \A j \in Instances : room'[j].st = room[j].st /\ room[j].doc \subseteq room'[j].doc
  BY DEF Receive, LoseMessage, StoreInv, Shape
<1>3. \/ room[i].st = "ready" /\ u \in room'[i].doc /\ unheard' = unheard
      \/ unheard' = unheard \cup {<<u, i>>}
  BY DEF Receive, LoseMessage, StoreInv, Shape
<1> QED
  BY <1>1, <1>2, <1>3 DEF RoomsHeard

LEMMA EditHeard ==
    ASSUME StoreInv, RoomsHeard, NEW i \in Instances, NEW u \in Updates, Stored' = Stored, Edit(i, u)
    PROVE  RoomsHeard'
<1>1. unheard' = unheard /\ bus' = bus \cup {<<u, j>> : j \in Instances \ {i}}
  BY DEF Edit, Published
<1>2. \A j \in Instances : room'[j].st = room[j].st /\ room[j].doc \subseteq room'[j].doc
  BY DEF Edit, StoreInv, Shape
<1>3. room[i].st = "ready" /\ u \in room'[i].doc
  BY DEF Edit, StoreInv, Shape
<1>4. \A j \in Instances : saving'[j] \subseteq saving[j] \cup {u}
  BY DEF Edit, StoreInv, Shape
<1> QED
  BY <1>1, <1>2, <1>3, <1>4 DEF RoomsHeard

\* The commit makes a row stored that every room had heard of.
LEMMA CommitHeard ==
    ASSUME StoreInv, RoomsHeard, NEW i \in Instances, NEW u \in Updates, Commit(i, u)
    PROVE  RoomsHeard'
<1>1. UNCHANGED <<room, bus, unheard>> /\ u \in saving[i]
  BY DEF Commit
<1>2. \A j \in Instances : saving'[j] \subseteq saving[j]
  BY DEF Commit, StoreInv, Shape
<1>3. Stored' = Stored \cup {u}
  BY CommitKeeps
<1> QED
  BY <1>1, <1>2, <1>3 DEF RoomsHeard

\* What only takes from the inserts, or is about compaction.
LEMMA StoreHeard ==
    ASSUME StoreInv, RoomsHeard, Stored' = Stored, UNCHANGED <<room, bus, unheard>>,
           \A j \in Instances : saving'[j] \subseteq saving[j]
    PROVE  RoomsHeard'
BY DEF RoomsHeard

LEMMA CrashHeard ==
    ASSUME StoreInv, RoomsHeard, NEW i \in Instances, Stored' = Stored, InstanceCrash(i)
    PROVE  RoomsHeard'
<1>1. \A j \in Instances : saving'[j] \subseteq saving[j]
  BY DEF InstanceCrash, StoreInv, Shape
<1>2. \A j \in Instances : j # i => room'[j] = room[j]
  BY DEF InstanceCrash, StoreInv, Shape
<1>3. room'[i].st = "absent"
  BY DEF InstanceCrash, StoreInv, Shape
<1>4. bus \cup unheard \subseteq bus' \cup unheard'
  BY DEF InstanceCrash
<1>5. (room[i].doc \ Stored) \X {i} \subseteq unheard'
  BY DEF InstanceCrash
<1> QED
  BY <1>1, <1>2, <1>3, <1>4, <1>5 DEF RoomsHeard

LEMMA HeardNext == StoreInv /\ RoomsHeard /\ [DocNext]_docVars => RoomsHeard'
<1> SUFFICES ASSUME StoreInv, RoomsHeard, [DocNext]_docVars PROVE RoomsHeard'
  OBVIOUS
<1>1. CASE UNCHANGED docVars
  BY <1>1 DEF docVars, RoomsHeard, Stored, Log
<1>2. ASSUME NEW i \in Instances, RoomStep(i) PROVE RoomsHeard'
  <2>1. Stored' = Stored
    BY <1>2, RoomStepKeeps
  <2> QED
    BY <1>2, <2>1, LifeHeard, MessageHeard DEF RoomStep
<1>3. ASSUME NEW i \in Instances, BeginCompact(i) \/ Compact(i) \/ CompactFails(i)
      PROVE  RoomsHeard'
  <2>1. Stored' = Stored
    BY <1>3, BeginCompactKeeps, CompactKeeps, CompactFailsKeeps
  <2>2. UNCHANGED <<room, bus, unheard, saving>>
    BY <1>3 DEF BeginCompact, Compact, CompactFails
  <2> QED
    BY <2>1, <2>2, StoreHeard
<1>4. ASSUME NEW i \in Instances, InstanceCrash(i) PROVE RoomsHeard'
  BY <1>4, CrashKeeps, CrashHeard
<1>5. ASSUME NEW i \in Instances, NEW u \in Updates, Edit(i, u) PROVE RoomsHeard'
  BY <1>5, EditKeeps, EditHeard
<1>6. ASSUME NEW i \in Instances, NEW u \in Updates, Commit(i, u) PROVE RoomsHeard'
  BY <1>6, CommitHeard
<1>7. ASSUME NEW i \in Instances, NEW u \in Updates, Insert(i, u) \/ InsertFails(i, u)
      PROVE  RoomsHeard'
  <2>1. Stored' = Stored
    BY <1>7, InsertKeeps, InsertFailsKeeps
  <2>2. UNCHANGED <<room, bus, unheard>>
    BY <1>7 DEF Insert, InsertFails
  <2>3. \A j \in Instances : saving'[j] \subseteq saving[j]
    BY <1>7 DEF Insert, InsertFails, StoreInv, Shape
  <2> QED
    BY <2>1, <2>2, <2>3, StoreHeard
<1> QED
  BY <1>1, <1>2, <1>3, <1>4, <1>5, <1>6, <1>7 DEF DocNext, RoomStep

\* A hydrated room lacks a stored update only while its message is on the way, or
\* lost, or came while the room was loading (rooms.ts).
THEOREM RoomsLackOnlyTheGap == DocSpec => []OnlyTheGap
<1>1. RoomsHeard => OnlyTheGap
  BY DEF RoomsHeard, OnlyTheGap
<1>2. StoreInv /\ [DocNext]_docVars => StoreInv'
  BY StoreNext
<1> QED
  BY StoreInit, HeardInit, <1>1, <1>2, HeardNext, PTL DEF DocSpec

-----------------------------------------------------------------------------
(* The ids *)

\* A set of numbers with a bound has a largest one.
LEMMA LargestIn ==
    ASSUME NEW N \in Nat, NEW S \in SUBSET (0 .. N), S # {}
    PROVE  \E n \in S : \A m \in S : m <= n
<1> DEFINE R == {N - m : m \in S}
<1>1. R \subseteq Nat /\ R # {}
  <2>1. \A m \in S : N - m \in Nat
    OBVIOUS
  <2>2. PICK m \in S : TRUE
    OBVIOUS
  <2>3. N - m \in R
    BY <2>2
  <2> QED
    BY <2>1, <2>3
<1>2. PICK r \in R : \A q \in R : ~ (<<q, r>> \in OpToRel(<, Nat))
  BY <1>1, WFMin, NatLessThanWellFounded, Zenon
<1>3. ASSUME NEW q \in R
      PROVE  r <= q
  <2>1. q \in Nat /\ r \in Nat
    BY <1>1
  <2>2. <<q, r>> \in OpToRel(<, Nat) <=> q < r
    BY <2>1, SMT DEF OpToRel
  <2>3. ~ (q < r)
    BY <1>2, <2>2, Zenon
  <2> QED
    BY <2>1, <2>3
<1>4. PICK n \in S : r = N - n
  OBVIOUS
<1>5. \A m \in S : m <= n
  <2> TAKE m \in S
  <2>1. N - m \in R
    OBVIOUS
  <2>2. r <= N - m
    BY <1>3, <2>1
  <2> QED
    BY <1>4, <2>2
<1> QED
  BY <1>5

Numbered == {u \in Updates : idOf[u] > 0}

\* The sequence hands out the ids one by one, so that none is beyond the number of
\* the updates that have one.
IdsInSequence ==
    /\ idOf \in [Updates -> Nat]
    /\ \A u \in Updates : idOf[u] <= Cardinality(Numbered)
    /\ \A u \in Updates : rowOf[u] = "none" => idOf[u] = 0

SnapshotType ==
    /\ snapshot \in [merged : SUBSET Updates, at : 0 .. Cardinality(Updates)]
    /\ docFaults \in Nat

LEMMA NumberedFacts ==
    /\ IsFiniteSet(Numbered) /\ Cardinality(Numbered) \in Nat /\ Cardinality(Updates) \in Nat
    /\ Cardinality(Numbered) <= Cardinality(Updates)
<1>1. IsFiniteSet(Updates) /\ Numbered \subseteq Updates
  BY DocAssumption DEF Numbered
<1> QED
  BY <1>1, FS_Subset, FS_CardinalityType

LEMMA IdsBounded ==
    ASSUME IdsInSequence
    PROVE  idOf \in [Updates -> 0 .. Cardinality(Updates)]
<1>1. \A u \in Updates : idOf[u] \in 0 .. Cardinality(Updates)
  BY NumberedFacts DEF IdsInSequence
<1> QED
  BY <1>1 DEF IdsInSequence

LEMMA LastIdFacts ==
    ASSUME IdsInSequence
    PROVE  LastId \in 0 .. Cardinality(Numbered) /\ \A u \in Updates : idOf[u] <= LastId
<1> DEFINE S == {idOf[u] : u \in Updates} \cup {0}
<1>1. Cardinality(Numbered) \in Nat /\ Cardinality(Numbered) <= Cardinality(Updates)
      /\ Cardinality(Updates) \in Nat
  BY NumberedFacts
<1>2. S \in SUBSET (0 .. Cardinality(Numbered))
  BY <1>1 DEF IdsInSequence
<1>3. PICK n \in S : \A m \in S : m <= n
  <2> HIDE DEF S
  <2>1. S # {}
    BY DEF S
  <2> QED
    BY <1>1, <1>2, <2>1, LargestIn
<1>4. /\ n \in 0 .. Cardinality(Updates) /\ \A u \in Updates : idOf[u] <= n
      /\ n = 0 \/ \E u \in Updates : idOf[u] = n
  BY <1>1, <1>2, <1>3
<1>5. /\ LastId \in 0 .. Cardinality(Updates) /\ \A u \in Updates : idOf[u] <= LastId
      /\ LastId = 0 \/ \E u \in Updates : idOf[u] = LastId
  BY <1>4, Zenon DEF LastId
<1> QED
  BY <1>1, <1>5 DEF IdsInSequence

LEMMA HighestIdFacts ==
    ASSUME IdsInSequence, NEW M \in SUBSET Updates, M # {}
    PROVE  HighestId(M) \in 0 .. Cardinality(Updates)
<1> DEFINE S == {idOf[u] : u \in M}
<1>1. Cardinality(Updates) \in Nat
  BY NumberedFacts
<1>2. S \in SUBSET (0 .. Cardinality(Updates)) /\ S # {}
  BY IdsBounded
<1>3. \E n \in S : \A u \in M : idOf[u] <= n
  <2>1. PICK n \in S : \A m \in S : m <= n
    <3> HIDE DEF S
    <3> QED
      BY <1>1, <1>2, LargestIn
  <2> QED
    BY <2>1
<1>4. HighestId(M) \in S
  BY <1>3, Zenon DEF HighestId
<1> QED
  BY <1>2, <1>4

LEMMA InsertNumbers ==
    ASSUME StoreInv, IdsInSequence, NEW i \in Instances, NEW u \in Updates, Insert(i, u)
    PROVE  IdsInSequence'
<1>1. /\ idOf \in [Updates -> Nat] /\ idOf[u] = 0
      /\ rowOf' = [rowOf EXCEPT ![u] = "open"]
      /\ idOf' = [idOf EXCEPT ![u] = LastId + 1]
      /\ rowOf \in [Updates -> Row]
  BY DEF Insert, IdsInSequence, StoreInv, Shape
<1>2. LastId \in Nat /\ LastId <= Cardinality(Numbered) /\ Cardinality(Numbered) \in Nat
  BY LastIdFacts, NumberedFacts
<1>3. idOf' \in [Updates -> Nat]
  BY <1>1, <1>2
<1>4. Numbered' = Numbered \cup {u} /\ u \notin Numbered
  BY <1>1, <1>2 DEF Numbered
<1>5. Cardinality(Numbered') = Cardinality(Numbered) + 1
  BY <1>4, NumberedFacts, FS_AddElement
<1>6. \A v \in Updates : idOf'[v] <= Cardinality(Numbered')
  BY <1>1, <1>2, <1>3, <1>5 DEF IdsInSequence
<1>7. \A v \in Updates : rowOf'[v] = "none" => idOf'[v] = 0
  BY <1>1 DEF IdsInSequence
<1> QED
  BY <1>3, <1>6, <1>7 DEF IdsInSequence

LEMMA IdsNext ==
    StoreInv /\ IdsInSequence /\ [DocNext]_docVars => IdsInSequence'
<1> SUFFICES ASSUME StoreInv, IdsInSequence, [DocNext]_docVars
             PROVE  IdsInSequence'
  OBVIOUS
<1>1. ASSUME NEW i \in Instances, NEW u \in Updates, Insert(i, u)
      PROVE  IdsInSequence'
  BY <1>1, InsertNumbers
<1>2. ASSUME UNCHANGED idOf, \A u \in Updates : rowOf'[u] = "none" => rowOf[u] = "none"
      PROVE  IdsInSequence'
  BY <1>2 DEF IdsInSequence, Numbered
<1>3. CASE UNCHANGED docVars
  BY <1>2, <1>3 DEF docVars
<1>4. ASSUME NEW i \in Instances, RoomStep(i) \/ BeginCompact(i) \/ CompactFails(i)
      PROVE  IdsInSequence'
  <2>1. UNCHANGED <<idOf, rowOf>>
    BY <1>4 DEF RoomStep, BeginLoad, ReadState, Hydrate, LoadFails, CloseRoom, Receive,
       LoseMessage, BeginCompact, CompactFails
  <2> QED
    BY <1>2, <2>1
<1>5. ASSUME NEW i \in Instances, Compact(i) \/ InstanceCrash(i)
      PROVE  IdsInSequence'
  <2>1. UNCHANGED idOf
    BY <1>5 DEF Compact, InstanceCrash
  <2>2. \A u \in Updates : rowOf'[u] = "none" => rowOf[u] = "none"
    BY <1>5 DEF Compact, InstanceCrash
  <2> QED
    BY <1>2, <2>1, <2>2
<1>6. ASSUME NEW i \in Instances, NEW u \in Updates,
             Edit(i, u) \/ Commit(i, u) \/ InsertFails(i, u)
      PROVE  IdsInSequence'
  <2>1. UNCHANGED idOf
    BY <1>6 DEF Edit, Commit, InsertFails
  <2>2. \A v \in Updates : rowOf'[v] = "none" => rowOf[v] = "none"
    BY <1>6 DEF Edit, Commit, InsertFails, StoreInv, Shape
  <2> QED
    BY <1>2, <2>1, <2>2
<1> QED
  BY <1>1, <1>3, <1>4, <1>5, <1>6 DEF DocNext, RoomStep

LEMMA SnapshotNext ==
    StoreInv /\ IdsInSequence /\ SnapshotType /\ [DocNext]_docVars => SnapshotType'
<1> SUFFICES ASSUME StoreInv, IdsInSequence, SnapshotType, [DocNext]_docVars
             PROVE  SnapshotType'
  OBVIOUS
<1>1. DocFault => docFaults' \in Nat
  BY DEF SnapshotType, DocFault
<1>2. ASSUME NEW i \in Instances, Compact(i)
      PROVE  SnapshotType'
  <2>1. compactor[i].merged \in SUBSET Updates /\ compactor[i].merged # {}
    BY <1>2 DEF Compact, Compacting, StoreInv, Shape, OneCompaction
  <2>2. HighestId(compactor[i].merged) \in 0 .. Cardinality(Updates)
    BY <2>1, HighestIdFacts
  <2>3. snapshot' = [merged |-> compactor[i].merged, at |-> HighestId(compactor[i].merged)]
        /\ UNCHANGED docFaults
    BY <1>2 DEF Compact
  <2> QED
    BY <2>1, <2>2, <2>3 DEF SnapshotType
<1>3. ASSUME UNCHANGED snapshot, UNCHANGED docFaults \/ DocFault
      PROVE  SnapshotType'
  BY <1>1, <1>3 DEF SnapshotType
<1>4. CASE UNCHANGED docVars
  BY <1>3, <1>4 DEF docVars
<1>5. ASSUME NEW i \in Instances, RoomStep(i) \/ BeginCompact(i) \/ CompactFails(i) \/ InstanceCrash(i)
      PROVE  SnapshotType'
  BY <1>3, <1>5 DEF RoomStep, BeginLoad, ReadState, Hydrate, LoadFails, CloseRoom, Receive,
     LoseMessage, BeginCompact, CompactFails, InstanceCrash
<1>6. ASSUME NEW i \in Instances, NEW u \in Updates,
             Edit(i, u) \/ Insert(i, u) \/ Commit(i, u) \/ InsertFails(i, u)
      PROVE  SnapshotType'
  BY <1>3, <1>6 DEF Edit, Insert, Commit, InsertFails
<1> QED
  BY <1>2, <1>4, <1>5, <1>6 DEF DocNext, RoomStep

\* The variables of a document have their types: no id is beyond the number of updates.
THEOREM DocTypeCorrect == DocSpec => []DocTypeOK
<1>1. DocInit => StoreInv /\ IdsInSequence /\ SnapshotType
  <2> SUFFICES ASSUME DocInit
               PROVE  StoreInv /\ IdsInSequence /\ SnapshotType
    OBVIOUS
  <2>1. IdsInSequence
    BY NumberedFacts DEF DocInit, IdsInSequence
  <2>2. SnapshotType
    BY NumberedFacts DEF DocInit, SnapshotType
  <2> QED
    BY <2>1, <2>2, StoreInit
<1>2. /\ StoreInv /\ IdsInSequence /\ SnapshotType /\ [DocNext]_docVars
      => (StoreInv /\ IdsInSequence /\ SnapshotType)'
  BY StoreNext, IdsNext, SnapshotNext
<1>3. StoreInv /\ IdsInSequence /\ SnapshotType => DocTypeOK
  BY IdsBounded DEF StoreInv, Shape, SnapshotType, DocTypeOK
<1> QED
  BY <1>1, <1>2, <1>3, PTL DEF DocSpec

-----------------------------------------------------------------------------
(* The sum of the services *)

\* A behaviour of the sum is one of each service, so that what is proved of a service
\* holds of the behaviours of the run.
LEMMA SumOfServices == Services => Spec /\ ClaimsSpec /\ DocSpec
<1>1. ServicesInit => Init /\ ClaimsInit /\ DocInit
  BY DEF ServicesInit
<1>2. [ServicesNext]_allVars => [Next]_vars /\ [ClaimsNext]_claimVars /\ [DocNext]_docVars
  BY DEF ServicesNext, allVars
<1> QED
  BY <1>1, <1>2, PTL DEF Services, Spec, ClaimsSpec, DocSpec

\* The state of every service keeps its type, whichever a behaviour runs.
THEOREM ServicesTypeCorrect == Services => []ServicesTypeOK
<1>1. TypeOK /\ ClaimsTypeOK /\ DocTypeOK => ServicesTypeOK
  BY DEF ServicesTypeOK
<1> QED
  BY <1>1, SumOfServices, TypeCorrect, ClaimsTypeCorrect, DocTypeCorrect, PTL
=============================================================================
