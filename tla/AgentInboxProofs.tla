------------------------- MODULE AgentInboxProofs -------------------------
(***************************************************************************)
(* Type correctness of AgentInbox, and that coalescing loses no wake.      *)
(*                                                                         *)
(* QuietMeansRead speaks of the idle daemon only.  Covered says at every   *)
(* step of a turn what will come back to an unread message: a wake under   *)
(* way, the timer, the rerun, the snapshot about to be taken or already    *)
(* taken, or - when unsure - a later drain.                                *)
(***************************************************************************)
EXTENDS AgentInbox, FiniteSetTheorems, TLAPS

Covers(i) ==
    \/ unsure \/ debounce \/ pc = "read"
    \/ i \in wakes
    \/ pc # "idle" /\ pendingRerun
    \/ pc \in {"gate", "engine", "skip", "ack"} /\ i \in rows

Covered == \A i \in AllUnread : Covers(i)

-----------------------------------------------------------------------------
(* Types *)

ServerOK == tx \in Seq(Tx) /\ cursor \in [Convs -> 0..Len(tx)] /\ wakes \subseteq DOMAIN tx

\* A transaction that changes its state leaves the order and the cursors typed.
LEMMA StateChange ==
    ASSUME TypeOK, NEW i \in DOMAIN tx, NEW st \in {"open", "posted", "overtaken", "failed"},
           tx' = [tx EXCEPT ![i].st = st]
    PROVE  tx' \in Seq(Tx) /\ Len(tx') = Len(tx) /\ DOMAIN tx' = DOMAIN tx
<1>1. tx \in Seq(Tx) BY DEF TypeOK
<1>2. tx[i] \in Tx BY <1>1
<1>3. [tx[i] EXCEPT !.st = st] \in Tx BY <1>2 DEF Tx
<1>4. tx' = [tx EXCEPT ![i] = [tx[i] EXCEPT !.st = st]] OBVIOUS
<1> QED BY <1>1, <1>3, <1>4

\* A new transaction.
LEMMA OneMore ==
    ASSUME TypeOK, NEW c \in Convs, NEW own \in BOOLEAN, Begin(c, own), cursor' = cursor
    PROVE  /\ tx' \in Seq(Tx) /\ Len(tx') = Len(tx) + 1
           /\ DOMAIN tx \subseteq DOMAIN tx'
           /\ cursor' \in [Convs -> 0..Len(tx')]
           /\ \A i \in DOMAIN tx : tx'[i] = tx[i]
           /\ \A i \in DOMAIN tx' : i \notin DOMAIN tx => tx'[i].st = "open"
<1> DEFINE e == [in |-> c, own |-> own, st |-> "open"]
<1>1. tx \in Seq(Tx) /\ cursor \in [Convs -> 0..Len(tx)] BY DEF TypeOK
<1>2. e \in Tx BY DEF Tx
<1>3. tx' = Append(tx, e) BY DEF Begin
<1> HIDE DEF e
<1>4. /\ tx' \in Seq(Tx) /\ Len(tx') = Len(tx) + 1
      /\ \A i \in 1..Len(tx) : tx'[i] = tx[i]
      /\ tx'[Len(tx) + 1] = e
  BY <1>1, <1>2, <1>3
<1>5. DOMAIN tx = 1..Len(tx) /\ DOMAIN tx' = 1..(Len(tx) + 1) /\ Len(tx) \in Nat
  BY <1>1, <1>4
<1>6. cursor' \in [Convs -> 0..Len(tx')]
  BY <1>1, <1>4, <1>5
<1>7. \A i \in DOMAIN tx' : i \notin DOMAIN tx => i = Len(tx) + 1
  BY <1>5
<1>8. e.st = "open" BY DEF e
<1> QED BY <1>4, <1>5, <1>6, <1>7, <1>8

\* Parts of TypeOK.
FlagsOK ==
    /\ pc \in Busy \cup {"idle"}
    /\ pendingRerun \in BOOLEAN /\ debounce \in BOOLEAN
    /\ backoff \in BOOLEAN /\ unsure \in BOOLEAN
BriefOK == brief \in [pending : BOOLEAN, active : BOOLEAN]
RowsOK == rows \subseteq DOMAIN tx /\ fetched \subseteq DOMAIN tx /\ shown \subseteq DOMAIN tx
CountOK == count \in [faults : Nat, briefs : Nat]

LEMMA Parts == TypeOK <=> ServerOK /\ FlagsOK /\ BriefOK /\ RowsOK /\ CountOK
<1>1. {pendingRerun, debounce, backoff, unsure} \subseteq BOOLEAN
      <=> /\ pendingRerun \in BOOLEAN /\ debounce \in BOOLEAN
          /\ backoff \in BOOLEAN /\ unsure \in BOOLEAN
  OBVIOUS
<1> QED
  BY <1>1 DEF TypeOK, ServerOK, FlagsOK, BriefOK, RowsOK, CountOK

\* The actions of the daemon alone, and those that reach the server.
DaemonStep ==
    \/ Read \/ Skip \/ StartEngine \/ EngineOk \/ AgendaOk \/ Loop
    \/ DebounceEnds \/ Poll \/ BackoffEnds \/ ManualWake \/ CatchUp \/ StartAgenda
    \/ ReadNothing \/ Abort \/ TriageTrouble \/ EngineFails \/ AgendaFails
    \/ \E c \in Convs : LoseAck(c) \/ Look(c) \/ Steer(c)

ServerStep ==
    \/ Crash
    \/ \E c \in Convs : AckSeen(c) \/ BeginPost(c) \/ Ack(c) \/ BeginReply(c)
    \/ \E i \in DOMAIN tx : Post(i) \/ Wake(i) \/ LoseWake(i) \/ Reply(i) \/ ReplyFails(i)

LEMMA TwoKinds == Next <=> DaemonStep \/ ServerStep
  BY DEF Next, Turn, DaemonStep, ServerStep

LEMMA DaemonAlone == DaemonStep => UNCHANGED server
<1>1. Read \/ ReadNothing => UNCHANGED server
  BY DEF Read, ReadNothing, TakeSnapshot
<1>2. Skip \/ StartEngine \/ EngineOk \/ AgendaOk \/ Loop \/ StartAgenda => UNCHANGED server
  BY DEF Skip, StartEngine, EngineOk, AgendaOk, Loop, StartAgenda
<1>3. DebounceEnds \/ Poll \/ BackoffEnds \/ ManualWake \/ CatchUp => UNCHANGED server
  BY DEF DebounceEnds, Poll, BackoffEnds, ManualWake, CatchUp
<1>4. Abort \/ TriageTrouble \/ EngineFails \/ AgendaFails => UNCHANGED server
  BY DEF Abort, TriageTrouble, EngineFails, AgendaFails
<1>5. \A c \in Convs : LoseAck(c) \/ Look(c) \/ Steer(c) => UNCHANGED server
  BY DEF LoseAck, Look, Steer
<1> QED
  BY <1>1, <1>2, <1>3, <1>4, <1>5 DEF DaemonStep

\* What Reply makes of the order.
LEMMA ReplyOrder ==
    ASSUME TypeOK, NEW i \in DOMAIN tx, Reply(i)
    PROVE  /\ tx' \in Seq(Tx) /\ Len(tx') = Len(tx) /\ DOMAIN tx' = DOMAIN tx
           /\ \A j \in DOMAIN tx : tx'[j].in = tx[j].in /\ tx'[j].own = tx[j].own
           /\ \A j \in DOMAIN tx : j # i /\ Visible(j)' => Visible(j)
           /\ tx[i].own
<1>1. tx \in Seq(Tx) /\ DOMAIN tx = 1..Len(tx) /\ Len(tx) \in Nat
  BY DEF TypeOK
<1> DEFINE ov(j) == j \in Posted(tx[i].in) /\ j \in i..cursor[tx[i].in]
           val(j) == IF j = i THEN [tx[j] EXCEPT !.st = "posted"]
                     ELSE IF ov(j) THEN [tx[j] EXCEPT !.st = "overtaken"] ELSE tx[j]
<1>2. tx' = [j \in 1..Len(tx) |-> val(j)]
  BY <1>1 DEF Reply
<1>3. \A j \in DOMAIN tx : tx[j] \in Tx
  BY <1>1
<1>4. \A t \in Tx, s \in {"posted", "overtaken"} :
         /\ [t EXCEPT !.st = s] \in Tx
         /\ [t EXCEPT !.st = s].in = t.in
         /\ [t EXCEPT !.st = s].own = t.own
  BY DEF Tx
<1>5. \A j \in DOMAIN tx : ov(j) => Visible(j)
  BY DEF Posted
<1> HIDE DEF ov
<1>6. \A j \in DOMAIN tx : val(j) \in Tx /\ val(j).in = tx[j].in /\ val(j).own = tx[j].own
  BY <1>3, <1>4
<1>7. \A j \in DOMAIN tx : j # i => val(j) = tx[j] \/ ov(j)
  OBVIOUS
<1> HIDE DEF val
<1>8. tx' \in Seq(Tx) /\ Len(tx') = Len(tx) /\ DOMAIN tx' = DOMAIN tx
      /\ \A j \in DOMAIN tx : tx'[j] = val(j)
  BY <1>1, <1>2, <1>6
<1>9. \A j \in DOMAIN tx : j # i /\ Visible(j)' => Visible(j)
  BY <1>5, <1>7, <1>8 DEF Visible
<1>10. tx[i].own
  BY DEF Reply, Replying
<1> QED
  BY <1>6, <1>8, <1>9, <1>10

-----------------------------------------------------------------------------
(* Type correctness, part by part *)

\* A cursor moved to a place in the order is a cursor.
LEMMA CursorMoves ==
    ASSUME TypeOK, Len(tx') = Len(tx), NEW c \in Convs, NEW n \in 0..Len(tx),
           cursor' = [cursor EXCEPT ![c] = n]
    PROVE  cursor' \in [Convs -> 0..Len(tx')]
  BY DEF TypeOK

LEMMA ServerTypes ==
    ASSUME TypeOK, Next
    PROVE  ServerOK' /\ DOMAIN tx \subseteq DOMAIN tx'
<1>1. /\ tx \in Seq(Tx) /\ cursor \in [Convs -> 0..Len(tx)] /\ wakes \subseteq DOMAIN tx
      /\ DOMAIN tx = 1..Len(tx) /\ Len(tx) \in Nat /\ rows \subseteq DOMAIN tx
  BY DEF TypeOK
<1>2. CASE DaemonStep
  BY <1>1, <1>2, DaemonAlone DEF server, ServerOK
<1>3. CASE Crash
  BY <1>1, <1>3 DEF Crash, ServerOK
<1>4. ASSUME NEW c \in Convs, BeginPost(c) PROVE ServerOK' /\ DOMAIN tx \subseteq DOMAIN tx'
  <2>1. Begin(c, FALSE) /\ cursor' = cursor /\ wakes' = wakes
    BY <1>4 DEF BeginPost
  <2> QED
    BY <1>1, <2>1, OneMore DEF ServerOK
<1>5. ASSUME NEW c \in Convs, BeginReply(c) PROVE ServerOK' /\ DOMAIN tx \subseteq DOMAIN tx'
  <2>1. Begin(c, TRUE) /\ cursor' = cursor /\ wakes' = wakes
    BY <1>5 DEF BeginReply
  <2> QED
    BY <1>1, <2>1, OneMore DEF ServerOK
<1>6. ASSUME NEW c \in Convs, Ack(c) PROVE ServerOK' /\ DOMAIN tx \subseteq DOMAIN tx'
  <2>1. tx' = tx /\ wakes' = wakes /\ cursor' = [cursor EXCEPT ![c] = Len(tx)]
    BY <1>6 DEF Ack
  <2>2. cursor' \in [Convs -> 0..Len(tx')]
    BY <1>1, <2>1, CursorMoves
  <2> QED
    BY <1>1, <2>1, <2>2 DEF ServerOK
<1>7. ASSUME NEW c \in Convs, AckSeen(c) PROVE ServerOK' /\ DOMAIN tx \subseteq DOMAIN tx'
  <2>1. PICK m \in Newest(Seen(c)) : cursor' = [cursor EXCEPT ![c] = IF m > @ THEN m ELSE @]
    BY <1>7 DEF AckSeen
  <2>2. m \in 1..Len(tx) /\ cursor[c] \in 0..Len(tx)
    BY <1>1 DEF Newest, Seen
  <2> DEFINE n == IF m > cursor[c] THEN m ELSE cursor[c]
  <2>3. n \in 0..Len(tx)
    BY <1>1, <2>2
  <2>4. cursor' = [cursor EXCEPT ![c] = n]
    BY <2>1
  <2> HIDE DEF n
  <2>5. tx' = tx /\ wakes' = wakes
    BY <1>7 DEF AckSeen
  <2>6. cursor' \in [Convs -> 0..Len(tx')]
    BY <2>3, <2>4, <2>5, CursorMoves
  <2> QED
    BY <1>1, <2>5, <2>6 DEF ServerOK
<1>8. ASSUME NEW i \in DOMAIN tx, Post(i) PROVE ServerOK' /\ DOMAIN tx \subseteq DOMAIN tx'
  <2> DEFINE s == IF \E j \in Posted(tx[i].in) : j > i THEN "overtaken" ELSE "posted"
  <2>1. tx' = [tx EXCEPT ![i].st = s]
    BY <1>8 DEF Post
  <2>2. s \in {"open", "posted", "overtaken", "failed"}
    OBVIOUS
  <2> HIDE DEF s
  <2>3. tx' \in Seq(Tx) /\ Len(tx') = Len(tx) /\ DOMAIN tx' = DOMAIN tx
    BY <2>1, <2>2, StateChange
  <2>4. wakes' = wakes \cup {i} /\ cursor' = cursor
    BY <1>8 DEF Post, WakeOf
  <2> QED
    BY <1>1, <2>3, <2>4 DEF ServerOK
<1>9. ASSUME NEW i \in DOMAIN tx, Wake(i) \/ LoseWake(i)
      PROVE  ServerOK' /\ DOMAIN tx \subseteq DOMAIN tx'
  <2>1. wakes' = wakes \ {i} /\ tx' = tx /\ cursor' = cursor
    BY <1>9 DEF Wake, LoseWake
  <2> QED
    BY <1>1, <2>1 DEF ServerOK
<1>10. ASSUME NEW i \in DOMAIN tx, Reply(i) PROVE ServerOK' /\ DOMAIN tx \subseteq DOMAIN tx'
  <2>1. cursor' = [cursor EXCEPT ![tx[i].in] = i] /\ wakes' = wakes
    BY <1>10 DEF Reply
  <2>2. tx[i].in \in Convs
    <3>1. tx[i] \in Tx
      BY <1>1
    <3> QED
      BY <3>1 DEF Tx
  <2>3. tx' \in Seq(Tx) /\ Len(tx') = Len(tx) /\ DOMAIN tx' = DOMAIN tx
    BY <1>10, ReplyOrder
  <2>4. i \in 0..Len(tx)
    BY <1>1
  <2>5. cursor' \in [Convs -> 0..Len(tx')]
    BY <2>1, <2>2, <2>3, <2>4, CursorMoves
  <2> QED
    BY <1>1, <2>1, <2>3, <2>5 DEF ServerOK
<1>11. ASSUME NEW i \in DOMAIN tx, ReplyFails(i)
       PROVE  ServerOK' /\ DOMAIN tx \subseteq DOMAIN tx'
  <2>1. tx' = [tx EXCEPT ![i].st = "failed"] /\ cursor' = cursor /\ wakes' = wakes
    BY <1>11 DEF ReplyFails
  <2>2. tx' \in Seq(Tx) /\ Len(tx') = Len(tx) /\ DOMAIN tx' = DOMAIN tx
    BY <2>1, StateChange
  <2> QED
    BY <1>1, <2>1, <2>2 DEF ServerOK
<1> QED
  BY <1>2, <1>3, <1>4, <1>5, <1>6, <1>7, <1>8, <1>9, <1>10, <1>11, TwoKinds DEF ServerStep

LEMMA LoopHead ==
    ASSUME FlagsOK
    PROVE  /\ EnterLoop => pc' \in Busy \cup {"idle"} /\ pendingRerun' \in BOOLEAN
                           /\ unsure' \in BOOLEAN
           /\ RunTurn => pc' \in Busy \cup {"idle"} /\ pendingRerun' \in BOOLEAN
                         /\ unsure' \in BOOLEAN
           /\ ScheduleWake => pendingRerun' \in BOOLEAN /\ debounce' \in BOOLEAN
<1>1. EnterLoop => pc' \in Busy \cup {"idle"} /\ pendingRerun' \in BOOLEAN
                   /\ unsure' \in BOOLEAN
  BY DEF FlagsOK, EnterLoop, Busy
<1>2. RunTurn => pc' \in Busy \cup {"idle"} /\ pendingRerun' \in BOOLEAN
                 /\ unsure' \in BOOLEAN
  BY <1>1 DEF FlagsOK, RunTurn
<1>3. ScheduleWake => pendingRerun' \in BOOLEAN /\ debounce' \in BOOLEAN
  BY DEF FlagsOK, ScheduleWake
<1> QED
  BY <1>1, <1>2, <1>3

LEMMA FlagTypes ==
    ASSUME FlagsOK, Next
    PROVE  FlagsOK'
<1>1. CASE Read \/ ReadNothing
  <2>1. unsure' = (rows' # AllUnread)
    BY <1>1 DEF Read, ReadNothing, TakeSnapshot
  <2>2. unsure' \in BOOLEAN
    BY <2>1
  <2> QED
    BY <1>1, <2>2 DEF FlagsOK, Read, ReadNothing, TakeSnapshot, Busy
<1>2. CASE Skip \/ StartEngine \/ EngineOk \/ AgendaOk \/ StartAgenda
  BY <1>2 DEF FlagsOK, Skip, StartEngine, EngineOk, AgendaOk, StartAgenda, Busy
<1>3. CASE Loop
  BY <1>3, LoopHead DEF FlagsOK, Loop
<1>4. CASE DebounceEnds \/ CatchUp
  BY <1>4, LoopHead DEF FlagsOK, DebounceEnds, CatchUp
<1>5. CASE Poll \/ ManualWake
  BY <1>5, LoopHead DEF FlagsOK, Poll, ManualWake
<1>6. CASE BackoffEnds
  BY <1>6 DEF FlagsOK, BackoffEnds
<1>7. CASE Abort \/ TriageTrouble \/ EngineFails \/ AgendaFails
  BY <1>7 DEF FlagsOK, Abort, TriageTrouble, EngineFails, AgendaFails, Busy
<1>8. CASE Crash
  BY <1>8 DEF FlagsOK, Crash
<1>9. ASSUME NEW c \in Convs,
             LoseAck(c) \/ Look(c) \/ Steer(c) \/ AckSeen(c) \/ BeginPost(c) \/ Ack(c)
             \/ BeginReply(c)
      PROVE  FlagsOK'
  BY <1>9 DEF FlagsOK, LoseAck, Look, Steer, AckSeen, BeginPost, Ack, BeginReply, turn
<1>10. ASSUME NEW i \in DOMAIN tx, Wake(i) PROVE FlagsOK'
  BY <1>10, LoopHead DEF FlagsOK, Wake
<1>11. ASSUME NEW i \in DOMAIN tx, Reply(i) PROVE FlagsOK'
  <2>1. unsure' \in BOOLEAN
    BY <1>11 DEF FlagsOK, Reply
  <2> QED
    BY <1>11, <2>1 DEF FlagsOK, Reply, turn
<1>12. ASSUME NEW i \in DOMAIN tx, Post(i) \/ LoseWake(i) \/ ReplyFails(i) PROVE FlagsOK'
  BY <1>12 DEF FlagsOK, Post, LoseWake, ReplyFails, turn
<1> QED
  BY <1>1, <1>2, <1>3, <1>4, <1>5, <1>6, <1>7, <1>8, <1>9, <1>10, <1>11, <1>12
  DEF Next, Turn

LEMMA BriefTypes ==
    ASSUME BriefOK, Next
    PROVE  BriefOK'
<1>1. /\ [brief EXCEPT !.pending = TRUE] \in [pending : BOOLEAN, active : BOOLEAN]
      /\ [brief EXCEPT !.active = FALSE] \in [pending : BOOLEAN, active : BOOLEAN]
      /\ brief.pending \in BOOLEAN /\ brief.active \in BOOLEAN
  BY DEF BriefOK
<1>2. /\ [pending |-> FALSE, active |-> brief.pending] \in [pending : BOOLEAN, active : BOOLEAN]
      /\ [pending |-> FALSE, active |-> FALSE] \in [pending : BOOLEAN, active : BOOLEAN]
      /\ PutBack \in [pending : BOOLEAN, active : BOOLEAN]
  BY <1>1 DEF PutBack
<1>3. CASE Read \/ ReadNothing
  BY <1>2, <1>3 DEF BriefOK, Read, ReadNothing, TakeSnapshot
<1>4. CASE EngineOk \/ ManualWake
  BY <1>1, <1>4 DEF BriefOK, EngineOk, ManualWake
<1>5. CASE Abort \/ EngineFails \/ Crash
  BY <1>2, <1>5 DEF BriefOK, Abort, EngineFails, Crash
<1>6. CASE \/ Skip \/ StartEngine \/ AgendaOk \/ Loop \/ DebounceEnds \/ Poll \/ BackoffEnds
           \/ CatchUp \/ StartAgenda \/ TriageTrouble \/ AgendaFails
  BY <1>6 DEF BriefOK, Skip, StartEngine, AgendaOk, Loop, DebounceEnds, Poll, BackoffEnds,
     CatchUp, StartAgenda, TriageTrouble, AgendaFails
<1>7. ASSUME NEW c \in Convs,
             LoseAck(c) \/ Look(c) \/ Steer(c) \/ AckSeen(c) \/ BeginPost(c) \/ Ack(c)
             \/ BeginReply(c)
      PROVE  BriefOK'
  BY <1>7 DEF BriefOK, LoseAck, Look, Steer, AckSeen, BeginPost, Ack, BeginReply, turn
<1>8. ASSUME NEW i \in DOMAIN tx, Wake(i) \/ Post(i) \/ LoseWake(i) \/ Reply(i) \/ ReplyFails(i)
      PROVE  BriefOK'
  BY <1>8 DEF BriefOK, Wake, Post, LoseWake, Reply, ReplyFails, turn
<1> QED
  BY <1>3, <1>4, <1>5, <1>6, <1>7, <1>8 DEF Next, Turn

\* What is unread can be seen, and so is in the order.
LEMMA UnreadInOrder == AllUnread \subseteq DOMAIN tx /\ \A c \in Convs : Unread(c) \subseteq DOMAIN tx
  BY DEF AllUnread, Unread, Posted

LEMMA RowTypes ==
    ASSUME TypeOK, Next
    PROVE  RowsOK'
<1>1. rows \subseteq DOMAIN tx /\ fetched \subseteq DOMAIN tx /\ shown \subseteq DOMAIN tx
  BY DEF TypeOK
<1>2. DOMAIN tx \subseteq DOMAIN tx'
  BY ServerTypes
<1> SUFFICES rows' \subseteq DOMAIN tx /\ fetched' \subseteq DOMAIN tx /\ shown' \subseteq DOMAIN tx
  BY <1>2 DEF RowsOK
<1>3. CASE Read
  <2>1. rows' = OldestFirst(AllUnread) /\ fetched' = OldestFirst(AllUnread) /\ shown' = shown
    BY <1>3 DEF Read, TakeSnapshot
  <2>2. OldestFirst(AllUnread) \subseteq DOMAIN tx
    BY UnreadInOrder DEF OldestFirst
  <2> QED
    BY <1>1, <2>1, <2>2
<1>12. CASE ReadNothing
  BY <1>1, <1>12 DEF ReadNothing, TakeSnapshot
<1>4. CASE Loop \/ Abort \/ TriageTrouble \/ Crash
  BY <1>4 DEF Loop, Abort, TriageTrouble, Crash, Forget
<1>5. CASE EngineFails
  BY <1>1, <1>5 DEF EngineFails
<1>6. CASE \/ Skip \/ StartEngine \/ EngineOk \/ AgendaOk \/ DebounceEnds \/ Poll \/ BackoffEnds
           \/ ManualWake \/ CatchUp \/ StartAgenda \/ AgendaFails
  BY <1>1, <1>6 DEF Skip, StartEngine, EngineOk, AgendaOk, DebounceEnds, Poll, BackoffEnds,
     ManualWake, CatchUp, StartAgenda, AgendaFails
<1>7. ASSUME NEW c \in Convs, LoseAck(c) \/ AckSeen(c)
      PROVE  rows' \subseteq DOMAIN tx /\ fetched' \subseteq DOMAIN tx /\ shown' \subseteq DOMAIN tx
  BY <1>1, <1>7 DEF LoseAck, AckSeen
<1>8. ASSUME NEW c \in Convs, Look(c)
      PROVE  rows' \subseteq DOMAIN tx /\ fetched' \subseteq DOMAIN tx /\ shown' \subseteq DOMAIN tx
  BY <1>1, <1>8 DEF Look, Posted, turn
<1>9. ASSUME NEW c \in Convs, Steer(c)
      PROVE  rows' \subseteq DOMAIN tx /\ fetched' \subseteq DOMAIN tx /\ shown' \subseteq DOMAIN tx
  <2>1. PICK m \in Newest(Unread(c)) : shown' = shown \cup {m}
    BY <1>9 DEF Steer
  <2>2. m \in DOMAIN tx
    BY UnreadInOrder DEF Newest
  <2> QED
    BY <1>1, <1>9, <2>1, <2>2 DEF Steer, turn
<1>10. ASSUME NEW c \in Convs, BeginPost(c) \/ Ack(c) \/ BeginReply(c)
       PROVE  rows' \subseteq DOMAIN tx /\ fetched' \subseteq DOMAIN tx /\ shown' \subseteq DOMAIN tx
  BY <1>1, <1>10 DEF BeginPost, Ack, BeginReply, turn
<1>11. ASSUME NEW i \in DOMAIN tx,
              Wake(i) \/ Post(i) \/ LoseWake(i) \/ Reply(i) \/ ReplyFails(i)
       PROVE  rows' \subseteq DOMAIN tx /\ fetched' \subseteq DOMAIN tx /\ shown' \subseteq DOMAIN tx
  BY <1>1, <1>11 DEF Wake, Post, LoseWake, Reply, ReplyFails, turn
<1> QED
  BY <1>3, <1>4, <1>5, <1>6, <1>7, <1>8, <1>9, <1>10, <1>11, <1>12 DEF Next, Turn

LEMMA CountTypes ==
    ASSUME CountOK, Next
    PROVE  CountOK'
<1>1. Fault => CountOK'
  BY DEF CountOK, Fault
<1>2. ManualWake => CountOK'
  BY DEF CountOK, ManualWake
<1>3. \/ Fault \/ ManualWake \/ UNCHANGED count
  <2>1. CASE Turn
    BY <2>1 DEF Turn, Read, Skip, StartEngine, EngineOk, AgendaOk, Loop, AckSeen
  <2>2. CASE ReadNothing \/ Abort \/ TriageTrouble \/ EngineFails \/ AgendaFails \/ Crash
    BY <2>2 DEF ReadNothing, Abort, TriageTrouble, EngineFails, AgendaFails, Crash
  <2>3. CASE DebounceEnds \/ Poll \/ BackoffEnds \/ CatchUp \/ StartAgenda
    BY <2>3 DEF DebounceEnds, Poll, BackoffEnds, CatchUp, StartAgenda
  <2>4. ASSUME NEW c \in Convs,
               BeginPost(c) \/ LoseAck(c) \/ Look(c) \/ Steer(c) \/ Ack(c) \/ BeginReply(c)
        PROVE  Fault \/ UNCHANGED count
    BY <2>4 DEF BeginPost, LoseAck, Look, Steer, Ack, BeginReply
  <2>5. ASSUME NEW i \in DOMAIN tx,
               Post(i) \/ Wake(i) \/ LoseWake(i) \/ Reply(i) \/ ReplyFails(i)
        PROVE  Fault \/ UNCHANGED count
    BY <2>5 DEF Post, Wake, LoseWake, Reply, ReplyFails
  <2> QED
    BY <2>1, <2>2, <2>3, <2>4, <2>5 DEF Next
<1> QED
  BY <1>1, <1>2, <1>3 DEF CountOK

LEMMA InitTypes == Init => TypeOK
<1> SUFFICES ASSUME Init PROVE TypeOK
  OBVIOUS
<1>1. tx = <<>> /\ cursor = [c \in Convs |-> 0] /\ wakes = {} /\ rows = {} /\ fetched = {} /\ shown = {}
  BY DEF Init
<1>2. ServerOK /\ RowsOK
  BY <1>1 DEF ServerOK, RowsOK
<1>3. FlagsOK
  BY DEF Init, FlagsOK
<1>4. BriefOK
  BY DEF Init, BriefOK
<1>5. CountOK
  BY DEF Init, CountOK
<1> QED
  BY <1>2, <1>3, <1>4, <1>5, Parts

LEMMA TypeStep == TypeOK /\ [Next]_vars => TypeOK'
<1>1. ASSUME TypeOK, Next PROVE TypeOK'
  <2>1. FlagsOK /\ BriefOK /\ CountOK
    BY <1>1, Parts
  <2>2. ServerOK' /\ FlagsOK' /\ BriefOK' /\ RowsOK' /\ CountOK'
    BY <1>1, <2>1, ServerTypes, FlagTypes, BriefTypes, RowTypes, CountTypes
  <2>3. {pendingRerun, debounce, backoff, unsure}' \subseteq BOOLEAN
    BY <2>2 DEF FlagsOK
  <2> QED
    BY <2>2, <2>3 DEF TypeOK, ServerOK, FlagsOK, BriefOK, RowsOK, CountOK
<1>2. TypeOK /\ UNCHANGED vars => TypeOK'
  BY DEF TypeOK, vars, server, turn
<1> QED
  BY <1>1, <1>2

\* Every state of the inbox and of the daemon's turn is well formed.
THEOREM TypeCorrect == Spec => []TypeOK
<1> QED
  BY InitTypes, TypeStep, PTL DEF Spec

-----------------------------------------------------------------------------
(* What a step makes unread *)

Missed(i) == i \in DOMAIN tx /\ Visible(i) /\ ~tx[i].own /\ i > cursor[tx[i].in]

LEMMA UnreadIsMissed ==
    ASSUME TypeOK
    PROVE  \A i : i \in AllUnread <=> Missed(i)
<1>1. \A i \in DOMAIN tx : tx[i].in \in Convs
  <2>1. \A i \in DOMAIN tx : tx[i] \in Tx
    BY DEF TypeOK
  <2> QED
    BY <2>1 DEF Tx
<1> QED
  BY <1>1 DEF AllUnread, Unread, Posted, Missed

LEMMA UnreadIsMissedNext ==
    ASSUME TypeOK'
    PROVE  \A i : i \in AllUnread' <=> Missed(i)'
<1>1. \A i \in DOMAIN tx' : tx'[i].in \in Convs
  <2>1. \A i \in DOMAIN tx' : tx'[i] \in Tx
    BY DEF TypeOK
  <2> QED
    BY <2>1 DEF Tx
<1> QED
  BY <1>1 DEF AllUnread, Unread, Posted, Missed

\* Cursors that only move on make nothing unread.
LEMMA CursorsMoveOn ==
    ASSUME TypeOK, TypeOK', tx' = tx, \A c \in Convs : cursor[c] <= cursor'[c]
    PROVE  AllUnread' \subseteq AllUnread
<1>1. SUFFICES ASSUME NEW i \in DOMAIN tx, Missed(i)' PROVE Missed(i)
  BY UnreadIsMissed, UnreadIsMissedNext DEF Missed
<1>2. tx[i] \in Tx /\ i \in Int
  BY DEF TypeOK
<1>3. tx[i].in \in Convs
  BY <1>2 DEF Tx
<1>4. cursor[tx[i].in] \in Int /\ cursor'[tx[i].in] \in Int
  BY <1>3 DEF TypeOK
<1>5. i > cursor'[tx[i].in] /\ cursor[tx[i].in] <= cursor'[tx[i].in]
  BY <1>1, <1>3 DEF Missed
<1>6. i > cursor[tx[i].in]
  BY <1>2, <1>4, <1>5
<1> QED
  BY <1>1, <1>6 DEF Missed, Visible

\* Acknowledgements make nothing unread.
LEMMA AcksMoveOn ==
    ASSUME TypeOK, TypeOK', NEW c \in Convs, AckSeen(c) \/ Ack(c)
    PROVE  tx' = tx /\ AllUnread' \subseteq AllUnread
<1>1. cursor \in [Convs -> 0..Len(tx)] /\ Len(tx) \in Nat
  BY DEF TypeOK
<1>2. CASE AckSeen(c)
  <2>1. tx' = tx
    BY <1>2 DEF AckSeen
  <2>2. PICK m \in Newest(Seen(c)) : cursor' = [cursor EXCEPT ![c] = IF m > @ THEN m ELSE @]
    BY <1>2 DEF AckSeen
  <2>3. m \in Int
    BY DEF Newest, Seen, TypeOK
  <2>4. \A b \in Convs : cursor[b] <= cursor'[b]
    BY <1>1, <2>2, <2>3
  <2> QED
    BY <2>1, <2>4, CursorsMoveOn
<1>3. CASE Ack(c)
  <2>1. tx' = tx /\ cursor' = [cursor EXCEPT ![c] = Len(tx)]
    BY <1>3 DEF Ack
  <2>2. \A b \in Convs : cursor[b] <= cursor'[b]
    BY <1>1, <2>1
  <2> QED
    BY <2>1, <2>2, CursorsMoveOn
<1> QED
  BY <1>2, <1>3

\* A transaction that begins shows nothing.
LEMMA BeginShowsNothing ==
    ASSUME TypeOK, TypeOK', NEW c \in Convs, NEW own \in BOOLEAN, Begin(c, own), cursor' = cursor
    PROVE  AllUnread' \subseteq AllUnread
<1>1. SUFFICES ASSUME NEW i, Missed(i)' PROVE Missed(i)
  BY UnreadIsMissed, UnreadIsMissedNext
<1>2. /\ \A j \in DOMAIN tx : tx'[j] = tx[j]
      /\ \A j \in DOMAIN tx' : j \notin DOMAIN tx => tx'[j].st = "open"
  BY OneMore
<1>3. i \in DOMAIN tx
  BY <1>1, <1>2 DEF Missed, Visible
<1> QED
  BY <1>1, <1>2, <1>3 DEF Missed, Visible

\* Nothing becomes unread but what is posted, and what a cursor moved back uncovers.
LEMMA NewlyUnread ==
    ASSUME TypeOK, TypeOK', Next
    PROVE  \A i \in AllUnread' : i \in AllUnread \/ i \in wakes' \/ unsure'
<1> DEFINE Goal == \A i \in AllUnread' : i \in AllUnread \/ i \in wakes' \/ unsure'
<1>1. ASSUME tx' = tx, cursor' = cursor PROVE Goal
  BY <1>1 DEF AllUnread, Unread, Posted, Visible
<1>2. CASE DaemonStep
  BY <1>1, <1>2, DaemonAlone DEF server
<1>3. CASE Crash
  BY <1>1, <1>3 DEF Crash
<1>4. ASSUME NEW c \in Convs, AckSeen(c) \/ Ack(c) PROVE Goal
  BY <1>4, AcksMoveOn
<1>6. ASSUME NEW c \in Convs, BeginPost(c) \/ BeginReply(c) PROVE Goal
  <2>1. cursor' = cursor /\ (Begin(c, FALSE) \/ Begin(c, TRUE))
    BY <1>6 DEF BeginPost, BeginReply
  <2> QED
    BY <2>1, BeginShowsNothing
<1>7. ASSUME NEW i \in DOMAIN tx, Post(i) PROVE Goal
  <2> DEFINE s == IF \E j \in Posted(tx[i].in) : j > i THEN "overtaken" ELSE "posted"
  <2>1. tx' = [tx EXCEPT ![i].st = s] /\ cursor' = cursor /\ i \in wakes'
    BY <1>7 DEF Post, WakeOf
  <2> HIDE DEF s
  <2>2. \A j \in DOMAIN tx : j # i => tx'[j] = tx[j]
    BY <2>1
  <2>3. DOMAIN tx' = DOMAIN tx
    BY <2>1
  <2>4. \A j : Missed(j)' => Missed(j) \/ j = i
    BY <2>1, <2>2, <2>3 DEF Missed, Visible
  <2> QED
    BY <2>1, <2>4, UnreadIsMissed, UnreadIsMissedNext
<1>8. ASSUME NEW i \in DOMAIN tx, Wake(i) \/ LoseWake(i) PROVE Goal
  BY <1>1, <1>8 DEF Wake, LoseWake
<1>9. ASSUME NEW i \in DOMAIN tx, Reply(i) PROVE Goal
  <2>1. CASE i < cursor[tx[i].in]
    BY <1>9, <2>1 DEF Reply
  <2>2. CASE ~(i < cursor[tx[i].in])
    <3>1. /\ DOMAIN tx' = DOMAIN tx /\ tx[i].own
          /\ \A j \in DOMAIN tx : tx'[j].in = tx[j].in /\ tx'[j].own = tx[j].own
          /\ \A j \in DOMAIN tx : j # i /\ Visible(j)' => Visible(j)
      BY <1>9, ReplyOrder
    <3>2. \A j \in DOMAIN tx : tx[j] \in Tx /\ j \in Int
      BY DEF TypeOK
    <3>3. \A j \in DOMAIN tx : tx[j].in \in Convs
      BY <3>2 DEF Tx
    <3>4. cursor' = [cursor EXCEPT ![tx[i].in] = i] /\ cursor \in [Convs -> 0..Len(tx)]
      BY <1>9 DEF Reply, TypeOK
    <3>5. \A c \in Convs : cursor[c] <= cursor'[c] /\ cursor[c] \in Int /\ cursor'[c] \in Int
      BY <2>2, <3>2, <3>3, <3>4
    <3>6. \A j \in DOMAIN tx : j > cursor'[tx[j].in] => j > cursor[tx[j].in]
      BY <3>2, <3>3, <3>5
    <3>7. \A j : Missed(j)' => Missed(j)
      BY <3>1, <3>6 DEF Missed
    <3> QED
      BY <3>7, UnreadIsMissed, UnreadIsMissedNext
  <2> QED
    BY <2>1, <2>2
<1>10. ASSUME NEW i \in DOMAIN tx, ReplyFails(i) PROVE Goal
  <2>1. tx' = [tx EXCEPT ![i].st = "failed"] /\ cursor' = cursor
    BY <1>10 DEF ReplyFails
  <2>2. \A j \in DOMAIN tx : j # i => tx'[j] = tx[j]
    BY <2>1
  <2>3. DOMAIN tx' = DOMAIN tx
    BY <2>1
  <2>4. tx[i] \in Tx /\ tx'[i] = [tx[i] EXCEPT !.st = "failed"]
    BY <2>1 DEF TypeOK
  <2>5. tx'[i].st = "failed"
    BY <2>4 DEF Tx
  <2>6. \A j : Missed(j)' => Missed(j)
    BY <2>1, <2>2, <2>3, <2>5 DEF Missed, Visible
  <2> QED
    BY <2>6, UnreadIsMissed, UnreadIsMissedNext
<1> QED
  BY <1>2, <1>3, <1>4, <1>6, <1>7, <1>8, <1>9, <1>10, TwoKinds DEF ServerStep

\* What ackSeen takes from the snapshot is read.
LEMMA SeenIsRead ==
    ASSUME TypeOK, TypeOK', NEW c \in Convs, AckSeen(c)
    PROVE  \A i \in AllUnread' : i \notin Seen(c)
<1>1. SUFFICES ASSUME NEW i \in Seen(c), Missed(i)' PROVE FALSE
  BY UnreadIsMissedNext
<1>2. PICK m \in Newest(Seen(c)) : cursor' = [cursor EXCEPT ![c] = IF m > @ THEN m ELSE @]
  BY DEF AckSeen
<1>3. i \in DOMAIN tx /\ m \in DOMAIN tx /\ tx[i].in = c /\ i <= m
  BY DEF Seen, Newest, TypeOK
<1>4. i \in Int /\ m \in Int /\ cursor[c] \in Int
  BY <1>3 DEF TypeOK
<1>5. i <= cursor'[c]
  BY <1>2, <1>3, <1>4 DEF TypeOK
<1>6. i > cursor'[c]
  BY <1>1, <1>3 DEF Missed, AckSeen
<1>7. cursor'[c] \in Int
  BY DEF TypeOK
<1> QED
  BY <1>4, <1>5, <1>6, <1>7

-----------------------------------------------------------------------------
(* What comes back to an unread message *)

\* A wake, a timer or a poll leaves something that will drain the inbox.
LEMMA WaysIn ==
    ASSUME NEW i, ~unsure'
    PROVE  /\ EnterLoop => pc' = "read"
           /\ RunTurn => pc' = "read" \/ (pc' # "idle" /\ pendingRerun')
           /\ ScheduleWake /\ pc' = pc => debounce' \/ (pc' # "idle" /\ pendingRerun')
<1>1. EnterLoop => pc' = "read"
  BY DEF EnterLoop
<1>2. RunTurn => pc' = "read" \/ (pc' # "idle" /\ pendingRerun')
  BY <1>1 DEF RunTurn
<1>3. ScheduleWake /\ pc' = pc => debounce' \/ (pc' # "idle" /\ pendingRerun')
  BY DEF ScheduleWake
<1> QED
  BY <1>1, <1>2, <1>3

LEMMA CoveredStep ==
    ASSUME TypeOK, TypeOK', Covered, Next
    PROVE  Covered'
<1>1. SUFFICES ASSUME NEW i \in AllUnread', ~unsure', i \notin wakes' PROVE Covers(i)'
  BY DEF Covered, Covers
<1>2. i \in AllUnread
  BY <1>1, NewlyUnread
<1>3. Covers(i)
  BY <1>2 DEF Covered
<1>4. CASE Read \/ ReadNothing
  <2>1. pc' = "gate" /\ unsure' = (rows' # AllUnread)
    BY <1>4 DEF Read, ReadNothing, TakeSnapshot
  <2>2. i \in rows'
    BY <1>1, <1>2, <2>1
  <2> QED
    BY <2>1, <2>2 DEF Covers
<1>5. CASE Skip \/ StartEngine \/ EngineOk \/ AgendaOk \/ AgendaFails \/ BackoffEnds
  BY <1>1, <1>3, <1>5
  DEF Covers, Skip, StartEngine, EngineOk, AgendaOk, AgendaFails, BackoffEnds, server
<1>6. CASE StartAgenda
  BY <1>1, <1>3, <1>6 DEF Covers, StartAgenda, server
<1>7. CASE Loop
  <2>1. CASE pendingRerun /\ EnterLoop
    BY <1>1, <2>1, WaysIn DEF Covers
  <2>2. CASE ~pendingRerun
    BY <1>1, <1>3, <1>7, <2>2 DEF Covers, Loop, server
  <2> QED
    BY <1>7, <2>1, <2>2 DEF Loop
<1>8. CASE DebounceEnds \/ CatchUp
  BY <1>1, <1>8, WaysIn DEF Covers, DebounceEnds, CatchUp
<1>9. CASE Poll \/ ManualWake
  BY <1>1, <1>9, WaysIn DEF Covers, Poll, ManualWake
<1>10. CASE Abort \/ TriageTrouble \/ EngineFails \/ Crash
  BY <1>1, <1>10 DEF Abort, TriageTrouble, EngineFails, Crash
<1>11. ASSUME NEW c \in Convs, LoseAck(c) PROVE Covers(i)'
  BY <1>1, <1>11 DEF LoseAck
<1>12. ASSUME NEW c \in Convs, Look(c) \/ Steer(c) PROVE Covers(i)'
  BY <1>1, <1>3, <1>12 DEF Covers, Look, Steer, server, turn
<1>13. ASSUME NEW c \in Convs, BeginPost(c) \/ Ack(c) \/ BeginReply(c) PROVE Covers(i)'
  BY <1>1, <1>3, <1>13 DEF Covers, BeginPost, Ack, BeginReply, turn
<1>14. ASSUME NEW c \in Convs, AckSeen(c) PROVE Covers(i)'
  <2>1. i \notin Seen(c)
    BY <1>1, <1>14, SeenIsRead
  <2>2. rows' = rows \ Seen(c)
        /\ UNCHANGED <<wakes, pc, pendingRerun, debounce, unsure>>
    BY <1>14 DEF AckSeen
  <2> QED
    BY <1>1, <1>3, <2>1, <2>2 DEF Covers
<1>15. ASSUME NEW j \in DOMAIN tx, Wake(j) PROVE Covers(i)'
  BY <1>1, <1>15, WaysIn DEF Covers, Wake
<1>16. ASSUME NEW j \in DOMAIN tx, LoseWake(j) PROVE Covers(i)'
  BY <1>1, <1>16 DEF LoseWake
<1>17. ASSUME NEW j \in DOMAIN tx, Post(j) PROVE Covers(i)'
  BY <1>1, <1>3, <1>17 DEF Covers, Post, turn
<1>18. ASSUME NEW j \in DOMAIN tx, Reply(j) PROVE Covers(i)'
  <2>1. ~unsure
    BY <1>1, <1>18 DEF Reply
  <2> QED
    BY <1>1, <1>3, <1>18, <2>1 DEF Covers, Reply, turn
<1>19. ASSUME NEW j \in DOMAIN tx, ReplyFails(j) PROVE Covers(i)'
  BY <1>1, <1>3, <1>19 DEF Covers, ReplyFails, turn
<1> QED
  BY <1>4, <1>5, <1>6, <1>7, <1>8, <1>9, <1>10, <1>11, <1>12, <1>13, <1>14, <1>15, <1>16,
     <1>17, <1>18, <1>19 DEF Next, Turn

\* Nothing is unread before anything is posted.
LEMMA CoveredInit == Init => Covered
<1>1. Init => AllUnread = {}
  BY DEF Init, AllUnread, Unread, Posted
<1> QED
  BY <1>1 DEF Covered

LEMMA CoveredIdle == Covered => QuietMeansRead
  BY DEF Covered, Covers, QuietMeansRead

\* Whatever wakes, timers, reruns, replies and failures interleave, a daemon that
\* is quiet after an undisturbed drain has left nothing unread: the coalescing of
\* scheduleWake, pendingRerun and debounce loses no wake.
THEOREM CoalescingIsSafe == Spec => []QuietMeansRead
<1>1. TypeOK /\ TypeOK' /\ Covered /\ [Next]_vars => Covered'
  <2>1. ASSUME UNCHANGED vars, Covered PROVE Covered'
    BY <2>1 DEF Covered, Covers, AllUnread, Unread, Posted, Visible, vars, server, turn
  <2> QED
    BY <2>1, CoveredStep
<1> QED
  BY <1>1, CoveredInit, CoveredIdle, TypeCorrect, PTL DEF Spec

-----------------------------------------------------------------------------
(* What an acknowledgement covers *)

\* An unread message below a row of the snapshot was fetched, or came in below it.
Below(r, i) ==
    tx[i].in = tx[r].in /\ i <= r => i \in fetched \/ tx[i].st = "overtaken"

RowsFetched ==
    /\ rows \subseteq fetched
    /\ \A r \in rows : Visible(r)
    /\ \A r \in rows, i \in AllUnread : Below(r, i)

\* The oldest Limit rows of a set hold with a row every older one.
LEMMA OldestAreBelow ==
    ASSUME TypeOK, NEW S \in SUBSET DOMAIN tx, NEW r \in OldestFirst(S), NEW i \in S, i <= r
    PROVE  i \in OldestFirst(S)
<1> DEFINE older(k) == {j \in S : j < k}
<1>1. DOMAIN tx = 1..Len(tx) /\ Len(tx) \in Nat
  BY DEF TypeOK
<1>2. IsFiniteSet(S)
  <2>1. IsFiniteSet(1..Len(tx))
    BY <1>1, FS_Interval
  <2> QED
    BY <1>1, <2>1, FS_Subset
<1>3. i \in Int /\ r \in Int /\ \A j \in S : j \in Int
  BY <1>1 DEF OldestFirst
<1>4. older(i) \subseteq older(r) /\ older(r) \subseteq S
  BY <1>3
<1>5. IsFiniteSet(older(r))
  BY <1>2, <1>4, FS_Subset
<1>6. Cardinality(older(i)) <= Cardinality(older(r))
  BY <1>4, <1>5, FS_Subset
<1>7. Cardinality(older(i)) \in Nat /\ Cardinality(older(r)) \in Nat
  BY <1>4, <1>5, FS_Subset, FS_CardinalityType
<1>8. Cardinality(older(r)) < Limit
  BY DEF OldestFirst
<1>9. Limit \in Nat
  BY InboxAssumption
<1> HIDE DEF older
<1>10. Cardinality(older(i)) < Limit
  BY <1>6, <1>7, <1>8, <1>9
<1> QED
  BY <1>10 DEF OldestFirst, older

\* Steps that make nothing unread and take no snapshot.
LEMMA RowsFetchedStays ==
    ASSUME TypeOK, RowsFetched, rows' \subseteq rows, fetched' = fetched \/ rows' = {},
           \A j \in DOMAIN tx : tx'[j] = tx[j], AllUnread' \subseteq AllUnread
    PROVE  RowsFetched'
<1>1. CASE rows' = {}
  BY <1>1 DEF RowsFetched
<1>2. CASE fetched' = fetched
  <2>1. rows \subseteq DOMAIN tx /\ AllUnread \subseteq DOMAIN tx
    BY UnreadInOrder DEF TypeOK
  <2>2. \A i \in DOMAIN tx : Visible(i) => Visible(i)'
    BY DEF Visible
  <2>3. \A r, i \in DOMAIN tx : Below(r, i) => Below(r, i)'
    BY <1>2 DEF Below
  <2>4. rows' \subseteq fetched' /\ \A r \in rows' : Visible(r)'
    BY <1>2, <2>1, <2>2 DEF RowsFetched
  <2>5. \A r \in rows', i \in AllUnread' : Below(r, i)'
    BY <2>1, <2>3 DEF RowsFetched
  <2> QED
    BY <2>4, <2>5 DEF RowsFetched
<1> QED
  BY <1>1, <1>2

\* The snapshot itself.
LEMMA SnapshotBelow ==
    ASSUME TypeOK, TypeOK', Read
    PROVE  RowsFetched'
<1>1. rows' = OldestFirst(AllUnread) /\ fetched' = rows' /\ tx' = tx /\ cursor' = cursor
  BY DEF Read, TakeSnapshot, server
<1>2. AllUnread' = AllUnread
  BY <1>1 DEF AllUnread, Unread, Posted, Visible
<1>3. AllUnread \in SUBSET DOMAIN tx
  BY UnreadInOrder
<1>4. \A r \in rows' : Visible(r)'
  BY <1>1, UnreadIsMissed DEF OldestFirst, Missed, Visible
<1>5. \A r \in rows', i \in AllUnread' : Below(r, i)'
  BY <1>1, <1>2, <1>3, OldestAreBelow DEF Below
<1> QED
  BY <1>1, <1>4, <1>5 DEF RowsFetched

\* A message that becomes visible below a row is overtaken.
LEMMA PostBelowRows ==
    ASSUME TypeOK, TypeOK', RowsFetched, NEW k \in DOMAIN tx, Post(k)
    PROVE  RowsFetched'
<1> DEFINE s == IF \E j \in Posted(tx[k].in) : j > k THEN "overtaken" ELSE "posted"
<1>1. tx' = [tx EXCEPT ![k].st = s] /\ cursor' = cursor /\ rows' = rows /\ fetched' = fetched
  BY DEF Post, turn
<1>2. tx[k].st = "open" /\ tx[k] \in Tx /\ rows \subseteq DOMAIN tx
  BY DEF Post, TypeOK
<1>3. s \in {"posted", "overtaken"}
  OBVIOUS
<1>4. ASSUME NEW r \in rows, tx[r].in = tx[k].in, k <= r PROVE s = "overtaken"
  <2>1. Visible(r) /\ r # k
    BY <1>2 DEF RowsFetched, Visible
  <2>2. r \in Int /\ k \in Int
    BY <1>2 DEF TypeOK
  <2>3. r \in Posted(tx[k].in) /\ r > k
    BY <1>2, <1>4, <2>1, <2>2 DEF Posted
  <2> QED
    BY <2>3
<1> HIDE DEF s
<1>5. tx'[k] = [tx[k] EXCEPT !.st = s] /\ DOMAIN tx' = DOMAIN tx
      /\ \A j \in DOMAIN tx : j # k => tx'[j] = tx[j]
  BY <1>1
<1>6. tx'[k].st = s /\ tx'[k].in = tx[k].in
  BY <1>2, <1>5 DEF Tx
<1>7. \A r \in rows : r # k
  BY <1>2 DEF RowsFetched, Visible
<1>8. \A r \in rows : Visible(r)'
  BY <1>2, <1>5, <1>7 DEF RowsFetched, Visible
<1>9. ASSUME NEW r \in rows, NEW i \in AllUnread' PROVE Below(r, i)'
  <2>1. CASE i = k
    BY <1>2, <1>4, <1>5, <1>6, <1>7, <2>1 DEF Below
  <2>2. CASE i # k
    <3>1. i \in AllUnread
      BY <1>1, <1>5, <2>2, UnreadIsMissed, UnreadIsMissedNext DEF Missed, Visible
    <3>2. i \in DOMAIN tx
      BY <3>1, UnreadInOrder
    <3>3. Below(r, i)
      BY <3>1 DEF RowsFetched
    <3> QED
      BY <1>1, <1>2, <1>5, <1>7, <2>2, <3>2, <3>3 DEF Below
  <2> QED
    BY <2>1, <2>2
<1> QED
  BY <1>1, <1>8, <1>9 DEF RowsFetched

\* What a reply that moves the cursor back makes unread is overtaken.
LEMMA ReplyBelowRows ==
    ASSUME TypeOK, TypeOK', RowsFetched, NEW k \in DOMAIN tx, Reply(k)
    PROVE  RowsFetched'
<1>1. /\ DOMAIN tx' = DOMAIN tx /\ tx[k].own
      /\ \A j \in DOMAIN tx : tx'[j].in = tx[j].in /\ tx'[j].own = tx[j].own
      /\ \A j \in DOMAIN tx : j # k /\ Visible(j)' => Visible(j)
  BY ReplyOrder
<1>2. /\ rows \subseteq DOMAIN tx /\ rows' = rows /\ fetched' = fetched
      /\ tx[k].st = "open" /\ cursor' = [cursor EXCEPT ![tx[k].in] = k]
      /\ \A j \in DOMAIN tx : tx[j] \in Tx /\ j \in Int
      /\ cursor \in [Convs -> 0..Len(tx)]
  BY DEF Reply, Replying, TypeOK, turn
<1>3. \A j \in DOMAIN tx : j # k =>
         tx'[j] = tx[j] \/ tx'[j] = [tx[j] EXCEPT !.st = "overtaken"]
  BY DEF Reply
<1>4. \A t \in Tx : [t EXCEPT !.st = "overtaken"].st = "overtaken"
  BY DEF Tx
<1>5. ASSUME NEW j \in DOMAIN tx, j # k
      PROVE  tx'[j].st = tx[j].st \/ tx'[j].st = "overtaken"
  <2>1. tx[j] \in Tx
    BY <1>2
  <2>2. CASE tx'[j] = tx[j]
    BY <2>2
  <2>3. CASE tx'[j] = [tx[j] EXCEPT !.st = "overtaken"]
    BY <1>4, <2>1, <2>3
  <2> QED
    BY <1>3, <1>5, <2>2, <2>3
<1>6. \A r \in rows : r # k /\ Visible(r)'
  BY <1>2, <1>5 DEF RowsFetched, Visible
<1>7. ASSUME NEW r \in rows, NEW i \in AllUnread' PROVE Below(r, i)'
  <2>1. i \in DOMAIN tx /\ Visible(i)' /\ ~tx[i].own /\ i > cursor'[tx[i].in]
    BY <1>1, UnreadIsMissedNext DEF Missed
  <2>2. i # k /\ Visible(i)
    BY <1>1, <2>1
  <2>3. CASE i \in AllUnread
    <3>1. Below(r, i)
      BY <2>3 DEF RowsFetched
    <3> QED
      BY <1>1, <1>2, <1>5, <2>1, <2>2, <3>1 DEF Below
  <2>4. CASE i \notin AllUnread
    <3>1. tx[i].in \in Convs /\ tx[k].in \in Convs
      BY <1>2, <2>1 DEF Tx
    <3>2. ~(i > cursor[tx[i].in]) /\ cursor[tx[i].in] \in Int
      BY <1>2, <2>1, <2>2, <2>4, <3>1, UnreadIsMissed DEF Missed
    <3>3. tx[i].in = tx[k].in
      BY <1>2, <2>1, <3>1, <3>2
    <3>4. cursor'[tx[k].in] = k
      BY <1>2, <3>1
    <3>5. i \in k..cursor[tx[k].in]
      BY <1>2, <2>1, <3>2, <3>3, <3>4
    <3>6. i \in Posted(tx[k].in)
      BY <2>1, <2>2, <3>3 DEF Posted
    <3>7. tx'[i] = [tx[i] EXCEPT !.st = "overtaken"]
      BY <2>1, <2>2, <3>5, <3>6 DEF Reply
    <3>8. tx'[i].st = "overtaken"
      BY <1>2, <1>4, <2>1, <3>7
    <3> QED
      BY <3>8 DEF Below
  <2> QED
    BY <2>3, <2>4
<1> QED
  BY <1>2, <1>6, <1>7 DEF RowsFetched

LEMMA ReplyFailsBelowRows ==
    ASSUME TypeOK, TypeOK', RowsFetched, NEW k \in DOMAIN tx, ReplyFails(k)
    PROVE  RowsFetched'
<1>1. /\ tx' = [tx EXCEPT ![k].st = "failed"] /\ cursor' = cursor
      /\ rows' = rows /\ fetched' = fetched /\ tx[k].st = "open"
      /\ tx[k] \in Tx /\ rows \subseteq DOMAIN tx
  BY DEF ReplyFails, Replying, TypeOK, turn
<1>2. DOMAIN tx' = DOMAIN tx /\ tx'[k] = [tx[k] EXCEPT !.st = "failed"]
      /\ \A j \in DOMAIN tx : j # k => tx'[j] = tx[j]
  BY <1>1
<1>3. tx'[k].st = "failed"
  BY <1>1, <1>2 DEF Tx
<1>4. \A r \in rows : r # k /\ Visible(r)'
  BY <1>1, <1>2 DEF RowsFetched, Visible
<1>5. ASSUME NEW r \in rows, NEW i \in AllUnread' PROVE Below(r, i)'
  <2>1. i \in DOMAIN tx /\ i # k /\ i \in AllUnread
    BY <1>1, <1>2, <1>3, UnreadIsMissed, UnreadIsMissedNext DEF Missed, Visible
  <2>2. Below(r, i)
    BY <2>1 DEF RowsFetched
  <2> QED
    BY <1>1, <1>2, <1>4, <2>1, <2>2 DEF Below
<1> QED
  BY <1>1, <1>4, <1>5 DEF RowsFetched

LEMMA RowsFetchedStep ==
    ASSUME TypeOK, TypeOK', RowsFetched, Next
    PROVE  RowsFetched'
<1>1. ASSUME UNCHANGED server, rows' \subseteq rows, fetched' = fetched \/ rows' = {}
      PROVE  RowsFetched'
  <2>1. tx' = tx /\ cursor' = cursor
    BY <1>1 DEF server
  <2>2. AllUnread' = AllUnread
    BY <2>1 DEF AllUnread, Unread, Posted, Visible
  <2> QED
    BY <1>1, <2>1, <2>2, RowsFetchedStays
<1>2. CASE Read
  BY <1>2, SnapshotBelow
<1>3. CASE ReadNothing
  BY <1>3 DEF ReadNothing, TakeSnapshot, RowsFetched
<1>4. CASE Loop \/ Abort \/ TriageTrouble \/ Crash
  BY <1>4 DEF Loop, Abort, TriageTrouble, Crash, Forget, RowsFetched
<1>5. CASE EngineFails
  BY <1>5 DEF EngineFails, RowsFetched
<1>6. CASE \/ Skip \/ StartEngine \/ EngineOk \/ AgendaOk \/ DebounceEnds \/ Poll \/ BackoffEnds
           \/ ManualWake \/ CatchUp \/ StartAgenda \/ AgendaFails
  <2>1. UNCHANGED <<rows, fetched>>
    BY <1>6 DEF Skip, StartEngine, EngineOk, AgendaOk, DebounceEnds, Poll, BackoffEnds,
       ManualWake, CatchUp, StartAgenda, AgendaFails
  <2>2. UNCHANGED server
    BY <1>6, DaemonAlone DEF DaemonStep
  <2> QED
    BY <1>1, <2>1, <2>2
<1>7. ASSUME NEW c \in Convs, LoseAck(c) \/ Look(c) \/ Steer(c) PROVE RowsFetched'
  <2>1. rows' \subseteq rows /\ fetched' = fetched
    BY <1>7 DEF LoseAck, Look, Steer, turn
  <2>2. UNCHANGED server
    BY <1>7, DaemonAlone DEF DaemonStep
  <2> QED
    BY <1>1, <2>1, <2>2
<1>8. ASSUME NEW c \in Convs, AckSeen(c) \/ Ack(c) PROVE RowsFetched'
  <2>1. rows' \subseteq rows /\ fetched' = fetched
    BY <1>8 DEF AckSeen, Ack, turn
  <2> QED
    BY <1>8, <2>1, AcksMoveOn, RowsFetchedStays
<1>9. ASSUME NEW c \in Convs, BeginPost(c) \/ BeginReply(c) PROVE RowsFetched'
  <2>1. cursor' = cursor /\ rows' = rows /\ fetched' = fetched
        /\ (Begin(c, FALSE) \/ Begin(c, TRUE))
    BY <1>9 DEF BeginPost, BeginReply, turn
  <2> QED
    BY <2>1, OneMore, BeginShowsNothing, RowsFetchedStays
<1>10. ASSUME NEW k \in DOMAIN tx, Wake(k) \/ LoseWake(k) PROVE RowsFetched'
  <2>1. tx' = tx /\ cursor' = cursor /\ rows' = rows /\ fetched' = fetched
    BY <1>10 DEF Wake, LoseWake, turn
  <2>2. AllUnread' = AllUnread
    BY <2>1 DEF AllUnread, Unread, Posted, Visible
  <2> QED
    BY <2>1, <2>2, RowsFetchedStays
<1>11. ASSUME NEW k \in DOMAIN tx, Post(k) \/ Reply(k) \/ ReplyFails(k) PROVE RowsFetched'
  BY <1>11, PostBelowRows, ReplyBelowRows, ReplyFailsBelowRows
<1> QED
  BY <1>2, <1>3, <1>4, <1>5, <1>6, <1>7, <1>8, <1>9, <1>10, <1>11 DEF Next, Turn

-----------------------------------------------------------------------------
(* The digest *)

\* The rows of a few conversations, none with more than n of them, are at most n times
\* as many as the conversations: each has one of n places in its own.
LEMMA FewRows ==
    ASSUME TypeOK, NEW S \in SUBSET DOMAIN tx, NEW n \in Nat, NEW Q \in SUBSET Rooms(S),
           NEW D \in SUBSET S, \A d \in Q : Cardinality(RowsOf(S, d)) <= n
    PROVE  /\ IsFiniteSet(Q) /\ Cardinality(Q) \in Nat
           /\ Cardinality({i \in D : tx[i].in \in Q}) \in Nat
           /\ Cardinality({i \in D : tx[i].in \in Q}) <= Cardinality(Q) * n
<1> DEFINE U == {i \in D : tx[i].in \in Q}
           older(i) == {j \in RowsOf(S, tx[i].in) : j < i}
           place == [i \in U |-> <<tx[i].in, Cardinality(older(i))>>]
<1>1. IsFiniteSet(S) /\ \A i \in S : i \in Int
  <2>1. DOMAIN tx = 1..Len(tx) /\ Len(tx) \in Nat
    BY DEF TypeOK
  <2>2. IsFiniteSet(1..Len(tx))
    BY <2>1, FS_Interval
  <2> QED
    BY <2>1, <2>2, FS_Subset
<1>2. IsFiniteSet(Q) /\ Cardinality(Q) \in Nat
  <2>1. [i \in S |-> tx[i].in] \in Surjection(S, Rooms(S))
    BY DEF Surjection, Rooms
  <2> QED
    BY <1>1, <2>1, FS_Surjection, FS_Subset, FS_CardinalityType
<1>3. ASSUME NEW c PROVE IsFiniteSet(RowsOf(S, c)) /\ Cardinality(RowsOf(S, c)) \in Nat
  <2>1. RowsOf(S, c) \in SUBSET S
    BY DEF RowsOf
  <2> QED
    BY <1>1, <2>1, FS_Subset, FS_CardinalityType
<1>4. ASSUME NEW i \in U
      PROVE  /\ Cardinality(older(i)) \in 0..n - 1
             /\ i \in RowsOf(S, tx[i].in) /\ tx[i].in \in Q /\ i \in S
  <2>1. i \in RowsOf(S, tx[i].in) /\ tx[i].in \in Q /\ i \in S
    BY DEF RowsOf
  <2>2. older(i) \in SUBSET RowsOf(S, tx[i].in) /\ i \notin older(i)
    BY <1>1, <2>1
  <2>3. IsFiniteSet(RowsOf(S, tx[i].in)) /\ Cardinality(RowsOf(S, tx[i].in)) \in Nat
        /\ Cardinality(RowsOf(S, tx[i].in)) <= n
    BY <1>3, <2>1
  <2> HIDE DEF older
  <2>4. Cardinality(older(i)) \in Nat /\ Cardinality(older(i)) <= Cardinality(RowsOf(S, tx[i].in))
        /\ Cardinality(older(i)) # Cardinality(RowsOf(S, tx[i].in))
    BY <2>1, <2>2, <2>3, FS_Subset, FS_CardinalityType
  <2> QED
    BY <2>1, <2>3, <2>4
<1>5. ASSUME NEW i \in U, NEW k \in U, tx[i].in = tx[k].in, i < k
      PROVE  Cardinality(older(i)) # Cardinality(older(k))
  <2>1. i \in S /\ k \in S /\ i \in Int /\ k \in Int /\ i \in RowsOf(S, tx[k].in)
    BY <1>1, <1>4, <1>5
  <2>2. \A j \in RowsOf(S, tx[k].in) : j \in Int
    BY <1>1 DEF RowsOf
  <2>3. older(i) \in SUBSET older(k) /\ i \in older(k) /\ i \notin older(i)
    <3>1. RowsOf(S, tx[i].in) = RowsOf(S, tx[k].in)
      BY <1>5
    <3>2. older(i) = {j \in RowsOf(S, tx[k].in) : j < i}
      BY <3>1
    <3>3. \A j \in RowsOf(S, tx[k].in) : j < i => j < k
      BY <1>5, <2>1, <2>2
    <3>4. older(i) \in SUBSET older(k)
      BY <3>2, <3>3
    <3>5. i \in older(k) /\ i \notin older(i)
      BY <1>5, <2>1
    <3> QED
      BY <3>4, <3>5
  <2>4. older(k) \in SUBSET RowsOf(S, tx[k].in)
    OBVIOUS
  <2>5. IsFiniteSet(older(k))
    BY <1>3, <2>4, FS_Subset
  <2> QED
    BY <2>3, <2>5, FS_Subset
<1>6. place \in Injection(U, Q \X (0..n - 1))
  <2>1. place \in [U -> Q \X (0..n - 1)]
    BY <1>4
  <2>2. ASSUME NEW i \in U, NEW k \in U, place[i] = place[k] PROVE i = k
    <3>1. tx[i].in = tx[k].in /\ Cardinality(older(i)) = Cardinality(older(k))
      BY <2>2
    <3>2. ~(i < k) /\ ~(k < i)
      BY <1>5, <3>1
    <3>3. i \in Int /\ k \in Int
      BY <1>1, <1>4
    <3> QED
      BY <3>2, <3>3
  <2> HIDE DEF place
  <2> QED
    BY <2>1, <2>2 DEF Injection, IsInjective
<1>7. IsFiniteSet(0..n - 1) /\ Cardinality(0..n - 1) = n
  <2>1. \A a, b \in Int : /\ IsFiniteSet(a..b)
                          /\ Cardinality(a..b) = IF a > b THEN 0 ELSE b - a + 1
    BY FS_Interval, Zenon
  <2>2. 0 \in Int /\ n - 1 \in Int
    OBVIOUS
  <2>3. IsFiniteSet(0..n - 1) /\ Cardinality(0..n - 1) = IF 0 > n - 1 THEN 0 ELSE n - 1 - 0 + 1
    BY <2>1, <2>2
  <2> QED
    BY <2>3
<1>8. IsFiniteSet(Q \X (0..n - 1)) /\ Cardinality(Q \X (0..n - 1)) = Cardinality(Q) * n
  BY <1>2, <1>7, FS_Product
<1> HIDE DEF place, U
<1>9. IsFiniteSet(U) /\ Cardinality(U) <= Cardinality(Q) * n
  BY <1>6, <1>8, FS_Injection
<1> QED
  BY <1>2, <1>9, FS_CardinalityType DEF U

\* What is left of a budget of b lines after k of m conversations with at most n rows
\* each is enough for n rows of every other, if b is enough for n rows of all m.
LEMMA EnoughLeft ==
    ASSUME NEW b \in Nat, NEW m \in Nat, NEW k \in Nat, NEW n \in Nat, NEW u \in Nat,
           k < m, u <= k * n, n * m <= b
    PROVE  n <= (b - u) \div (m - k)
<1> DEFINE d == (b - u) \div (m - k)
<1>1. m - k \in Nat /\ m - k > 0
  OBVIOUS
<1>2. (m - k) * n <= b - u /\ b - u \in Nat
  <2>1. k * n \in Nat /\ n * m \in Nat /\ (m - k) * n = n * m - k * n
    OBVIOUS
  <2> QED
    BY <2>1
<1>3. d \in Int /\ b - u < (m - k) * (d + 1)
  BY <1>1, <1>2
<1> HIDE DEF d
<1>4. (m - k) * n < (m - k) * (d + 1)
  <2>1. (m - k) * n \in Int /\ (m - k) * (d + 1) \in Int
    BY <1>1, <1>3
  <2> QED
    BY <1>2, <1>3, <2>1
<1>5. n < d + 1
  BY <1>1, <1>3, <1>4
<1> QED
  BY <1>3, <1>5 DEF d

\* A row without a line is in a conversation with more rows than an even share.
LEMMA LeftOut ==
    ASSUME TypeOK, NEW S \in SUBSET DOMAIN tx, NEW D \in SUBSET S, Digest(S, D),
           NEW r \in S, r \notin D
    PROVE  Cardinality(RowsOf(S, tx[r].in)) * Cardinality(Rooms(S)) > DigestLines
<1> DEFINE c == tx[r].in
           n == Cardinality(RowsOf(S, c))
           quieter == {d \in Rooms(S) : Quieter(S, d, c)}
           used == Cardinality({i \in D : tx[i].in \in quieter})
<1>1. IsFiniteSet(S) /\ \A i \in S : i \in Int
  <2>1. DOMAIN tx = 1..Len(tx) /\ Len(tx) \in Nat
    BY DEF TypeOK
  <2>2. IsFiniteSet(1..Len(tx))
    BY <2>1, FS_Interval
  <2> QED
    BY <2>1, <2>2, FS_Subset
<1>2. ASSUME NEW e PROVE IsFiniteSet(RowsOf(S, e)) /\ Cardinality(RowsOf(S, e)) \in Nat
  <2>1. RowsOf(S, e) \in SUBSET S
    BY DEF RowsOf
  <2> QED
    BY <1>1, <2>1, FS_Subset, FS_CardinalityType
<1>3. n \in Nat /\ c \in Rooms(S) /\ r \in RowsOf(S, c)
  BY <1>2 DEF Rooms, RowsOf
<1>4. c \notin quieter
  <2>1. \A i \in RowsOf(S, c) : i \in Int
    BY <1>1 DEF RowsOf
  <2> QED
    BY <1>3, <2>1 DEF Quieter
<1>5. \A d \in quieter : Cardinality(RowsOf(S, d)) <= n
  BY <1>2, <1>3 DEF Quieter
<1>6. quieter \in SUBSET Rooms(S)
  OBVIOUS
<1>7. ~(n <= EvenShare(S, D, c))
  <2>1. RowsOf(D, c) \in SUBSET RowsOf(S, c) /\ r \notin RowsOf(D, c)
    BY DEF RowsOf
  <2>2. Cardinality(RowsOf(D, c)) # n
    BY <1>2, <1>3, <2>1, FS_Subset
  <2> QED
    BY <1>3, <2>2 DEF Digest
<1>8. EvenShare(S, D, c) =
        (DigestLines - used) \div Cardinality(Rooms(S) \ quieter)
  BY DEF EvenShare
<1> HIDE DEF quieter, n
<1>9. /\ IsFiniteSet(quieter) /\ Cardinality(quieter) \in Nat
      /\ used \in Nat /\ used <= Cardinality(quieter) * n
  BY <1>3, <1>5, <1>6, FewRows
<1>10. /\ IsFiniteSet(Rooms(S)) /\ Cardinality(Rooms(S)) \in Nat
       /\ Cardinality(Rooms(S) \ quieter) = Cardinality(Rooms(S)) - Cardinality(quieter)
       /\ Cardinality(quieter) < Cardinality(Rooms(S))
  <2>1. [i \in S |-> tx[i].in] \in Surjection(S, Rooms(S))
    BY DEF Surjection, Rooms
  <2>2. IsFiniteSet(Rooms(S)) /\ Cardinality(Rooms(S)) \in Nat
    BY <1>1, <2>1, FS_Surjection, FS_CardinalityType
  <2>3. Rooms(S) \cap quieter = quieter
    BY <1>6
  <2>4. Cardinality(Rooms(S) \ quieter) = Cardinality(Rooms(S)) - Cardinality(quieter)
    BY <2>2, <2>3, FS_Difference
  <2>5. Cardinality(quieter) <= Cardinality(Rooms(S)) /\ Cardinality(quieter) # Cardinality(Rooms(S))
    BY <1>3, <1>4, <1>6, <2>2, FS_Subset
  <2> QED
    BY <1>9, <2>2, <2>4, <2>5
<1>11. DigestLines \in Nat
  BY InboxAssumption
<1> HIDE DEF used
<1>12. ASSUME n * Cardinality(Rooms(S)) <= DigestLines PROVE FALSE
  <2>1. n <= (DigestLines - used) \div (Cardinality(Rooms(S)) - Cardinality(quieter))
    BY <1>3, <1>9, <1>10, <1>11, <1>12, EnoughLeft
  <2> QED
    BY <1>7, <1>8, <1>10, <2>1
<1>13. n * Cardinality(Rooms(S)) \in Int
  BY <1>3, <1>10
<1> QED
  BY <1>11, <1>12, <1>13 DEF n

\* What the turn still has to acknowledge is whole conversations of its snapshot, each row
\* shown or of a conversation over its share.
RowsDue ==
    /\ \A r \in rows, i \in fetched : tx[i].in = tx[r].in => i \in rows
    /\ pc = "gate" => rows = fetched
    /\ pc = "agenda" => rows = {}
    /\ pc \in {"engine", "ack"} => \A r \in rows : r \in shown \/ OverShare(r)

\* Steps that leave the snapshot and the conversations of its rows alone.
LEMMA DueStays ==
    ASSUME TypeOK, RowsDue, rows' = rows, fetched' = fetched, shown \subseteq shown',
           \A j \in DOMAIN tx : tx'[j].in = tx[j].in,
           \/ pc' = pc
           \/ pc' \in {"idle", "read", "skip"}
           \/ pc = "engine" /\ pc' = "ack"
           \/ rows = {} /\ pc' # "gate"
    PROVE  RowsDue'
<1>1. rows \subseteq DOMAIN tx /\ fetched \subseteq DOMAIN tx
  BY DEF TypeOK
<1>2. Rooms(fetched)' = Rooms(fetched) /\ \A i \in DOMAIN tx :
         RowsOf(fetched, tx[i].in)' = RowsOf(fetched, tx[i].in)
  BY <1>1 DEF Rooms, RowsOf
<1>3. \A r \in DOMAIN tx : OverShare(r) => OverShare(r)'
  BY <1>2 DEF OverShare
<1>4. \A r \in rows', i \in fetched' : tx'[i].in = tx'[r].in => i \in rows'
  BY <1>1 DEF RowsDue
<1>5. (pc' = "gate" => rows' = fetched') /\ (pc' = "agenda" => rows' = {})
  BY DEF RowsDue
<1>6. pc' \in {"engine", "ack"} => \A r \in rows' : r \in shown' \/ OverShare(r)'
  BY <1>1, <1>3 DEF RowsDue
<1> QED
  BY <1>4, <1>5, <1>6 DEF RowsDue

\* The turn takes its prompt.
LEMMA PromptIsDue ==
    ASSUME TypeOK, RowsDue, StartEngine
    PROVE  RowsDue'
<1>1. PICK D \in SUBSET rows : Digest(rows, D) /\ shown' = D
  BY DEF StartEngine
<1>2. /\ pc = "gate" /\ pc' = "engine" /\ rows' = rows /\ fetched' = fetched /\ tx' = tx
      /\ rows = fetched /\ rows \subseteq DOMAIN tx
  BY DEF StartEngine, RowsDue, server, TypeOK
<1>3. \A r \in rows : r \in D \/ OverShare(r)
  BY <1>1, <1>2, LeftOut DEF OverShare
<1>4. \A r \in rows : OverShare(r) <=> OverShare(r)'
  BY <1>2 DEF OverShare, Rooms, RowsOf
<1> QED
  BY <1>1, <1>2, <1>3, <1>4 DEF RowsDue

\* A conversation that is acknowledged, or whose acknowledgement is lost, is off the list.
LEMMA AckedIsDone ==
    ASSUME TypeOK, RowsDue, NEW c \in Convs, AckSeen(c) \/ LoseAck(c)
    PROVE  RowsDue'
<1>1. /\ rows' = rows \ Seen(c) /\ fetched' = fetched /\ tx' = tx /\ shown' = shown
      /\ pc' = pc /\ pc \in {"skip", "ack"}
  BY DEF AckSeen, LoseAck, server
<1>2. \A r \in rows' : r \in rows /\ tx[r].in # c
  BY <1>1 DEF Seen
<1>3. \A i \in rows : tx[i].in # c => i \in rows'
  BY <1>1 DEF Seen
<1>4. \A r \in rows : OverShare(r) <=> OverShare(r)'
  BY <1>1 DEF OverShare, Rooms, RowsOf
<1>5. \A r \in rows', i \in fetched' : tx'[i].in = tx'[r].in => i \in rows'
  BY <1>1, <1>2, <1>3 DEF RowsDue
<1>6. pc' \in {"engine", "ack"} => \A r \in rows' : r \in shown' \/ OverShare(r)'
  BY <1>1, <1>2, <1>4 DEF RowsDue
<1> QED
  BY <1>1, <1>5, <1>6 DEF RowsDue

\* No transaction changes its conversation.
LEMMA SameConversation ==
    ASSUME TypeOK, NEW k \in DOMAIN tx, Post(k) \/ Reply(k) \/ ReplyFails(k)
    PROVE  \A j \in DOMAIN tx : tx'[j].in = tx[j].in
<1>1. CASE Reply(k)
  BY <1>1, ReplyOrder
<1>2. CASE Post(k) \/ ReplyFails(k)
  <2>1. PICK st : tx' = [tx EXCEPT ![k].st = st]
    BY <1>2 DEF Post, ReplyFails
  <2>2. tx[k] \in Tx
    BY DEF TypeOK
  <2>3. [tx[k] EXCEPT !.st = st].in = tx[k].in
    BY <2>2 DEF Tx
  <2> QED
    BY <2>1, <2>3
<1> QED
  BY <1>1, <1>2

LEMMA RowsDueStep ==
    ASSUME TypeOK, RowsFetched, RowsDue, Next
    PROVE  RowsDue'
<1>1. CASE Read \/ ReadNothing
  BY <1>1 DEF Read, ReadNothing, TakeSnapshot, RowsDue
<1>2. CASE StartEngine
  BY <1>2, PromptIsDue
<1>3. CASE Loop \/ Abort \/ TriageTrouble \/ Crash \/ EngineFails
  <2>1. rows' = {} /\ pc' # "gate"
    BY <1>3 DEF Loop, EnterLoop, Abort, TriageTrouble, Crash, Forget, EngineFails
  <2> QED
    BY <2>1 DEF RowsDue
<1>4. CASE Skip \/ EngineOk \/ AgendaOk \/ AgendaFails \/ StartAgenda
  <2>1. rows' = rows /\ fetched' = fetched /\ shown' = shown /\ tx' = tx
    BY <1>4 DEF Skip, EngineOk, AgendaOk, AgendaFails, StartAgenda, server
  <2>2. \/ pc' = "skip"
        \/ pc = "engine" /\ pc' = "ack"
        \/ pc' \in {"ack", "agenda"} /\ rows = {}
    BY <1>4 DEF Skip, EngineOk, AgendaOk, AgendaFails, StartAgenda, RowsDue
  <2> QED
    BY <2>1, <2>2, DueStays
<1>5. CASE DebounceEnds \/ Poll \/ BackoffEnds \/ ManualWake \/ CatchUp
  <2>1. rows' = rows /\ fetched' = fetched /\ shown' = shown /\ tx' = tx
    BY <1>5 DEF DebounceEnds, Poll, BackoffEnds, ManualWake, CatchUp, server
  <2>2. pc' = pc \/ pc' \in {"idle", "read"}
    BY <1>5 DEF DebounceEnds, Poll, BackoffEnds, ManualWake, CatchUp, RunTurn, EnterLoop
  <2> QED
    BY <2>1, <2>2, DueStays
<1>6. ASSUME NEW c \in Convs, AckSeen(c) \/ LoseAck(c) PROVE RowsDue'
  BY <1>6, AckedIsDone
<1>7. ASSUME NEW c \in Convs, Look(c) \/ Steer(c) \/ Ack(c) PROVE RowsDue'
  <2>1. /\ rows' = rows /\ fetched' = fetched /\ shown \subseteq shown' /\ pc' = pc
        /\ tx' = tx
    BY <1>7 DEF Look, Steer, Ack, server, turn
  <2> QED
    BY <2>1, DueStays
<1>8. ASSUME NEW c \in Convs, BeginPost(c) \/ BeginReply(c) PROVE RowsDue'
  <2>1. /\ rows' = rows /\ fetched' = fetched /\ shown' = shown /\ pc' = pc
        /\ cursor' = cursor /\ (Begin(c, FALSE) \/ Begin(c, TRUE))
    BY <1>8 DEF BeginPost, BeginReply, turn
  <2>2. \A j \in DOMAIN tx : tx'[j] = tx[j]
    BY <2>1, OneMore
  <2> QED
    BY <2>1, <2>2, DueStays
<1>9. ASSUME NEW k \in DOMAIN tx, Wake(k) \/ LoseWake(k) PROVE RowsDue'
  <2>1. /\ rows' = rows /\ fetched' = fetched /\ shown' = shown /\ pc' = pc /\ tx' = tx
    BY <1>9 DEF Wake, LoseWake, turn
  <2> QED
    BY <2>1, DueStays
<1>10. ASSUME NEW k \in DOMAIN tx, Post(k) \/ Reply(k) \/ ReplyFails(k) PROVE RowsDue'
  <2>1. rows' = rows /\ fetched' = fetched /\ shown' = shown /\ pc' = pc
    BY <1>10 DEF Post, Reply, ReplyFails, turn
  <2> QED
    BY <1>10, <2>1, SameConversation, DueStays
<1> QED
  BY <1>1, <1>2, <1>3, <1>4, <1>5, <1>6, <1>7, <1>8, <1>9, <1>10 DEF Next, Turn

LEMMA AckCovers ==
    ASSUME TypeOK, RowsFetched, RowsDue, NEW c \in Convs, AckSeen(c), NEW i \in Unread(c),
           i <= cursor'[c]
    PROVE  \/ i \in shown \/ OverShare(i)
           \/ pc = "skip" /\ i \in fetched
           \/ tx[i].st = "overtaken"
<1>1. PICK m \in Newest(Seen(c)) : cursor' = [cursor EXCEPT ![c] = IF m > @ THEN m ELSE @]
  BY DEF AckSeen
<1>2. m \in rows /\ tx[m].in = c /\ i \in AllUnread /\ tx[i].in = c /\ i > cursor[c]
  BY DEF Newest, Seen, Unread, AllUnread, Posted
<1>3. i \in Int /\ m \in Int /\ cursor[c] \in Int
  BY <1>2, UnreadInOrder DEF TypeOK
<1>4. cursor'[c] = m \/ cursor'[c] = cursor[c]
  BY <1>1 DEF TypeOK
<1>5. i <= m
  BY <1>2, <1>3, <1>4
<1>6. i \in fetched \/ tx[i].st = "overtaken"
  BY <1>2, <1>5 DEF RowsFetched, Below
<1>7. ASSUME i \in fetched, pc = "ack" PROVE i \in shown \/ OverShare(i)
  BY <1>2, <1>7 DEF RowsDue
<1> QED
  BY <1>6, <1>7 DEF AckSeen

\* Whatever is posted, replied or acknowledged meanwhile, ackSeen of a turn that ran the
\* engine passes over nothing but what the turn had put before the agent, rows of a
\* conversation with more than an even share of the digest, and what came in below the
\* snapshot: the digest gives the quiet conversations all their lines first.
THEOREM AcksAreSafe == Spec => AckOnlySeen
<1>1. Init => RowsFetched /\ RowsDue
  BY DEF Init, RowsFetched, RowsDue
<1>2. TypeOK /\ TypeOK' /\ RowsFetched /\ RowsDue /\ [Next]_vars => RowsFetched' /\ RowsDue'
  <2>1. ASSUME TypeOK, UNCHANGED vars, RowsFetched PROVE RowsFetched'
    BY <2>1 DEF RowsFetched, Below, AllUnread, Unread, Posted, Visible, vars, server, turn
  <2>2. ASSUME TypeOK, UNCHANGED vars, RowsDue PROVE RowsDue'
    BY <2>2, DueStays DEF vars, server, turn
  <2> QED
    BY <2>1, <2>2, RowsFetchedStep, RowsDueStep
<1>3. TypeOK /\ RowsFetched /\ RowsDue /\ [Next]_vars =>
        [\A c \in Convs : AckSeen(c) =>
            \A i \in Unread(c) :
                i <= cursor'[c] =>
                    \/ i \in shown \/ OverShare(i)
                    \/ pc = "skip" /\ i \in fetched
                    \/ tx[i].st = "overtaken"]_vars
  BY AckCovers
<1> QED
  BY <1>1, <1>2, <1>3, TypeCorrect, PTL DEF Spec, AckOnlySeen

-----------------------------------------------------------------------------
(* The brief of a manual wake. *)

\* A turn has a brief of its own only until the engine has answered.
ActiveInTurn == brief.active => pc \in {"gate", "engine"}

Kept == brief.pending \/ brief.active => brief'.pending \/ brief'.active

\* Steps that leave the brief alone and do not take a turn with one past its engine.
LEMMA BriefAlone ==
    ASSUME ActiveInTurn, brief' = brief, pc' = pc \/ ~brief.active \/ pc' \in {"gate", "engine"}
    PROVE  ActiveInTurn' /\ Kept
  BY DEF ActiveInTurn, Kept

LEMMA BriefStep ==
    ASSUME BriefOK, ActiveInTurn, Next
    PROVE  ActiveInTurn' /\ (Kept \/ EngineOk \/ Crash)
<1>1. brief.pending \in BOOLEAN /\ brief.active \in BOOLEAN
  BY DEF BriefOK
<1>2. CASE Read \/ ReadNothing
  <2>1. pc = "read" /\ pc' = "gate" /\ brief' = [pending |-> FALSE, active |-> brief.pending]
    BY <1>2 DEF Read, ReadNothing, TakeSnapshot
  <2>2. ~brief.active /\ brief'.active = brief.pending
    BY <2>1 DEF ActiveInTurn
  <2> QED
    BY <2>1, <2>2 DEF ActiveInTurn, Kept
<1>3. CASE EngineOk \/ Crash
  <2>1. ~brief'.active
    BY <1>3 DEF EngineOk, Crash, BriefOK
  <2> QED
    BY <1>3, <2>1 DEF ActiveInTurn
<1>4. CASE Abort \/ EngineFails
  <2>1. brief' = PutBack
    BY <1>4 DEF Abort, EngineFails
  <2>2. ~brief'.active /\ brief'.pending = (brief.pending \/ brief.active)
    BY <2>1 DEF PutBack
  <2> QED
    BY <2>2 DEF ActiveInTurn, Kept
<1>5. CASE ManualWake
  <2>1. pc' = pc /\ brief' = [brief EXCEPT !.pending = TRUE]
    BY <1>5 DEF ManualWake
  <2>2. brief'.pending /\ brief'.active = brief.active
    BY <2>1 DEF BriefOK
  <2> QED
    BY <2>1, <2>2 DEF ActiveInTurn, Kept
<1>6. CASE Skip \/ TriageTrouble \/ StartEngine
  <2>1. brief' = brief /\ (~brief.active \/ pc' = "engine")
    BY <1>6 DEF Skip, TriageTrouble, StartEngine
  <2> QED
    BY <2>1, BriefAlone
<1>7. CASE AgendaOk \/ AgendaFails \/ StartAgenda \/ Loop
  <2>1. brief' = brief /\ pc \in {"agenda", "skip", "ack"}
    BY <1>7 DEF AgendaOk, AgendaFails, StartAgenda, Loop
  <2>2. ~brief.active
    BY <2>1 DEF ActiveInTurn
  <2> QED
    BY <2>1, <2>2, BriefAlone
<1>8. CASE DebounceEnds \/ CatchUp
  <2>1. brief' = brief /\ (pc = "idle" \/ pc' = pc)
    BY <1>8 DEF DebounceEnds, CatchUp, RunTurn
  <2>2. ~brief.active \/ pc' = pc
    BY <2>1 DEF ActiveInTurn
  <2> QED
    BY <2>1, <2>2, BriefAlone
<1>9. CASE Poll \/ BackoffEnds
  BY <1>9, BriefAlone DEF Poll, BackoffEnds
<1>10. ASSUME NEW c \in Convs,
              LoseAck(c) \/ Look(c) \/ Steer(c) \/ AckSeen(c) \/ BeginPost(c) \/ Ack(c)
              \/ BeginReply(c)
       PROVE  ActiveInTurn' /\ Kept
  <2>1. brief' = brief /\ pc' = pc
    BY <1>10 DEF LoseAck, Look, Steer, AckSeen, BeginPost, Ack, BeginReply, turn
  <2> QED
    BY <2>1, BriefAlone
<1>11. ASSUME NEW i \in DOMAIN tx,
              Wake(i) \/ Post(i) \/ LoseWake(i) \/ Reply(i) \/ ReplyFails(i)
       PROVE  ActiveInTurn' /\ Kept
  <2>1. brief' = brief /\ pc' = pc
    BY <1>11 DEF Wake, Post, LoseWake, Reply, ReplyFails, turn
  <2> QED
    BY <2>1, BriefAlone
<1> QED
  BY <1>2, <1>3, <1>4, <1>5, <1>6, <1>7, <1>8, <1>9, <1>10, <1>11 DEF Next, Turn

\* Failed, aborted, throttled and coalesced turns keep the brief of a manual wake, which
\* exists only in the memory of the daemon (pendingBackgroundBrief, activeBackgroundBrief).
THEOREM BriefsAreKept == Spec => BriefKept
<1>1. Init => ActiveInTurn
  BY DEF Init, ActiveInTurn
<1>2. TypeOK /\ ActiveInTurn /\ [Next]_vars => ActiveInTurn'
  <2>1. ASSUME ActiveInTurn, UNCHANGED vars PROVE ActiveInTurn'
    BY <2>1 DEF ActiveInTurn, vars, turn
  <2> QED
    BY <2>1, BriefStep, Parts
<1>3. TypeOK /\ ActiveInTurn /\ [Next]_vars =>
        [brief.pending \/ brief.active =>
            \/ brief'.pending \/ brief'.active
            \/ EngineOk \/ Crash]_vars
  BY BriefStep, Parts DEF Kept
<1> QED
  BY <1>1, <1>2, <1>3, TypeCorrect, PTL DEF Spec, BriefKept
=============================================================================
