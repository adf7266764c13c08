---------------------------- MODULE AgentInbox ----------------------------
(***************************************************************************)
(* The inbox of one BYOA agent: the read cursors kept by the server and    *)
(* the turns of the daemon that drains them, of                            *)
(* src/server/src/agents/computer/daemon.ts and runtime/inproc-client.ts.  *)
(*                                                                         *)
(* created_at and NOW() are the start of a transaction, so a message is    *)
(* known by the place of its transaction in the order of their starts:     *)
(* tx[i] began i-th, and a cursor is such an i.  Messages become visible   *)
(* when their transactions commit, in any order.                           *)
(***************************************************************************)
EXTENDS Integers, Sequences, FiniteSets

CONSTANTS
    Convs,
    Direct,         \* conversations of two, where a reply is not held
    Limit,          \* rows the inbox query returns
    DigestLines,    \* DIGEST_MAX_MESSAGE_LINES: message lines of a wake prompt
    MaxTx,          \* bound: transactions
    MaxOpen,        \* bound: transactions that overlap
    MaxFaults,      \* bound: failures of any kind
    MaxBriefs       \* bound: manual wakes that carry a brief

ASSUME InboxAssumption ==
    /\ Direct \subseteq Convs
    /\ Limit \in Nat \ {0}
    /\ {DigestLines, MaxTx, MaxOpen, MaxFaults, MaxBriefs} \subseteq Nat

VARIABLES
    \* the server
    tx,         \* the transactions that post a message, by the order they began in
    cursor,     \* conversation_reads.last_read_at of the agent
    wakes,      \* posted messages whose wake is under way
    \* the daemon
    pc,         \* where the turn is; "idle" is ~busy
    pendingRerun,
    debounce,   \* wakeDebounceTimer is armed
    backoff,    \* triageBackoffUntil or engineBackoffUntil lies ahead
    brief,      \* pendingBackgroundBrief and activeBackgroundBrief
    rows,       \* the snapshot of this turn, less what is acknowledged
    fetched,    \* all rows of the snapshot, which the server takes for seen
    \* ghosts
    shown,      \* messages put before the agent in this turn
    unsure,     \* something happened that only a later drain makes good
    count       \* what has been spent of the bounds

server == <<tx, cursor, wakes>>
turn == <<pc, pendingRerun, debounce, backoff, brief, rows, fetched>>
vars == <<server, turn, shown, unsure, count>>

\* "overtaken" (ghost): became visible, or unread again, when younger messages
\* of its conversation already were.
Tx == [in : Convs, own : BOOLEAN, st : {"open", "posted", "overtaken", "failed"}]
Busy == {"read", "gate", "engine", "agenda", "skip", "ack"}

TypeOK ==
    /\ tx \in Seq(Tx)
    /\ cursor \in [Convs -> 0..Len(tx)]
    /\ wakes \subseteq DOMAIN tx
    /\ pc \in Busy \cup {"idle"}
    /\ {pendingRerun, debounce, backoff, unsure} \subseteq BOOLEAN
    /\ brief \in [pending : BOOLEAN, active : BOOLEAN]
    /\ {rows, fetched, shown} \subseteq SUBSET DOMAIN tx
    /\ count \in [faults : Nat, briefs : Nat]

Init ==
    /\ tx = <<>> /\ cursor = [c \in Convs |-> 0] /\ wakes = {}
    /\ pc = "idle" /\ pendingRerun = FALSE /\ debounce = FALSE /\ backoff = FALSE
    /\ brief = [pending |-> FALSE, active |-> FALSE]
    /\ rows = {} /\ fetched = {} /\ shown = {} /\ unsure = FALSE
    /\ count = [faults |-> 0, briefs |-> 0]

Visible(i) == tx[i].st \in {"posted", "overtaken"}
Posted(c) == {i \in DOMAIN tx : tx[i].in = c /\ Visible(i)}

\* loadInbox: what others wrote above the cursor.
Unread(c) == {i \in Posted(c) : ~tx[i].own /\ i > cursor[c]}
AllUnread == UNION {Unread(c) : c \in Convs}

\* ORDER BY created_at ASC LIMIT.
OldestFirst(S) == {i \in S : Cardinality({j \in S : j < i}) < Limit}

Newest(S) == {i \in S : \A j \in S : j <= i}

Fault ==
    /\ count.faults < MaxFaults
    /\ count' = [count EXCEPT !.faults = @ + 1]

-----------------------------------------------------------------------------
(* Messages *)

Begin(c, own) ==
    /\ Len(tx) < MaxTx
    /\ Cardinality({i \in DOMAIN tx : tx[i].st = "open"}) < MaxOpen
    /\ tx' = Append(tx, [in |-> c, own |-> own, st |-> "open"])

\* A person, another agent or the server begins to post.
BeginPost(c) ==
    /\ Begin(c, FALSE)
    /\ UNCHANGED <<cursor, wakes, turn, shown, unsure, count>>

\* Mutant: the wake names the conversation only.
WakeOfRoom(i) == {tx[i].in}

WakeOf(i) == {i}

\* The message becomes visible, perhaps below messages that overtook it, and
\* the outbox and the scheduler send a wake.
Post(i) ==
    /\ tx[i].st = "open" /\ ~tx[i].own
    /\ tx' = [tx EXCEPT ![i].st =
                 IF \E j \in Posted(tx[i].in) : j > i THEN "overtaken" ELSE "posted"]
    /\ wakes' = wakes \cup WakeOf(i)
    /\ UNCHANGED <<cursor, turn, shown, unsure, count>>

-----------------------------------------------------------------------------
(* Ways into a turn *)

\* Mutant: a wake during a turn is taken for one the turn will serve.
IgnoreWhenBusy ==
    /\ debounce' = (debounce \/ pc = "idle")
    /\ UNCHANGED pendingRerun

\* scheduleWake: a rerun of the running turn, or the debounce timer.
ScheduleWake ==
    /\ pendingRerun' = (pendingRerun \/ pc # "idle")
    /\ debounce' = (debounce \/ pc = "idle")

\* The head of the loop, up to its first await: a back-off ends the turn.
EnterLoop ==
    /\ pendingRerun' = FALSE
    /\ pc' = IF backoff THEN "idle" ELSE "read"
    /\ unsure' = (unsure \/ backoff)

\* runTurn: one at a time, others ask it to run again.
RunTurn ==
    \/ pc = "idle" /\ EnterLoop
    \/ pc # "idle" /\ pendingRerun' = TRUE /\ UNCHANGED <<pc, unsure>>

Wake(i) ==
    /\ i \in wakes
    /\ wakes' = wakes \ {i}
    /\ ScheduleWake
    /\ UNCHANGED <<tx, cursor, pc, backoff, brief, rows, fetched, shown, unsure, count>>

\* The stream is down, or half-dead.
LoseWake(i) ==
    /\ i \in wakes
    /\ Fault
    /\ wakes' = wakes \ {i}
    /\ unsure' = TRUE
    /\ UNCHANGED <<tx, cursor, turn, shown>>

\* A manual wake: its brief has no row in the inbox.
ManualWake ==
    /\ count.briefs < MaxBriefs
    /\ count' = [count EXCEPT !.briefs = @ + 1]
    /\ brief' = [brief EXCEPT !.pending = TRUE]
    /\ ScheduleWake
    /\ UNCHANGED <<server, pc, backoff, rows, fetched, shown, unsure>>

DebounceEnds ==
    /\ debounce
    /\ debounce' = FALSE
    /\ RunTurn
    /\ UNCHANGED <<server, backoff, brief, rows, fetched, shown, count>>

\* The wake stream (re)connects.
CatchUp ==
    /\ RunTurn
    /\ UNCHANGED <<server, debounce, backoff, brief, rows, fetched, shown, count>>

\* Mutant: a stream that pings is trusted for good.
TrustStream == FALSE

PollDue == pc = "idle"

Poll ==
    /\ PollDue
    /\ ScheduleWake
    /\ UNCHANGED <<server, pc, backoff, brief, rows, fetched, shown, unsure, count>>

-----------------------------------------------------------------------------
(* The turn *)

\* The pending brief becomes the turn's; the unread inbox is fetched, and the server
\* takes all of it for seen (recordSeen).
TakeSnapshot(S) ==
    /\ pc = "read" /\ pc' = "gate"
    /\ brief' = [pending |-> FALSE, active |-> brief.pending]
    /\ rows' = S /\ fetched' = S
    /\ unsure' = (S # AllUnread)
    /\ UNCHANGED <<server, pendingRerun, debounce, backoff, shown>>

Read == TakeSnapshot(OldestFirst(AllUnread)) /\ UNCHANGED count

\* A failing GET reads as an empty inbox.
ReadNothing == Fault /\ TakeSnapshot({}) /\ AllUnread # {}

\* Mutant: the brief of a failed turn is not put back.
DropBrief == [pending |-> brief.pending, active |-> FALSE]

\* The brief of a failed turn waits for the next.
PutBack == [pending |-> brief.pending \/ brief.active, active |-> FALSE]

\* The locals of a loop iteration are gone.
Forget == rows' = {} /\ fetched' = {} /\ shown' = {}

\* No token, or any other throw: the turn is over, and its rerun with it.
Abort ==
    /\ pc \in {"read", "gate"}
    /\ Fault
    /\ pc' = "idle"
    /\ brief' = PutBack
    /\ Forget
    /\ unsure' = TRUE
    /\ UNCHANGED <<server, pendingRerun, debounce, backoff>>

\* Nothing but notices (hasReal), or the triage sees nothing to do.
Skip ==
    /\ pc = "gate" /\ ~brief.active
    /\ pc' = "skip"
    /\ UNCHANGED <<server, pendingRerun, debounce, backoff, brief, rows,
                   fetched, shown, unsure, count>>

\* The triage is throttled or broken: back off without an acknowledgement.
TriageTrouble ==
    /\ pc = "gate" /\ ~brief.active /\ rows # {}
    /\ Fault
    /\ pc' = "idle" /\ backoff' = TRUE
    /\ Forget
    /\ unsure' = TRUE
    /\ UNCHANGED <<server, pendingRerun, debounce, brief>>

Rooms(S) == {tx[i].in : i \in S}
RowsOf(S, c) == {i \in S : tx[i].in = c}

\* The conversations by their number of rows, then by their oldest row.
Quieter(S, d, c) ==
    LET rowsOf(e) == Cardinality(RowsOf(S, e))
    IN  \/ rowsOf(d) < rowsOf(c)
        \/ rowsOf(d) = rowsOf(c) /\ \E i \in RowsOf(S, d) : \A j \in RowsOf(S, c) : i < j

\* What the conversations quieter than c leave of the digest D, evenly shared.
EvenShare(S, D, c) ==
    LET quieter == {d \in Rooms(S) : Quieter(S, d, c)}
    IN  (DigestLines - Cardinality({i \in D : tx[i].in \in quieter}))
          \div Cardinality(Rooms(S) \ quieter)

\* Mutant: the newest lines of all, whatever room they are from.
GlobalTail(S, D) == D = {i \in S : Cardinality({j \in S : j > i}) < DigestLines}

\* renderInboxDigest: D is the messages of S with a line in the digest, of each
\* conversation the newest.  Of the others it gives only their number.
Digest(S, D) ==
    \A c \in Rooms(S) :
        /\ \A i \in RowsOf(D, c), j \in RowsOf(S, c) : j > i => j \in D
        /\ Cardinality(RowsOf(D, c)) =
              IF Cardinality(RowsOf(S, c)) <= EvenShare(S, D, c)
              THEN Cardinality(RowsOf(S, c)) ELSE EvenShare(S, D, c)

\* The digest is in the prompt of the turn.
StartEngine ==
    /\ pc = "gate" /\ (brief.active \/ rows # {})
    /\ pc' = "engine"
    /\ \E D \in SUBSET rows : Digest(rows, D) /\ shown' = D
    /\ UNCHANGED <<server, pendingRerun, debounce, backoff, brief, rows,
                   fetched, unsure, count>>

Replying == {i \in DOMAIN tx : tx[i].own /\ tx[i].st = "open"}

\* A clean turn: the engine's commands have answered.
EngineOk ==
    /\ pc = "engine" /\ Replying = {}
    /\ pc' = "ack"
    /\ backoff' = FALSE
    /\ brief' = [brief EXCEPT !.active = FALSE]
    /\ UNCHANGED <<server, pendingRerun, debounce, rows, fetched, shown, unsure, count>>

\* The unread stays; a throttled engine drops the rerun too.
EngineFails ==
    /\ pc = "engine"
    /\ Fault
    /\ \/ pendingRerun' = FALSE /\ backoff' = TRUE              \* rate-limited
       \/ UNCHANGED pendingRerun /\ backoff' \in {TRUE, backoff}  \* operator-fix, transient
    /\ pc' = "ack" /\ rows' = {}
    /\ brief' = PutBack
    /\ unsure' = TRUE
    /\ UNCHANGED <<server, debounce, fetched, shown>>

Seen(c) == {i \in rows : tx[i].in = c}

\* markConversationRead never moves a cursor back.
AckSeen(c) ==
    /\ pc \in {"skip", "ack"}
    /\ \E m \in Newest(Seen(c)) : cursor' = [cursor EXCEPT ![c] = IF m > @ THEN m ELSE @]
    /\ rows' = rows \ Seen(c)
    /\ UNCHANGED <<tx, wakes, pc, pendingRerun, debounce, backoff, brief,
                   fetched, shown, unsure, count>>

LoseAck(c) ==
    /\ pc \in {"skip", "ack"} /\ Seen(c) # {}
    /\ Fault
    /\ rows' = rows \ Seen(c)
    /\ unsure' = TRUE
    /\ UNCHANGED <<server, pc, pendingRerun, debounce, backoff, brief, fetched, shown>>

\* After a skip a quiet agent may turn to its agenda.
StartAgenda ==
    /\ pc = "skip" /\ rows = {}
    /\ pc' = "agenda"
    /\ UNCHANGED <<server, pendingRerun, debounce, backoff, brief, rows,
                   fetched, shown, unsure, count>>

AgendaOk ==
    /\ pc = "agenda" /\ Replying = {}
    /\ pc' = "ack" /\ backoff' = FALSE
    /\ UNCHANGED <<server, pendingRerun, debounce, brief, rows, fetched, shown, unsure, count>>

AgendaFails ==
    /\ pc = "agenda"
    /\ Fault
    /\ pc' = "ack" /\ backoff' \in {TRUE, backoff}
    /\ UNCHANGED <<server, pendingRerun, debounce, brief, rows, fetched, shown, unsure>>

\* The end of the loop: once more, or no longer busy.
Loop ==
    /\ pc \in {"skip", "ack"} /\ rows = {}
    /\ \/ pendingRerun /\ EnterLoop
       \/ ~pendingRerun /\ pc' = "idle" /\ UNCHANGED <<pendingRerun, unsure>>
    /\ Forget
    /\ UNCHANGED <<server, debounce, backoff, brief, count>>

BackoffEnds ==
    /\ backoff
    /\ backoff' = FALSE
    /\ UNCHANGED <<server, pc, pendingRerun, debounce, brief, rows,
                   fetched, shown, unsure, count>>

\* The daemon dies and is started again; the wakes of the dead stream are lost.
Crash ==
    /\ Fault
    /\ pc' = "idle" /\ pendingRerun' = FALSE /\ debounce' = FALSE /\ backoff' = FALSE
    /\ brief' = [pending |-> FALSE, active |-> FALSE]
    /\ Forget /\ wakes' = {}
    /\ unsure' = TRUE
    /\ UNCHANGED <<tx, cursor>>

-----------------------------------------------------------------------------
(* What the engine does meanwhile *)

Working == pc \in {"engine", "agenda"}

\* It reads a conversation, or a held reply shows it.
Look(c) ==
    /\ Working
    /\ shown' = shown \cup Posted(c)
    /\ UNCHANGED <<server, turn, unsure, count>>

\* maybeSteer puts the newest unread message into the live session.
Steer(c) ==
    /\ Working /\ pendingRerun
    /\ \E m \in Newest(Unread(c)) : shown' = shown \cup {m}
    /\ UNCHANGED <<server, turn, unsure, count>>

\* cumora ack
Ack(c) ==
    /\ Working
    /\ cursor' = [cursor EXCEPT ![c] = Len(tx)]
    /\ UNCHANGED <<tx, wakes, turn, shown, unsure, count>>

\* cumora reply enters its transaction; in a group it was held for what neither the
\* inbox query nor a command had returned.
BeginReply(c) ==
    /\ Working
    /\ c \in Direct \/ Unread(c) \subseteq shown \cup fetched
    /\ \A i \in Replying : tx[i].in # c
    /\ Begin(c, TRUE)
    /\ UNCHANGED <<cursor, wakes, turn, shown, unsure, count>>

\* last_read_at = NOW() of the transaction, whatever the cursor was: the reply of
\* an abandoned turn may move it back.
Reply(i) ==
    /\ i \in Replying
    /\ tx' = [j \in DOMAIN tx |->
                 IF j = i THEN [tx[j] EXCEPT !.st = "posted"]
                 ELSE IF j \in Posted(tx[i].in) /\ j \in i..cursor[tx[i].in]
                 THEN [tx[j] EXCEPT !.st = "overtaken"] ELSE tx[j]]
    /\ cursor' = [cursor EXCEPT ![tx[i].in] = i]
    /\ unsure' = (unsure \/ i < cursor[tx[i].in])
    /\ UNCHANGED <<wakes, turn, shown, count>>

ReplyFails(i) ==
    /\ i \in Replying
    /\ Fault
    /\ tx' = [tx EXCEPT ![i].st = "failed"]
    /\ UNCHANGED <<cursor, wakes, turn, shown, unsure>>

-----------------------------------------------------------------------------
Turn ==
    \/ Read \/ Skip \/ StartEngine \/ EngineOk \/ AgendaOk \/ Loop
    \/ \E c \in Convs : AckSeen(c)

Next ==
    \/ Turn \/ DebounceEnds \/ Poll \/ BackoffEnds \/ ManualWake \/ CatchUp \/ StartAgenda
    \/ ReadNothing \/ Abort \/ TriageTrouble \/ EngineFails \/ AgendaFails \/ Crash
    \/ \E c \in Convs :
          BeginPost(c) \/ LoseAck(c) \/ Look(c) \/ Steer(c) \/ Ack(c) \/ BeginReply(c)
    \/ \E i \in DOMAIN tx : Post(i) \/ Wake(i) \/ LoseWake(i) \/ Reply(i) \/ ReplyFails(i)

Spec == Init /\ [][Next]_vars

\* The daemon and the server go on, and a back-off passes; nobody has to write,
\* and wakes come or do not.
FairSpec ==
    /\ Spec
    /\ WF_vars(Turn \/ DebounceEnds \/ Poll \/ \E i \in DOMAIN tx : Reply(i))
    /\ WF_vars(BackoffEnds)

-----------------------------------------------------------------------------
(* Properties *)

\* The fetched row i is in a conversation that has more rows than an even share of the
\* digest.
OverShare(i) ==
    /\ i \in fetched
    /\ Cardinality(RowsOf(fetched, tx[i].in)) * Cardinality(Rooms(fetched)) > DigestLines

\* After a turn of the engine ackSeen marks a message as read only if it was put before
\* the agent, or its own conversation has more unread than an even share of the digest:
\* a burst in one room takes no line from a quieter one (renderInboxDigest, which says
\* how many of the busy room it left out), and nothing that landed beside the snapshot
\* or was cut off by the query goes with it.  A skip marks what the triage dismissed.
\* Only a message that younger ones overtook, or that an abandoned reply made unread
\* once more, can be passed over.
AckOnlySeen ==
    [][\A c \in Convs : AckSeen(c) =>
          \A i \in Unread(c) :
              i <= cursor'[c] =>
                  \/ i \in shown \/ OverShare(i)
                  \/ pc = "skip" /\ i \in fetched
                  \/ tx[i].st = "overtaken"]_vars

\* Wakes are never lost by coalescing (busy, pendingRerun, debounce): when the
\* daemon is quiet and nothing has failed since its last full snapshot, nothing
\* is unread.
QuietMeansRead ==
    pc = "idle" /\ ~debounce /\ wakes = {} /\ ~unsure => AllUnread = {}

\* The brief of a manual wake exists nowhere else: failed, aborted and coalesced
\* turns keep it until an engine ran it or the daemon died.
BriefKept ==
    [][brief.pending \/ brief.active =>
          \/ brief'.pending \/ brief'.active
          \/ EngineOk \/ Crash]_vars

\* Again and again nothing is unread, after lost wakes, failed acknowledgements,
\* throttling and crashes too (the fallback poll): no message waits for ever.
EveryMessageRead == []<>(AllUnread = {})

\* snapshotUnread: "messages that land mid-turn keep a higher id, stay unread,
\* and drive the coalesced rerun".
MidTurnStaysUnread ==
    [][\A i \in DOMAIN tx : pc = "engine" /\ Reply(i) =>
          \A j \in Unread(tx[i].in) :
              j <= i => j \in shown \cup fetched \/ tx[j].st = "overtaken"]_vars
=============================================================================
