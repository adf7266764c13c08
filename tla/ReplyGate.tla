----------------------------- MODULE ReplyGate -----------------------------
(***************************************************************************)
(* The gates of `cumora reply` on one conversation: cmdReply of            *)
(* src/server/src/agents/cli.ts with the Redis state of seen-boundary.ts.  *)
(* Several commands run at once, those of one agent too (an engine may     *)
(* issue tool calls in parallel); a step is one awaited statement.         *)
(*                                                                         *)
(* Left out: attachments and quotes, e-mail conversations, and the read    *)
(* cursor and outbox row the transaction also writes (AgentInbox, Outbox). *)
(***************************************************************************)
EXTENDS Integers, Sequences, FiniteSets

CONSTANTS
    Agents, Procs,
    Owner,          \* Owner[p]: the agent on whose behalf command p runs
    Human,          \* the human member, posting through the HTTP route
    Bodies,         \* drafts, trimmed and not empty
    Notice,         \* body of a row whose kind is not 'text'
    Flags,          \* the flag sets a command may carry
    HeldLimit,      \* LIMIT 8: rows a HELD envelope shows
    MaxPosts,       \* MAX_POSTS_PER_TURN_PER_CONVERSATION
    RunIdKnown,     \* CUMORA_RUN_ID is in the command's environment
    MaxLen, MaxTurns, MaxLooks,                         \* bounds
    MaxRedis, MaxTx, MaxLapses, MaxMoves, MaxGaps       \* bounds on faults

Free == "free"

ASSUME GateAssumption ==
    /\ Owner \in [Procs -> Agents] /\ Free \notin Procs
    /\ Human \notin Agents /\ Notice \notin Bodies
    /\ Flags \subseteq SUBSET {"continue", "send-anyway"}
    /\ HeldLimit \in Nat \ {0} /\ MaxPosts \in Nat \ {0}
    /\ RunIdKnown \in BOOLEAN
    /\ {MaxLen, MaxTurns, MaxLooks, MaxRedis, MaxTx, MaxLapses, MaxMoves, MaxGaps} \subseteq Nat

VARIABLES
    log,        \* messages of the conversation, in commit order
    counter,    \* conversation_counters.next_sequence
    lock,       \* the command whose transaction holds the counter row
    members,    \* conversation_members
    seen,       \* seen[a]: cumora:seen, 0 when absent
    hold,       \* hold[a]: cumora:held:<a>:reply:<convo>, 0 when absent
    turnPost,   \* turnPost[a]: cumora:turnpost, posts = 0 when absent
    run,        \* run[a]: the run id of a's current turn
    pc, draft,  \* where each command is, and its local variables
    aged,       \* how many of the messages are over ten minutes old
    shown,      \* shown[a]: sequences of rows put before a (ghost)
    faults      \* how much of each fault bound is used

redisVars == <<seen, hold, turnPost>>
roomVars  == <<log, counter, lock, members, aged>>
vars == <<roomVars, redisVars, run, pc, draft, shown, faults>>

Steps == {"idle", "turnpost", "gate", "hold", "stale", "seen", "fresh", "dup", "begin",
          "claim", "recheck", "touch", "commit", "own", "count", "mark", "clear",
          "heldseen", "heldhold", "show"}

InTx == {"claim", "recheck", "touch", "commit"}
Locked == {"recheck", "touch", "commit"}

Ways == {"none", "continue", "delivery", "dm", "quiet", "open"}

Draft == [body : Bodies \cup {Notice}, flags : SUBSET {"continue", "send-anyway"},
          run : Nat, group : BOOLEAN, way : Ways,
          armed : BOOLEAN, base : Nat, seq : Nat]

Message == [by : Agents \cup {Human}, body : Bodies \cup {Notice}, seq : Nat \ {0},
            run : Nat, group : BOOLEAN, way : Ways]

TypeOK ==
    /\ log \in Seq(Message)
    /\ counter \in Nat \ {0}
    /\ lock \in Procs \cup {Free}
    /\ members \in SUBSET (Agents \cup {Human})
    /\ seen \in [Agents -> Nat] /\ hold \in [Agents -> Nat]
    /\ turnPost \in [Agents -> [run : Nat, posts : Nat]]
    /\ run \in [Agents -> Nat]
    /\ pc \in [Procs -> Steps]
    /\ draft \in [Procs -> Draft]
    /\ aged \in Nat
    /\ shown \in [Agents -> SUBSET Nat]
    /\ faults \in [redis : Nat, tx : Nat, lapses : Nat, moves : Nat, gaps : Nat,
                  looks : Nat]

NoDraft == [body |-> Notice, flags |-> {}, run |-> 0, group |-> FALSE,
            way |-> "none", armed |-> FALSE, base |-> 0, seq |-> 0]

Init ==
    /\ log = <<>> /\ counter = 1 /\ lock = Free /\ aged = 0
    /\ members = Agents \cup {Human}
    /\ seen = [a \in Agents |-> 0] /\ hold = [a \in Agents |-> 0]
    /\ turnPost = [a \in Agents |-> [run |-> 0, posts |-> 0]]
    /\ run = [a \in Agents |-> 1]
    /\ pc = [p \in Procs |-> "idle"]
    /\ draft = [p \in Procs |-> NoDraft]
    /\ shown = [a \in Agents |-> {}]
    /\ faults = [redis |-> 0, tx |-> 0, lapses |-> 0, moves |-> 0, gaps |-> 0,
                  looks |-> 0]

-----------------------------------------------------------------------------
(* What the queries return. *)

Grp == Cardinality(members) > 2

\* Rows of other authors above a sequence, and the ones a LIMIT keeps.
Newer(a, base) == {i \in DOMAIN log : log[i].by # a /\ log[i].seq > base}

Held(a, base) ==
    {i \in Newer(a, base) : Cardinality({j \in Newer(a, base) : j < i}) < HeldLimit}

IsLast(i, S) == i \in S /\ \A j \in S : j <= i

TextOfPeers(a) == {i \in DOMAIN log : log[i].by # a /\ log[i].body # Notice}

\* The draft repeats the last text message of somebody else.
Repeats(a, body) ==
    \E i \in DOMAIN log : IsLast(i, TextOfPeers(a)) /\ log[i].body = body

Greater(x, y) == IF x >= y THEN x ELSE y

-----------------------------------------------------------------------------
(* seen-boundary.ts: every call catches its own errors. *)

RedisError ==
    /\ faults.redis < MaxRedis
    /\ faults' = [faults EXCEPT !.redis = @ + 1]

RecordSeen(a, s) ==
    \/ seen' = [seen EXCEPT ![a] = Greater(seen[a], s)] /\ UNCHANGED faults
    \/ RedisError /\ UNCHANGED seen

RecordHold(a, s) ==
    \/ hold' = [hold EXCEPT ![a] = s] /\ UNCHANGED faults
    \/ RedisError /\ UNCHANGED hold

ClearHold(a) ==
    \/ hold' = [hold EXCEPT ![a] = 0] /\ UNCHANGED faults
    \/ RedisError /\ UNCHANGED hold

-----------------------------------------------------------------------------
(* The preflight. *)

Me(p) == Owner[p]
Goto(p, step) == pc' = [pc EXCEPT ![p] = step]
Set(p, d) == draft' = [draft EXCEPT ![p] = d]

\* The command ends: an error, a refusal or its success.
Done(p) == Goto(p, "idle") /\ Set(p, NoDraft)

Continues(p) == "continue" \in draft[p].flags
Applies(p) == ~Continues(p) /\ draft[p].group

Start(p) ==
    /\ pc[p] = "idle" /\ Me(p) \in members
    /\ Len(log) < MaxLen
    /\ \E body \in Bodies, flags \in Flags :
          Set(p, [NoDraft EXCEPT !.body = body, !.flags = flags,
                                 !.run = run[Me(p)], !.group = Grp])
    /\ Goto(p, "turnpost")
    /\ UNCHANGED <<roomVars, redisVars, run, shown, faults>>

\* Mutant: the cap is off by one.
SameTurnOften(p) ==
    /\ ~Continues(p) /\ RunIdKnown
    /\ turnPost[Me(p)].posts \in 1..MaxPosts
    /\ turnPost[Me(p)].run = draft[p].run

\* readTurnPost, fail-closed: the second post of the run that posted once.
SameTurn(p) ==
    /\ ~Continues(p) /\ RunIdKnown
    /\ turnPost[Me(p)].posts \in 1..(MaxPosts - 1)
    /\ turnPost[Me(p)].run = draft[p].run

ReadTurnPost(p) ==
    /\ pc[p] = "turnpost"
    /\ \/ /\ Set(p, IF SameTurn(p) THEN [draft[p] EXCEPT !.way = "delivery"] ELSE draft[p])
          /\ UNCHANGED faults
       \/ RedisError /\ UNCHANGED draft
    /\ Goto(p, "gate")
    /\ UNCHANGED <<roomVars, redisVars, run, shown>>

\* The anti-monologue gate: one's own message is the last, and recent.
OwnLast(p) == log # <<>> /\ log[Len(log)].by = Me(p)

\* Mutant: whoever spoke last, the gate lets the draft pass.
WayOpen(p) == IF Continues(p) THEN "continue" ELSE "open"

Way(p) ==
    CASE Continues(p)            -> "continue"
      [] draft[p].way = "delivery" -> "delivery"
      [] ~draft[p].group         -> "dm"
      [] ~OwnLast(p)             -> "open"
      [] aged = Len(log)         -> "quiet"
      [] OTHER                   -> "none"

MonologueGate(p) ==
    /\ pc[p] = "gate"
    /\ IF Way(p) = "none"
       THEN Done(p)
       ELSE /\ Set(p, [draft[p] EXCEPT !.way = Way(p)])
            /\ Goto(p, "hold")
    /\ UNCHANGED <<roomVars, redisVars, run, shown, faults>>

\* consumeHold, GET and DEL in one script; fail-open to armed without a sequence.
Armed(p, s) == [draft[p] EXCEPT !.armed = TRUE, !.base = s]

AfterHold(p, armed, s) ==
    CASE armed /\ Applies(p) /\ s > 0 -> "stale"
      [] ~armed /\ Applies(p)         -> "seen"
      [] OTHER                        -> "begin"

ConsumeHold(p) ==
    /\ pc[p] = "hold"
    /\ \/ /\ "send-anyway" \notin draft[p].flags \/ hold[Me(p)] = 0
          /\ Goto(p, AfterHold(p, FALSE, 0))
          /\ UNCHANGED <<hold, draft, faults>>
       \/ /\ "send-anyway" \in draft[p].flags /\ hold[Me(p)] > 0
          /\ Goto(p, AfterHold(p, TRUE, hold[Me(p)]))
          /\ Set(p, Armed(p, hold[Me(p)]))
          /\ hold' = [hold EXCEPT ![Me(p)] = 0]
          /\ UNCHANGED faults
       \/ /\ "send-anyway" \in draft[p].flags /\ RedisError
          /\ Goto(p, AfterHold(p, TRUE, 0))
          /\ Set(p, Armed(p, 0))
          /\ UNCHANGED hold
    /\ UNCHANGED <<roomVars, seen, turnPost, run, shown>>

\* Mutant: cursor and token take the newest row, shown or cut off by the LIMIT.
HoldNewest(p, S) ==
    /\ Set(p, [draft[p] EXCEPT !.base = log[Len(log)].seq, !.armed = FALSE])
    /\ shown' = [shown EXCEPT ![Me(p)] = @ \cup {log[i].seq : i \in S}]
    /\ Goto(p, "heldseen")

\* A HELD envelope with the rows S: the last of them bounds cursor and token.
Hold(p, S) ==
    /\ \E i \in DOMAIN log :
          IsLast(i, S) /\ Set(p, [draft[p] EXCEPT !.base = log[i].seq, !.armed = FALSE])
    /\ shown' = [shown EXCEPT ![Me(p)] = @ \cup {log[i].seq : i \in S}]
    /\ Goto(p, "heldseen")

\* Mutant: the acknowledgement is never checked against the room.
NothingNew(a, base) == TRUE

Unmoved(a, base) == Newer(a, base) = {}

\* The token acknowledges the room up to its sequence; past it, it is void.
\* base becomes the newest row of a peer the acknowledgement was checked with.
StaleToken(p) ==
    /\ pc[p] = "stale"
    /\ IF Unmoved(Me(p), draft[p].base)
       THEN /\ \E i \in DOMAIN log :
                  /\ IsLast(i, Newer(Me(p), 0))
                  /\ Set(p, [draft[p] EXCEPT !.base = log[i].seq])
            /\ Goto(p, "begin") /\ UNCHANGED shown
       ELSE Hold(p, Held(Me(p), draft[p].base))
    /\ UNCHANGED <<roomVars, redisVars, run, faults>>

\* getSeen, fail-open to 0: then the freshness query is skipped.
GetSeen(p) ==
    /\ pc[p] = "seen"
    /\ \/ /\ seen[Me(p)] > 0 /\ UNCHANGED faults
          /\ Set(p, [draft[p] EXCEPT !.base = seen[Me(p)]]) /\ Goto(p, "fresh")
       \/ /\ seen[Me(p)] = 0 /\ UNCHANGED faults
          /\ UNCHANGED draft /\ Goto(p, "dup")
       \/ /\ RedisError
          /\ UNCHANGED draft /\ Goto(p, "dup")
    /\ UNCHANGED <<roomVars, redisVars, run, shown>>

Freshness(p) ==
    /\ pc[p] = "fresh"
    /\ IF Newer(Me(p), draft[p].base) = {}
       THEN Goto(p, "dup") /\ UNCHANGED <<draft, shown>>
       ELSE Hold(p, Held(Me(p), draft[p].base))
    /\ UNCHANGED <<roomVars, redisVars, run, faults>>

VerbatimDup(p) ==
    /\ pc[p] = "dup"
    /\ IF Repeats(Me(p), draft[p].body)
       THEN Hold(p, {i \in DOMAIN log : IsLast(i, TextOfPeers(Me(p)))})
       ELSE Goto(p, "begin") /\ UNCHANGED <<draft, shown>>
    /\ UNCHANGED <<roomVars, redisVars, run, faults>>

\* Mutant: the envelope does not move the cursor.
HeldUnseen(p) ==
    /\ pc[p] = "heldseen"
    /\ Goto(p, "heldhold")
    /\ UNCHANGED <<roomVars, redisVars, run, draft, shown, faults>>

HeldSeen(p) ==
    /\ pc[p] = "heldseen"
    /\ RecordSeen(Me(p), draft[p].base)
    /\ Goto(p, "heldhold")
    /\ UNCHANGED <<roomVars, hold, turnPost, run, draft, shown>>

\* recordHold, then the envelope is returned.
HeldHold(p) ==
    /\ pc[p] = "heldhold"
    /\ RecordHold(Me(p), draft[p].base)
    /\ Done(p)
    /\ UNCHANGED <<roomVars, seen, turnPost, run, shown>>

-----------------------------------------------------------------------------
(* The transaction. *)

\* BEGIN, the conversation FOR SHARE, the membership count it protects.
\* What the preflight alone reads is forgotten.
TxDraft(p) == [draft[p] EXCEPT !.group = Grp, !.flags = {}, !.armed = FALSE, !.base = 0]

BeginTx(p) ==
    /\ pc[p] = "begin"
    /\ IF Me(p) \in members
       THEN Set(p, TxDraft(p)) /\ Goto(p, "claim")
       ELSE Done(p)
    /\ UNCHANGED <<roomVars, redisVars, run, shown, faults>>

\* The UPSERT of conversation_counters locks the row until the transaction ends.
ClaimSequence(p) ==
    /\ pc[p] = "claim" /\ lock = Free
    /\ lock' = p
    /\ Set(p, [draft[p] EXCEPT !.seq = counter])
    /\ Goto(p, "recheck")
    /\ UNCHANGED <<log, counter, members, aged, redisVars, run, shown, faults>>

\* Mutant: no ROLLBACK before the HELD envelope.
RecheckKeepsLock(p) ==
    /\ pc[p] = "recheck"
    /\ IF draft[p].group /\ Repeats(Me(p), draft[p].body)
       THEN Hold(p, {i \in DOMAIN log : IsLast(i, TextOfPeers(Me(p)))})
       ELSE Goto(p, "touch") /\ UNCHANGED <<draft, shown>>
    /\ UNCHANGED <<roomVars, redisVars, run, faults>>

\* Mutant: the preflight's duplicate check is trusted.
RecheckNothing(p) ==
    /\ pc[p] = "recheck"
    /\ Goto(p, "touch")
    /\ UNCHANGED <<roomVars, redisVars, run, draft, shown, faults>>

\* The dup check under the lock: ROLLBACK, then the HELD envelope.
Recheck(p) ==
    /\ pc[p] = "recheck"
    /\ IF draft[p].group /\ Repeats(Me(p), draft[p].body)
       THEN lock' = Free /\ Hold(p, {i \in DOMAIN log : IsLast(i, TextOfPeers(Me(p)))})
       ELSE Goto(p, "touch") /\ UNCHANGED <<lock, draft, shown>>
    /\ UNCHANGED <<log, counter, members, aged, redisVars, run, faults>>

\* INSERT, then UPDATE conversations, which waits for every other FOR SHARE.
Touch(p) ==
    /\ pc[p] = "touch"
    /\ \A q \in Procs \ {p} : pc[q] \notin InTx
    /\ Goto(p, "commit")
    /\ UNCHANGED <<roomVars, redisVars, run, draft, shown, faults>>

\* Mutant: RETURNING next_sequence - 2.
PostedLow(p) == [by |-> Me(p), body |-> draft[p].body, seq |-> draft[p].seq - 1,
                 run |-> draft[p].run, group |-> draft[p].group, way |-> draft[p].way]

Posted(p) == [by |-> Me(p), body |-> draft[p].body, seq |-> draft[p].seq,
              run |-> draft[p].run, group |-> draft[p].group, way |-> draft[p].way]

\* Mutant: the counter does not move.
CommittedUncounted(p) ==
    /\ log' = Append(log, Posted(p))
    /\ counter' = counter
    /\ lock' = Free

Committed(p) ==
    /\ log' = Append(log, Posted(p))
    /\ counter' = draft[p].seq + 1
    /\ lock' = Free

CommitReply(p) ==
    /\ pc[p] = "commit"
    /\ Committed(p)
    /\ Goto(p, "own")
    /\ UNCHANGED <<members, aged, redisVars, run, draft, shown, faults>>

\* A statement throws: rolled back, or committed with the answer lost.  Nothing
\* of what follows the transaction runs.
TxFails(p) ==
    /\ pc[p] \in InTx
    /\ faults.tx < MaxTx
    /\ faults' = [faults EXCEPT !.tx = @ + 1]
    /\ \/ pc[p] = "commit" /\ Committed(p)
       \/ lock' = (IF lock = p THEN Free ELSE lock) /\ UNCHANGED <<log, counter>>
    /\ Done(p)
    /\ UNCHANGED <<members, aged, redisVars, run, shown>>

\* p waits for q's FOR SHARE with the counter row locked, q for the counter row.
Deadlocked(p, q) == pc[p] = "touch" /\ lock = p /\ pc[q] = "claim"

\* PostgreSQL's deadlock detector aborts one of the two.
DeadlockVictim(p) ==
    /\ \E q \in Procs \ {p} : Deadlocked(p, q) \/ Deadlocked(q, p)
    /\ lock' = IF lock = p THEN Free ELSE lock
    /\ Done(p)
    /\ UNCHANGED <<log, counter, members, aged, redisVars, run, shown, faults>>

-----------------------------------------------------------------------------
(* After the commit. *)

RecordOwn(p) ==
    /\ pc[p] = "own"
    /\ RecordSeen(Me(p), draft[p].seq)
    /\ Goto(p, IF RunIdKnown THEN "count" ELSE "clear")
    /\ UNCHANGED <<roomVars, hold, turnPost, run, draft, shown>>

\* recordTurnPost: a GET, then a SET of the count it makes.
CountPost(p) ==
    /\ pc[p] = "count"
    /\ \/ /\ LET prior == turnPost[Me(p)]
             IN  Set(p, [draft[p] EXCEPT !.base =
                            IF prior.posts > 0 /\ prior.run = draft[p].run
                            THEN prior.posts + 1 ELSE 1])
          /\ Goto(p, "mark") /\ UNCHANGED faults
       \/ RedisError /\ Goto(p, "clear") /\ UNCHANGED draft
    /\ UNCHANGED <<roomVars, redisVars, run, shown>>

MarkPost(p) ==
    /\ pc[p] = "mark"
    /\ \/ /\ turnPost' = [turnPost EXCEPT ![Me(p)] =
                            [run |-> draft[p].run, posts |-> draft[p].base]]
          /\ UNCHANGED faults
       \/ RedisError /\ UNCHANGED turnPost
    /\ Goto(p, "clear")
    /\ UNCHANGED <<roomVars, seen, hold, run, draft, shown>>

DropHold(p) ==
    /\ pc[p] = "clear"
    /\ ClearHold(Me(p))
    /\ Done(p)
    /\ UNCHANGED <<roomVars, seen, turnPost, run, shown>>

-----------------------------------------------------------------------------
(* The other commands and actors. *)

\* cumora messages and glance show the last rows, /runtime/inbox the unread rows
\* of others; each records the highest row it returns.
Look(p) ==
    /\ pc[p] = "idle" /\ Me(p) \in members
    /\ faults.looks < MaxLooks
    /\ faults' = [faults EXCEPT !.looks = @ + 1]
    /\ \E first \in DOMAIN log, all \in BOOLEAN :
          LET rows == {i \in first..Len(log) : all \/ log[i].by # Me(p)}
          IN  /\ \E i \in DOMAIN log :
                    IsLast(i, rows) /\ Set(p, [NoDraft EXCEPT !.base = log[i].seq])
              /\ shown' = [shown EXCEPT ![Me(p)] = @ \cup {log[i].seq : i \in rows}]
    /\ Goto(p, "show")
    /\ UNCHANGED <<roomVars, redisVars, run>>

Show(p) ==
    /\ pc[p] = "show"
    /\ RecordSeen(Me(p), draft[p].base)
    /\ Done(p)
    /\ UNCHANGED <<roomVars, hold, turnPost, run, shown>>

\* cumora ack, and unmarkThinking at the end of a turn of this conversation.
Ack(a) ==
    /\ hold[a] > 0
    /\ ClearHold(a)
    /\ UNCHANGED <<roomVars, seen, turnPost, run, pc, draft, shown>>

EndTurn(a) ==
    /\ run[a] < MaxTurns
    /\ run' = [run EXCEPT ![a] = @ + 1]
    /\ ClearHold(a)
    /\ UNCHANGED <<roomVars, seen, turnPost, pc, draft, shown>>

\* No transaction holds the conversation FOR SHARE or the counter row.
RoomUnlocked == \A p \in Procs : pc[p] \notin InTx

Row(by, body) == [by |-> by, body |-> body, seq |-> counter, run |-> 0,
                  group |-> Grp, way |-> "none"]

\* The HTTP route locks the conversation FOR UPDATE for its whole transaction.
Speak ==
    /\ RoomUnlocked /\ Len(log) < MaxLen /\ Human \in members
    /\ \E body \in Bodies : log' = Append(log, Row(Human, body))
    /\ counter' = counter + 1
    /\ UNCHANGED <<lock, members, aged, redisVars, run, pc, draft, shown, faults>>

\* A retried POST with a known client id claims a sequence and inserts nothing.
RepeatedPost ==
    /\ RoomUnlocked /\ faults.gaps < MaxGaps
    /\ counter' = counter + 1
    /\ faults' = [faults EXCEPT !.gaps = @ + 1]
    /\ UNCHANGED <<log, lock, members, aged, redisVars, run, pc, draft, shown>>

\* A member leaves, or another invites or kicks somebody; the change posts a
\* notice in the name of whoever made it.
Move ==
    /\ RoomUnlocked /\ Len(log) < MaxLen /\ faults.moves < MaxMoves
    /\ \E actor \in members, x \in Agents \cup {Human} :
          /\ members' = IF x \in members THEN members \ {x} ELSE members \cup {x}
          /\ log' = Append(log, Row(actor, Notice))
    /\ counter' = counter + 1
    /\ faults' = [faults EXCEPT !.moves = @ + 1]
    /\ UNCHANGED <<lock, aged, redisVars, run, pc, draft, shown>>

\* Keys expire (seen and turnpost after 600 s, a hold after 120 s), messages age.
Lapse ==
    /\ faults.lapses < MaxLapses
    /\ faults' = [faults EXCEPT !.lapses = @ + 1]
    /\ \/ /\ \E a \in Agents :
                \/ seen[a] > 0 /\ seen' = [seen EXCEPT ![a] = 0] /\ UNCHANGED <<hold, turnPost>>
                \/ hold[a] > 0 /\ hold' = [hold EXCEPT ![a] = 0] /\ UNCHANGED <<seen, turnPost>>
                \/ /\ turnPost[a].posts > 0
                   /\ turnPost' = [turnPost EXCEPT ![a] = [run |-> 0, posts |-> 0]]
                   /\ UNCHANGED <<seen, hold>>
          /\ UNCHANGED aged
       \/ aged < Len(log) /\ aged' = Len(log) /\ UNCHANGED redisVars
    /\ UNCHANGED <<log, counter, lock, members, run, pc, draft, shown>>

-----------------------------------------------------------------------------
Preflight(p) ==
    \/ ReadTurnPost(p) \/ MonologueGate(p) \/ ConsumeHold(p) \/ StaleToken(p)
    \/ GetSeen(p) \/ Freshness(p) \/ VerbatimDup(p) \/ HeldSeen(p) \/ HeldHold(p)

Transaction(p) ==
    BeginTx(p) \/ ClaimSequence(p) \/ Recheck(p) \/ Touch(p) \/ CommitReply(p) \/ DeadlockVictim(p)

Afterwards(p) == RecordOwn(p) \/ CountPost(p) \/ MarkPost(p) \/ DropHold(p)

Advance(p) == Preflight(p) \/ Transaction(p) \/ Afterwards(p) \/ Show(p)

Next ==
    \/ \E p \in Procs : Start(p) \/ Look(p) \/ Advance(p) \/ TxFails(p)
    \/ \E a \in Agents : Ack(a) \/ EndTurn(a)
    \/ Speak \/ RepeatedPost \/ Move \/ Lapse

Spec == Init /\ [][Next]_vars

\* Every awaited statement returns, and PostgreSQL grants a row lock in the order
\* of the requests.  Nobody has to start, read or speak.
FairSpec ==
    Spec /\ \A p \in Procs : WF_vars(Advance(p)) /\ SF_vars(ClaimSequence(p))

-----------------------------------------------------------------------------
(* Properties *)

\* A sequence is claimed and its row committed under one lock, so rows become
\* visible in sequence order: the cursors and tokens, which are sequences,
\* could otherwise pass a row that commits late (counter row lock of cmdReply).
CommitOrder ==
    /\ \A i, j \in DOMAIN log : i < j => log[i].seq < log[j].seq
    /\ \A i \in DOMAIN log : log[i].seq < counter

\* In a group no agent repeats the last text message of somebody else, whatever
\* commands run at once and whatever flags, acknowledgements and failures are
\* in play (verbatim-dup check inside the transaction).
NoVerbatimDup ==
    \A i \in DOMAIN log :
        log[i].by \in Agents /\ log[i].body # Notice /\ log[i].group =>
            ~ \E j \in 1..(i-1) :
                /\ log[j].by # log[i].by /\ log[j].body = log[i].body
                /\ \A k \in (j+1)..(i-1) : log[k].by = log[i].by \/ log[k].body = Notice

\* The cursor always stands on a row its agent was shown or wrote itself: a LIMIT,
\* a kept token or a parallel command never moves it onto an unknown row.
SeenHonest ==
    \A a \in Agents : seen[a] > 0 =>
        \/ seen[a] \in shown[a]
        \/ \E i \in DOMAIN log : log[i].seq = seen[a] /\ log[i].by = a

\* An override that passed its check acknowledges the room as it then was: the
\* newest message of a peer at that moment has been shown to the agent, although
\* the token was banked earlier, possibly by another command.
OverrideInformed ==
    \A p \in Procs :
        pc[p] = "begin" /\ draft[p].armed /\ draft[p].base > 0 => draft[p].base \in shown[Me(p)]

\* The gates against monologues read before the transaction and are used after it:
\* they promise something to an agent that runs one command at a time.
OneAtATime == \A p, q \in Procs : Owner[p] = Owner[q] => p = q

\* Announce, then deliver: a post admitted as the delivery of its turn is at most
\* the MaxPosts-th of that turn, as long as no call failed and no key expired.
DeliveredOnce ==
    OneAtATime /\ faults.redis = 0 /\ faults.tx = 0 /\ faults.lapses = 0 =>
        \A i \in DOMAIN log :
            log[i].way = "delivery" =>
                Cardinality({j \in 1..(i-1) : log[j].by = log[i].by /\ log[j].run = log[i].run})
                    < MaxPosts

\* Nor does an agent, unasked, follow its own recent message outside that turn, as
\* long as it changes no membership, which posts a row in its name.
NoMonologue ==
    OneAtATime /\ faults.moves = 0 =>
        \A i \in DOMAIN log :
            i > 1 /\ log[i].by \in Agents /\ log[i].way = "open" => log[i-1].by # log[i].by

\* Every command ends, deadlocks of the transaction included.
CommandsEnd == \A p \in Procs : pc[p] # "idle" ~> pc[p] = "idle"

\* Retrying converges: an agent that keeps re-sending is held for freshness only
\* finitely often once the others are silent (the envelope moves its cursor).
HoldsConverge == \A p \in Procs : <>[][~ (Freshness(p) /\ pc'[p] = "heldseen")]_vars

-----------------------------------------------------------------------------
(* What comments and documents say, and the code does not do. *)

\* cli.ts: the counter lock serialises concurrent replies.
RepliesSerialise == ~ \E p, q \in Procs : Deadlocked(p, q)

\* cli.ts: when the cursor moves on to one's own message, the peer messages it
\* passes are "things I obviously saw".
SawWhatCameBefore ==
    [][\A p \in Procs :
          RecordOwn(p) /\ seen[Me(p)] > 0 =>
              \A i \in Newer(Me(p), seen[Me(p)]) :
                  log[i].seq < seen'[Me(p)] => log[i].seq \in shown[Me(p)]]_vars
=============================================================================
