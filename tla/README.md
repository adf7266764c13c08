# Cumora in TLA+

Cumora is a messaging workspace in which people and AI agents share conversations, documents,
boards and a calendar.  Agents run in the cloud or on a member's own computer (BYOA), are woken
when something concerns them, work in *turns*, and act through one command line, `cumora`.  The
server is a set of identical Node replicas over one PostgreSQL and one Redis.

What is hard about this program is not any single handler.  It is that several replicas, several
agents, parallel commands of one agent and several periodic workers act on the same rows and keys
with awaits between their statements, and that processes restart, Redis calls fail, streams go
silent and language models answer after minutes.  This directory models that part of the code,
checks it with TLC and proves some of its properties with TLAPS.

Paths below are relative to `src/server/src/` unless they start with `src/`.

## 1. The system and its components

| component | state it keeps | operations | how it interacts |
|---|---|---|---|
| Realtime outbox (`realtime-outbox.ts`) | table `realtime_outbox` | enqueue, sweep, discard, claim a batch, publish, settle | every mutation enqueues in its transaction; Redis fans out to `ws.ts` and the scheduler |
| Reply gates (`agents/cli.ts`, `agents/seen-boundary.ts`) | messages, `conversation_counters`, Redis `seen`, `held` and `turnpost` keys | `reply`, `messages`, `ack` | agents run the commands, in parallel; people post through `api/router.ts` |
| Worklog (`agents/runtime/inproc-client.ts`) | a Redis hash of claims | `claimWork`, `releaseWork` | commands that make documents, images, events |
| Agent inbox and turn loop (`agents/computer/daemon.ts`, `inproc-client.ts`) | `conversation_reads`; in the daemon `busy`, `pendingRerun`, timers, back-offs, briefs | wake, poll, snapshot, triage, engine, ack, reply | wake stream from the server, engine process, `cumora reply` |
| Calendar dispatcher (`calendar.ts`, `recurrence.ts`) | `calendar_events`, `calendar_dispatches`, `calendar_reminders` | tick, dispatch, remind, PATCH, DELETE | posts messages that wake agents |
| Wake and control bus (`agents/runtime/wake-bus.ts`, `agents/computer/control-bus.ts`) | SSE subscribers, Redis subscriptions | attach, deliver, revoke | between scheduler and daemons |
| Scheduler, steering (`agents/scheduler.ts`, `agents/steer.ts`, `agents/climate.ts`) | timers, presence | wake the right agents, retry, steer a running turn | messages in, wakes out |
| Routing elections (`agents/routing-claims.ts`) | table `agent_routing_claims` | elect, sweep leases, fan out | scheduler, `agent_runs` |
| Membership, direct conversations (`agents/membership.ts`, `agents/private_chat.ts`) | members, system rows | add, remove, open a DM | row locks shared with replies and posts |
| Documents (`documents/`) | Yjs rooms, update log, snapshots | subscribe, edit, compact | instances exchange updates over Redis |
| E-mail (`email.ts`, `email-retry.ts`, `api/inbound-email.ts`) | `email_messages` | send, retry, receive | provider, workers |
| Polls (`polls.ts`) | `poll_votes`, `messages.poll` | vote, close, expire | outbox |
| Cloud turns and orchestrator (`agents/turn.ts`, `agents/runtime/orchestrator.ts`, `agents/llm-ledger.ts`) | runs, pods, ledger | run a turn, admit a pod | kubectl, models |
| Computer registry (`agents/computer/registry.ts`) | computers, shares, pairing codes | pair, share, revoke | daemons |
| Shipping (`api/shipping-router.ts`, `shipping-maintenance.ts`) | features, releases, leases | plan, review, release, recover | agents |
| Deployment recovery (`deploy/recovery.ts`) | none (pure) | snapshot, receipt, rollback patch | CI workflow |
| Message store of the client (`src/src/stores/messages.ts`) | cached rows, bubbles, `loaded`, `hasMoreOlder` | load, reload, scroll up, live events, send, retry | HTTP API, WebSocket |
| Clean-up (`workspace-cleanup.ts`, `email-gc.ts`, `db-gc.ts`) | job queue | claim, delete, settle | object storage |
| Accounts, WebSocket, push, rest of the frontend, desktop, mobile, FUSE | | | request-response, best effort or other languages |

`PROJECT.json` lists every component with what is and is not modelled of it, and every hazard at
its line.

What makes each of the modelled components correct:

* **Outbox** - a committed event is published at least once or discarded on purpose, the verdict is
  final, the delivery budget is kept, no row waits for ever.
* **Reply gates** - rows become visible in sequence order (all cursors are sequences); nobody says
  again what was just said, in whatever interleaving; the cursor and the override token never
  stand for rows the agent has not been shown; one announcement and one delivery a turn; a held
  reply is not held for ever.
* **Worklog** - one worker on a subject, and never a subject blocked by a dead holder.
* **Inbox** - no wake is lost by coalescing; a turn marks as read what it put before the agent, and beyond
  that only rows of a conversation with more unread than its share of the digest (the code does so on
  purpose, section 5); a manual brief survives failures; everything is read in the end.
* **Calendar** - every occurrence is posted at most once, the history is honest, no occurrence is
  skipped silently, no series stands still.
* **Routing elections** - one candidate after the other gets the message nobody is named in, a verdict
  rests on what really happened, and in the end everybody it is for has been woken or worked on it, but for
  agents the code is known to leave out (section 5).
* **Documents** - what a load can find is never lost again, and an open room lacks only what the code
  admits it may lack.
* **E-mail** - a mail is sent or given up in the end, is not sent for ever, and a sent one stays sent.
* **Polls** - a closed poll is closed for good, and its close gets a wake of its own, which a subscribed
  runtime of the author is handed; a wake that finds nobody is given up (section 5).
* **Board wakes** - the agent is woken although the retries of its wakes share one key.
* **Wake bus** - a stream that is ready misses nothing until it is closed, whatever the other streams of
  its server do.
* **Message store** - a person sees no message twice and misses none for good, whatever the socket, the
  requests and the retries of a send do.

## 2. Modules

```
EventDelivery  <--refined by--  Outbox     <- MCOutbox <- MCDelivery     OutboxProofs
       ^                        EmailRetry, WakeBus <- MCDelivery        DeliveryProofs
       +-------uses----------   Polls      <- MCDelivery                 DeliveryProofs
                                WakeRetry  <- MCDelivery                 WakeRetryProofs
                                ReplyGate  <- MCReplyGate <- MCReplyRooms ReplyGateProofs
                                Worklog    <- MCWorklog <- MCServices    ServicesProofs
                                RoutingClaims <- MCServices              ServicesProofs
                                Documents  <- MCServices                 ServicesProofs
                                AgentInbox <- MCAgentInbox <- MCReaders  AgentInboxProofs
                                MessageStore <- MCReaders                MessageStoreProofs
                                Calendar   <- MCCalendar                 CalendarProofs
```

`MCServices`, `MCDelivery`, `MCReplyRooms` and `MCReaders` run several specifications in one run of TLC: the constant
`part` says which one a behaviour belongs to, the variables of the others keep their initial values.
Components in such a sum share no state; `MCReaders` has two parts for `AgentInbox`, everything about one
conversation, and the reading of several.  `Polls` is a real composition: its events go through
`EventDelivery`, the promise that `Outbox` is shown to implement.

Each component's module declares its parameters and bounds as constants with a named assumption;
the `MC` module only holds values for TLC or builds the sum, the `Proofs` module only theorems and what they need.  Ghost variables, which no
action of the code reads, are marked in the declarations.  Operators whose comment begins with *Mutant*
are plausible mistakes that no specification uses.  Each stands before the definition it is a wrong version
of, and `PROJECT.json` pairs the two with the property that notices the difference.

### Outbox and EventDelivery

`EventDelivery` is the promise of the header of `realtime-outbox.ts`: enqueue, deliver (any number
of times), acknowledge only after a delivery, drop, forget.  `Outbox` has one action per SQL
statement of the dispatcher: `Commit` (enqueueBroadcast at the commit of the mutation),
`CleanupTerminalRows`, `DiscardExpired`, `ClaimBatch`, then for each row of the batch a *flight*:
`Publish`, `MarkPublished` or `MarkFailed`.  The flights of a batch run concurrently (`Promise.all`), and
those of a drain whose statement failed go on after the worker has started the next drain.  Time is what
the statements compare: a lease is live or over, a back-off is over or not, a row is young or not.
`Crash` leaves leases in the name of nobody alive.  PostgreSQL serialises the statements; SKIP LOCKED makes
concurrent claims disjoint, hence one atomic `ClaimBatch`.

### ReplyGate

`cmdReply`, one awaited statement per step: `ReadTurnPost`, `MonologueGate`, `ConsumeHold`,
`StaleToken`, `GetSeen`, `Freshness`, `VerbatimDup`, then the transaction `BeginTx`,
`ClaimSequence`, `Recheck`, `Touch`, `CommitReply`, then `RecordOwn`, `CountPost`, `MarkPost`,
`DropHold`; a HELD envelope takes `HeldSeen` and `HeldHold`.  Redis calls may fail as
`seen-boundary.ts` catches them.  `Look` and `Ack` are the other commands that move the cursor,
`Show` is the end of a held command, `EndTurn` drops the tokens.  People post with `Speak`, a
retried request burns a sequence (`RepeatedPost`), membership changes write system rows (`Move`),
keys expire (`Lapse`).  Row locks: `lock` is the counter row; `DeadlockVictim` is PostgreSQL aborting one
of two replies that wait for each other.

### Worklog

One hash field, call by call: `Hsetnx`, `Expire`, `Hget`, `Evict` (HDEL, then HSETNX is the next
`Hsetnx`), `Look`; `ReleaseGet` and `ReleaseDel`.  The command of `cli.ts` that holds the claim is
`pc = "work"`.  Calls fail with their effect made or not.  `Tick` is a gap longer than the 300 s TTL.

### AgentInbox

The server side has transactions ordered by their start (`created_at` and `NOW()` are transaction
starts) that become visible in any order; a cursor is a place in that order.  The daemon side has the
turn loop: `ScheduleWake` with `busy`, `pendingRerun`, debounce and back-off; `Read` (the inbox query with
its LIMIT: the server takes all rows for seen, `fetched`), the triage verdicts, `StartEngine` with the
`Digest` of the prompt (`renderInboxDigest`: quiet conversations first, each an even share of the lines that
are left), which alone is `shown`, `EngineOk` or `EngineFails`, `AckSeen` for each
conversation, `Loop` for the coalesced rerun; the agenda turn; the poll, reconnects, manual wakes with
a brief, `Crash`.  While the engine works the agent may read, ack and reply (`Look`, `Ack`,
`BeginReply`, `Reply`), and so may an abandoned engine.

### Calendar

`tickCalendar` of any number of overlapping executions on one event.  `Begin` is the query and the
plan made from its copy of the row (`Exhausted`, `Ahead`, `Due`, `Expired`, `Behind`: the branches of
lines 457-521); `Claim`, `Resolve`, `Post`, `Mark`, `MarkFailed`, `Settle` are `dispatchEvent` and the
update after it; `Remind` and `Notify` are `sendReminder`.  `Abort` is a crash or a throw outside the try
blocks.  `Patch` and `Delete` are the routes of `api/router.ts`, and `cumora calendar update` and
`delete` do the same.  Occurrences are computed by index from the seed, as in `recurrence.ts`; weekdays
and month lengths are not.

### RoutingClaims

The message that names nobody: `Hear`, `FanOut` or `Elect` are the handler of `scheduler.ts`, once per
delivery of the event; `Take` renews the lease of the row a pass of the sweep found (`Renewed`), then
`Serve`, `Lagging`, `Exhaust` or `Move` decide from the copy the pass has.  The wakes of a pass follow
when it is over (`Wake`, `PassDone`).  `HasRunSince` and `Behind` are the two queries over `agent_runs`
and `conversation_reads`.  `PassesBy` is a post of an agent whose run began before the election: it moves
that agent's cursor past the message, so that `Behind` does not find it (`passed`).  `lost` names the agents
whose wake was only in the memory of a handler or a pass that died.  Passes overlap, statements fail, leases run out under a pass.

### Documents

An update is an element, a document the set of updates applied.  `BeginLoad`, `ReadState`, `Hydrate` and
`CloseRoom` are the life of a room in one server; `Edit` changes the room, starts the insert (`Insert`,
`Commit`: the id is taken before the row is visible) and publishes; `Receive` drops what comes before
the room is hydrated; `BeginCompact` and `Compact` are `compactDocument` with its snapshot of rows.

### EmailRetry

The request writes the row first (`Submit`), sends and records (`FirstSettle`).  A tick claims a batch
(`ClaimDueRetries`, which pushes the date by five minutes and commits) and works through it:
`RetrySend`, `RetrySettle` with the number of its copy.  `DateComes` under a batch that has not come to
the row is an *overrun*.

### Polls

`BeginVote` and `BeginClose` are the locked read with its checks, `CommitVote` and `CommitClose` the
change with its event.  `PublishEvent`, `Acked` and `Dropped` are what the outbox promises; a published event
starts `handlePollUpdated`: `ClaimWake` (SETNX), then the one call of `wakeAgent`: `WakeAuthor` when a runtime
is subscribed by the end of the replay window (`present`), `NobodyThere` when none is; its answer is dropped.
The author's runtime comes and goes as it likes (`AuthorComesOrGoes`).

### WakeRetry

`wakeOne` for the brief of a board action, one call to Redis per step: `Deliver`, `ResolveHost`,
`EnsurePod`, `PutJob` and `QueueJob` (HSET, ZADD), the replay loop `Replay`, `CancelMember` and `CancelJob`
(ZREM, HDEL).  A retry worker claims an id (`ClaimRetry`, `GetJob`, `DeleteJob`) and runs the same steps.

### WakeBus

The streams of one agent: `Attach` is in the set at once and asks Redis only as the first; `Execute`,
`BecomeReady` and `FanOutWake` are the connection to Redis, which keeps its order; `DeliverTo` is the
promise chain of a subscriber, whose pending entries are bounded; `Shut`, `Revoke` and `Disconnect` are the
three ways out.  `owed` notes for each wake who was ready over a subscription that was there; streams that were
told so too early are `"early"` until it is.

### MessageStore

One conversation in one client; a message is its sequence number.  The server appends in the order of the
numbers (`CommitOrder` of `ReplyGate`) and publishes at least once, in any order (`EventDelivery`); a retried
send burns a number (`Persist`).  `OpenConversation`, `Prefetch`, `SidebarMoved`, `LoadOlder` and `Hello` start
fetches, `ReadPage` is one request of a fetch, which goes on down to `CompleteThrough` of the cache, and
`FetchAnswers` merges the result into whatever the cache is by then.  `MessageNew` is the live event,
`SocketCloses` loses those under way.  `SendUserMessage`, `PostAnswers`, `PostRejected`, `PostUnconfirmed`,
`RetryFailedMessage` and `DiscardFailedMessage` are the life of a bubble; a POST that the client gave up may
still arrive (`OrphanArrives`).  The ghost `stale` notes when the cache may have a hole that the code does not
know of; section 5 lists how that comes about, and `ShownOnce` promises nothing until the next fetch that
began after the last outage has put it right.

## 3. What is checked

| run | instance | shows |
|---|---|---|
| `outbox_safety` | 2 dispatchers, 2 rows, budget 2, and a crash, or a lease that runs out under a hung call with a failed statement | `AttemptBudget`; `OnePublisherPerLease`; `ImplementsDelivery` (refinement) |
| `reply_rooms` | *room*: 2 agents, 1 person, two of: a changed membership, a retried post that burns a sequence, an expired key; *turns*: 1 agent, 2 turns, 2 drafts, `--continue`, a command that reads the room | `CommitOrder`; `NoVerbatimDup`; `DeliveredOnce`; `NoMonologue` |
| `reply_live` | 2 parallel commands of one agent, `--send-anyway`, an envelope of one row, a failing Redis call, a failing transaction | type invariant; `SeenHonest`; `OverrideInformed`; `CommandsEnd`; `HoldsConverge` |
| `inbox` | *agent*: 1 conversation, 3 transactions of which 2 overlap, 1 failure anywhere, 1 brief; *rooms*: 2 conversations, 4 messages of which 2 overlap, a query of 3 rows, a digest of 2 lines; *screen*: a client with one send, 3 numbers, pages of 1, 1 mishap after the first connection | types; `QuietMeansRead`; `ShownOnce`; `AckOnlySeen`; `BriefKept`; `EveryMessageRead` |
| `calendar` | 2 overlapping ticks, a one-shot or a series of two, 1 failure or crash, 1 edit | type invariant; `OncePerOccurrence`; `HistoryHonest`; `NoSilentSkip`; `SeriesMovesOn` |
| `services` | *worklog*: 3 commands of 2 agents, 2 failing calls, a crash, gaps at any time; *claims*: 3 agents, one muted, one in a run from before, 2 deliveries of the event, 2 passes, a failure or an overrun; *docs*: 2 servers, 2 updates, a fault | types; `OneWinner`; `NeverBlocked`; `VerdictHonest`; `OneAdvancePerRound`; `NobodyLeftOut`; `CommittedStays`; `OnlyTheGap` |
| `delivery` | *outbox*: 1 dispatcher, 2 rows, one fault; *mail*: 2 mails, 2 ticks, 2 faults; *poll*: 2 voters, a vote and the close, 1 fault, the author's runtime comes and goes; *retry*: a board wake, 2 retry workers, 1 fault; *wakes*: 3 streams at a server, 2 wakes, 1 fault | types; `EveryEventSettles`; `RetryBudget`; `SentStays`; `MailSettles`; `ClosedIsFinal`; `AuthorHearsOfClose`; `AgentIsWoken`; `NoGapUntilClosed` |
| `reply_deadlock` | 2 agents | **violated**: `RepliesSerialise` |
| `reply_blind_spot` | 1 agent, 1 person | **violated**: `SawWhatCameBefore` |
| `worklog_evict` | 2 agents | **violated**: `EvictsOnlyStale` |
| `inbox_mid_turn` | a DM and a group | **violated**: `MidTurnStaysUnread` |
| `wake_twice` | 1 board action, 2 retry workers, no fault at all | **violated**: `HeardOnce` |

### Bounds, and why they are enough

* *Faults* are bounded by a count that each run spends wherever it likes.  One or two are enough to
  place a failure at every statement; what two faults together do is in the *room*, *worklog* and *mail*
  parts and, with different kinds, in `outbox_safety` and `reply_live`.
* *Outbox*: two rows and a batch of two give a batch with one slow and one quick row, and two dispatchers
  a second claim of the same row; a budget of two gives a first failure, a last one and a late one.
  `CrashAlone` (a state constraint) leaves out a crash together with the other two.
  The symmetry over the workers is sound (no constant names one) and that run has no liveness property.
  `OneFault` of `MCDelivery` lets the dispatcher of the liveness run have one fault of any kind.
* *ReplyGate*: three messages are the smallest room in which something lands between two steps of two
  commands, and one draft text makes every draft a potential duplicate.  The *turns* part takes two texts
  and four messages because the exemption counts posts of a turn.  Agents and their commands are
  swapped together; texts are interchangeable (`RoomsSymmetric`).  `HeldLimit = 1` makes the LIMIT of the
  envelope cut something off.  `TwoFaults` (a state constraint of `reply_rooms`) stops after any two of the
  three faults of that run.
* *Worklog*: two commands of one agent and one of another tell *mine* from *my command's*.
* *AgentInbox*: two overlapping transactions commit in either order.  In the *rooms* part `Limit = 3` against
  four messages cuts a row off, and two lines for two conversations are one each, so that a snapshot of two
  rows of one room and one of the other leaves a row of the busy room without a line.  The agent of this part
  reads and does not write, and one wake is under way at a time; replies, failures, briefs and wakes that pile
  up are in the *agent* part (`DirectOnly`).
* *Calendar*: the period is longer than the catch-up window, so a backlog may have a slot in the
  window, only future slots, or none.  The clock goes on after the last occurrence long enough for
  both of a series to be too old.  A tick looks at two slots, the one after the last firing and the one of
  the window; only a slow tick that sets `last_fired_at` back needs a third before them, and for that case
  the theorems of `CalendarProofs` hold for every schedule.
* *RoutingClaims*: a lineup of two candidates and a muted third who is only lagging; two passes on one row.
  One of the two candidates is in a run from before; either of them may come first.
* *Documents*: two updates can take ids in one order and commit in the other, under a compaction of the
  other server.
* *EmailRetry*: a batch of two has a tail that waits for its head; two ticks overlap on it.
* *WakeBus*: a first stream that waits for Redis, a second that does not, a third that takes the place
  of either; one pending wake is the bound, the second exceeds it.  Another server shares only the
  wake itself with these streams.
* *MessageStore*: with pages of one row every bridge takes several requests; three numbers are what comes
  before, in and after an outage.  `ShortScreen` (a state constraint) allows two fetches at a time while all is
  published and at most one event is on the way, and the send of this client while the log is short.  A cache starts without a
  connection, so an outage precedes the one mishap.

Deadlock checking is off where the system may stop: nobody has to post, start a command, or keep an event.
It is on for `outbox_safety` and the inbox.

### Fairness

* `Outbox`: workers tick by setInterval, awaited calls return, leases and back-offs run out.  No
  row has to be committed or to age.
* `ReplyGate`: an awaited statement returns (weak fairness for each command); PostgreSQL grants a row
  lock in the order of the requests, so the waiter for the counter row gets it in the end although
  others keep asking (strong fairness of `ClaimSequence`).
* `Worklog`: calls return and time passes.  `NeverBlocked` speaks only of subjects somebody keeps
  asking for.
* `AgentInbox`: the daemon goes on, the poll fires, replies in progress end, back-offs pass.  Wakes are
  *not* fair: the poll has to make up for every lost one.
* `Calendar`: the clock goes on, the interval of every replica fires again (after a restart too),
  statements return.  `SeriesMovesOn` excludes the event whose next occurrence is still ahead or inside
  the catch-up window at the horizon.
* `RoutingClaims`, `EmailRetry`, `WakeRetry`: awaited calls return, timers fire, dates and leases pass.
  These are finitely many steps in all, so weak fairness of their union says the same as weak fairness
  of each.  No agent has to start a turn, no pod has to come up, no event has to be repeated.
* `Polls`: the sweeper comes by, transactions end, an event that is not dropped is published (`Outbox`
  shows that), its handler goes on, and a wake that was begun ends.  Nobody has to vote or to close, and no
  runtime of the author has to come.
* `MessageStore`: none; its one property is a safety property.
* `MCServices`, `MCDelivery` and `MCReaders` state the same conditions for the behaviours of the part they belong to.

## 4. What is proved

All theorems are for every value of the constants that the assumptions allow: any number of workers,
rows, agents, commands, conversations, transactions, streams, mails, ticks, schedules and faults.  The
assumptions say that bounds are numbers, that the sets of mails and of agents in a room are finite, and that
the constants that stand for "none" or "unsubscribe" are not among the values they are told apart from (a client id is not the mark of a message of somebody else).

* **Outbox** (`OutboxProofs`).  `IInv == TypeOK /\ AttemptBudget /\ FlightsSent` is inductive.
  `AttemptBudget` couples the counter with the lease (a leased row has budget left), which is what a
  late `MarkFailed` needs; `FlightsSent` says that a flight about to settle as published was accepted
  by Redis.  `Spread`: the publications of a row under way are one more than the overruns at most, and
  no more than the overruns when the row may be claimed; `SKIP LOCKED`, the lease and the fence on the
  lease's holder are what it rests on.  Theorems `TypeCorrect`, `BudgetKept`, `OnePublisherAtATime`
  (`OnePublisherPerLease`), and `OutboxImplementsDelivery`: every step is a step of `EventDelivery` or a
  stutter.
* **ReplyGate** (`ReplyGateProofs`).  `LockHeld` ties the lock to the one command inside the locked
  part of its transaction and bounds its sequence by the counter; with it `CommitOrder` is inductive.
  `Checked` says that from `Recheck` to the commit the draft repeats no text of a peer; it holds because
  every other writer of the room is shut out by the locks, and gives `NoVerbatimDup`.  `Honest`: cursors,
  tokens and the bases of commands under way stand on rows the agent wrote or was told of, and the newest
  row under an acknowledgement that nothing overtook is the row of its token.  Rows stay in the room and what was
  told stays told, so it lasts while other commands run; that `CommitOrder` lets no row appear below a token is what
  keeps an acknowledgement informed.  Theorems `TypeCorrect`, `CommitsInOrder`, `NoDuplicates`,
  `CursorIsHonest` (`SeenHonest`), `OverrideIsInformed` (`OverrideInformed`).
  The gates against monologues read before the transaction and are used after it, so their properties speak of
  one command at a time per agent.  `OpenOK`: a command past the gate whose way is open still follows somebody
  else, because only its own agent could change that.  `Ledger`: from the run of the turn-post record on,
  the rows of a run are those the record counts and the one of a command between its commit and its record; and
  a delivery's allowance is still that of the record.  Theorems `NoMonologues` (`NoMonologue`), `DeliversOnce`
  (`DeliveredOnce`).
* **AgentInbox** (`AgentInboxProofs`).  `Covered`: every unread message is covered by something that will
  make the daemon look - a wake under way, the debounce timer, `pendingRerun`, a turn that is about to
  read or has it in its snapshot - unless `unsure`.  `RowsFetched`: the rows about to be acknowledged are of the
  snapshot, and so is every unread message below one of them that was there when it was taken.  `RowsDue`: they
  are whole conversations of it, and after the engine started each of them was shown or is in a conversation
  over its share.  The latter rests on the arithmetic of the digest: the conversations no busier than one with n
  rows take at most n lines each (`FewRows`), so that what is left gives n lines to every other if an even
  share of all lines is n or more (`EnoughLeft`, `LeftOut`).  Theorems `TypeCorrect`, `CoalescingIsSafe`
  (`QuietMeansRead`), `AcksAreSafe` (`AckOnlySeen`).  `ActiveInTurn`: a turn has a brief of its own only from the moment it took it to the
  answer of the engine, so an end before that answer is one that puts it back.  Theorem `BriefsAreKept`
  (`BriefKept`).
* **Calendar** (`CalendarProofs`).  Type correctness needs `Arrived` (no tick works on a slot of the
  future except for a reminder), so that `last_fired_at` never is.  `DInv`: the tick that owns a claim
  is alone on its slot, has not posted before `Post` and has posted once after it, and a slot without a
  claim has no message; deletion of the event, which removes the claims, makes every part of it weaker,
  and the foreign key keeps new claims from appearing.  `RInv` is the same for reminders.  `Planned`: the
  occurrences before the slot of a tick, from the latest value `last_fired_at` ever had, were too late when
  it read the row, unless the schedule was edited since.  The ghost `reach` is that latest value: a slow
  tick may set `last_fired_at` back, and what is passed over again then may have been tried the first time.
  Theorems `TypeCorrect`, `HistoryIsHonest`, `FiresOnce`, `NothingSkippedInSilence` (`NoSilentSkip`).
* **Worklog** (`ServicesProofs`).  `Fresh`: before a gap is over no claim is old, so nobody evicts.
  `Accounted`: a command between its claim and the end of its release that does not hold the claim is
  `Uncovered`, and there are no more of these than failed Redis calls; a release in two calls that takes
  another command's claim away covers one command less and makes one idle.  Theorems `TypeCorrect`,
  `OneWinnerAtATime` (`OneWinner`).
* **RoutingClaims** (`ServicesProofs`).  `Copied`: the round a pass holds is one the row has had, which is
  all that `VerdictHonest` needs.  Without an overrun, `OneAtWork`: one pass at a time is between its lease and
  its verdict, in the row's round; `Advanced`: no round beyond the row's was decided on.  Theorems
  `ClaimsTypeCorrect`, `VerdictsAreHonest`, `RoundsAdvanceOnce` (`OneAdvancePerRound`).  `NobodyForgotten` is
  the safety half of `NobodyLeftOut`: `InCare` says of each agent the message is for what still stands for its
  wake - a pending row, the memory of a handler or a pass, a query about to be made - unless it was reached,
  its own run from before passed the message by, or its wake died with a pass or a handler.  It is inductive with `WakesInHand` (wakes are only in the memory of
  whoever is waking) and `RunSeen` (a pass that looks for lagging members has seen its candidate run), and
  rests on the lineup of a row having everybody (`LineupComplete`, a counting argument).  Theorem
  `NobodyIsForgotten`.
* **E-mail** (`DeliveryProofs`).  `Balance`: the sends there were, those that ticks with the row in hand are
  still to make and the next one due are together within the attempts a copy will write and within the budget,
  but for one per crash, failing statement or overrun.  `OneHand`: without an overrun a row is in one hand at
  a time.  `CountsHonest`: the attempts that a row or a copy counts were made.
  Theorems `MailTypeCorrect`, `RetryBudgetKept` (`RetryBudget`), `SentMailStays` (`SentStays`),
  `GivenUpAfterItsTries` (the safety half of `MailSettles`).
* **Wake bus** (`DeliveryProofs`).  `Members` ties the set of subscribers to the streams; `Relied`: a
  subscription some ready stream relies on is there and no UNSUBSCRIBE is queued behind its back, and one that
  waits for its SUBSCRIBE will have it; `NoGap` and `InOrder`: what is owed to a stream is on the wire, pending or received, and all of that is in the order of publication.
  Theorems `BusTypeCorrect`, `StreamHasNoGap` (`NoGapUntilClosed`).
* **Polls** (`DeliveryProofs`).  `NoLateLock`: a closed poll's row is free, so nobody is between the check and
  the commit.  `CloseCarried` is the safety half of `AuthorHearsOfClose`, with `EventsNumbered` (events
  are numbered without a gap) and `CloseIsLast` (only the last event of a closed poll closes, and only that
  sets the key of the close).  It carries the close to the call of `wakeAgent`, where it was handed to a
  subscribed runtime or found none.  Theorems `PollTypeCorrect`, `CloseIsFinal` (`ClosedIsFinal`),
  `CloseWakesAuthor`.
* **Documents** (`ServicesProofs`).  `OneCompaction`: the advisory lock makes the rows and the snapshot a
  compaction has read still the ones it deletes and replaces; `SavedByOne`: an update is inserted by one
  instance, which lets go of it at the commit.  `RoomsHeard`: every room has, will get, or was noted not to have
  heard every update that is edited, so the commit of its row finds no room without an excuse.  `IdsInSequence`: the
  sequence is never behind an id that was taken, so that it bounds them by the number of updates, which
  is assumed finite.  Theorems `NothingCommittedIsLost` (`CommittedStays`), `RoomsLackOnlyTheGap`
  (`OnlyTheGap`), `DocTypeCorrect`.
* **MessageStore** (`MessageStoreProofs`).  `StoreInv` has four parts.  `RowsFit`: a row with a number is the
  message of the log with that number and its author, a bubble is of a send of this client, no two rows are the
  same message, and a send that was not made left no trace.  `FetchOK` is what each fetch under way may rely on:
  what its pages brought reaches without a gap down to its cursor (`BridgeOK`), and above the cursor
  every message is in the pages, cached, or an event on its way, as long as nothing was lost since it began
  (`BroughtOK`); a scroll upwards joins the row it began at (`OlderOK`).  `Scrolled` and `NoHole` speak of the
  screen, once nobody has to reload.  It takes the fetches into the invariant because an
  answer is merged into a cache that other answers, events and echoes have changed since it was asked
  for; the lemmas about pages (what lies between the smallest row of a page and its cursor is in the page) rest
  on smallest elements and cardinalities of sets of numbers.  Theorems `StoreIsConsistent`, `StoreTypes`,
  `EachIsShownOnce` (`ShownOnce`).
* **WakeRetry** (`WakeRetryProofs`).  `HasJob`: a task at a step of `wakeOne` carries a job.
  `WakeStands` is the safety half of `AgentIsWoken`: without a fault and with attempts left, a wake that nobody
  heard is carried by a task, or its job is in the hash with its id in the set, on its way there or
  just claimed - although the wakes share one id, so that they overwrite and claim each other's job.  With it
  are inductive `Calm` (nobody cancels what nobody heard) and `Asleep` (before the first board action there
  is nothing).  Theorems `RetryTypeCorrect`, `NoWakeIsDropped`.
* **The sums** (`ServicesProofs`, `MessageStoreProofs`, `DeliveryProofs`).  A behaviour of a sum, whose every step
  is one of a part and leaves the other parts alone, is a behaviour of each part (lemmas `SumOfServices`,
  `SumOfReaders`, `SumOfDelivery`): what is proved of a part holds in the run of the sum.  Theorems
  `ServicesTypeCorrect`, `ReadersTypeCorrect`, `DeliveryTypeCorrect`.

Only model-checked: every liveness property (`EveryEventSettles`, `CommandsEnd`, `HoldsConverge`,
`NeverBlocked`, `EveryMessageRead`, `SeriesMovesOn`, `NobodyLeftOut`, `MailSettles`, `AuthorHearsOfClose`,
`AgentIsWoken`), which is out of the prover's reach; of `NobodyLeftOut`,
`AuthorHearsOfClose`, `MailSettles` and `AgentIsWoken` the safety half is proved (`NobodyIsForgotten`,
`CloseWakesAuthor`, `GivenUpAfterItsTries`, `NoWakeIsDropped`): what is to happen is never lost on the way.

## 5. Disagreements between code and comments

With a run:

1. Two concurrent replies deadlock instead of serialising: the conversation is locked FOR SHARE before
   the counter row and updated after it (`agents/cli.ts:2300`, `2317`, `2375`; comment 2275-2279).
2. The cursor passes peer messages that committed between the freshness query and the transaction
   (`agents/cli.ts:2434`; comment 2430).
3. The eviction of a stale claim may delete a fresh one (`agents/runtime/inproc-client.ts:962`;
   comment 896).
4. A reply marks messages read that landed during the turn (`agents/cli.ts:2376`;
   `agents/computer/daemon.ts:2525`).
5. The queued health check of a pod start wakes the agent beside the wake that queued it, so one board
   action is heard twice (`agents/scheduler.ts:640`, `671`; comment 189-207).

Found while reading, each of them in the model where the module covers it, but without a run:

6. The duplicate check of a reply does not apply to direct conversations (`agents/cli.ts:2348` against
   2330); `NoVerbatimDup` therefore speaks of groups.
7. A failing counter write allows a third post of a turn (`agents/seen-boundary.ts:317` against 305,
   `agents/cli.ts:1891`), and parallel replies of one agent pass the anti-monologue gate
   (`agents/cli.ts:1904` against 1856); `DeliveredOnce` and `NoMonologue` say
   under which conditions the gates keep their promise.
8. `releaseWork` reads the owner and deletes in two calls (`agents/runtime/inproc-client.ts:999` against
   993).
9. An engine error after a reply of the same turn leaves nothing unread, although the daemon skips the
   acknowledgement "so the unread survives".
10. `CUMORA_RUN_ID` reaches only commands run in the server's process (`agents/tools-shared.ts:476`);
   `RunIdKnown` takes both values.
11. At the end of a turn only the conversation shown as typing loses its hold token
    (`agents/computer/daemon.ts:3232`).
12. The claim of an e-mail retry commits before the send loop (`email-retry.ts:95` against 60-63).
13. `run-now` uses a millisecond as its slot, which does not "absorb concurrent button-mashing"
    (`api/router.ts:6932`).
14. A stale event is said to be fast-forwarded "without firing" (`calendar.ts:33`); the code fires the
    occurrence inside the catch-up window (`calendar.ts:506`).
15. A room drops the updates that arrive while it loads (`documents/rooms.ts:283`), which the header
    (13-16) does not say; a row that commits after the load stays unheard until the room is evicted.
16. All board wakes of an agent share the retry id `agent:manual:-`, so the job of one overwrites or
    cancels the brief of another (`agents/scheduler.ts:205`: "exactly the one whose work just completed");
    HDEL after HGET may delete a newer body (237).
17. The agent of a poll is briefed from the event, not from "fresh state" (`agents/scheduler.ts:1214`).
18. A catch-up wake goes to muted members who are behind (`agents/routing-claims.ts:250`), and an overrun of
    the lease breaks "exactly one replica advances each round".
19. The second stream of an agent at a server reports ready before the subscription is confirmed, against
    "Subscribe to the Redis channel BEFORE we tell the Pod we're ready" (`agents/runtime/wake-bus.ts:317`);
    after a rejected first SUBSCRIBE no later stream subscribes while the first is in the set (278).
20. PUBLISH counts subscribed servers, not streams: a stream that died counts as a delivery until its
    server unsubscribes (`agents/runtime/wake-bus.ts:220`; `agents/scheduler.ts:510`).
21. A load under way over a reconnect marks a conversation loaded with an answer from before the outage
    (`src/src/stores/messages.ts:405`), against "refetch on next view instead of serving stale cache" (871);
    a failed reload leaves the open conversation loaded with its hole (450).
22. A conversation loaded while it was short keeps `hasMoreOlder = false` through reloads (447), so rows above
    the page of a later reload cannot be scrolled to; "only widen the optimistic guess" (446) does not widen.
23. A late or repeated event below the oldest row is an island that `loadOlder` takes for the oldest
    row, skipping what lies between (466-480).
24. A bubble whose POST answered and whose echo was lost is not re-read when its row is on a later page of a bridge
    (the filter by id, 375), and stays pinned at the tail.
25. Rows of a busy conversation that the digest of a wake has no line for are marked as read with only their
    number shown, as the comment of `renderInboxDigest` says (`agents/computer/daemon.ts:509-513`);
    `AckOnlySeen` excepts exactly the conversations over their share.  GET /inbox has moved the seen boundary
    past them too ("the caller will SHOW these rows", `agents/runtime/server.ts:201`), so no reply is held for
    them.  The command the digest announces reads the newest N rows of the room, own and read ones too, which
    need not be the unread ones (`agents/computer/daemon.ts:550`).
26. An agent in a run from before an election that posts in the room moves its cursor past the message
    (`agents/cli.ts:2376`).  The query for lagging members, which is to prevent "silent message skipping on a
    subsequent post" (`agents/routing-claims.ts:241-245`), then leaves it out (269-273), and a wake for it finds
    an empty inbox: "not deferred, gone" (`agents/scheduler.ts:1034-1037`).  `NobodyLeftOut` excepts these
    agents (`passed`).
27. A claim is written served or exhausted before anybody is woken (`agents/routing-claims.ts:184`, `197`);
    the wakes are in the memory of the pass, and a crash before they are made loses them for good.
    `NobodyLeftOut` excepts the agents whose wake it was (`lost`).
28. "Without this an agent who posts a poll ... never finds out" (`agents/scheduler.ts:1156-1159`): the wake
    of the author is made once, its false return is dropped (1309), and its reason is not retried (133).  An
    author with no subscribed runtime (576-601), and no pod that attaches within the 20 s of replay (662-676),
    is told of the close by nothing.  `AuthorHearsOfClose` excepts a wake that found nobody (`unheard`).

## 6. What is not modelled, and the plan

The order follows the importance of the behaviour for the messages that reach agents and people.

1. `Membership` and direct conversations: the order of the row locks that joins, kicks and replies share;
   one room per pair of people.
2. Daemon supervision: the spawn pacer, the semaphore over agents and its slots, the ordered shutdown.
3. `WakeBus` composed with `AgentInbox`, where `LoseWake` stands for all that the bus may lose; outages of
   Redis with resubscription, pings.
4. Idempotent creation, the clean-up queues, shipping leases; deployment recovery as operators; cloud turns.

Of the modelled components these parts are missing: named targets and batches of due rows in routing;
steering, the wake budget and climate in the scheduler; tallies and creation of polls; inbound e-mail and
attachments; awareness and Markdown in documents;
streaming, typing, reactions and reply counts in the message store.

Left out for good: what models answer (every verdict and outcome is possible in the specifications),
rendering and wording, provider protocols, Kubernetes objects, schema migration, the FUSE client,
the desktop and mobile shells.  They have little state shared between actors, or are other people's.
