------------------------------ MODULE Calendar ------------------------------
(***************************************************************************)
(* The calendar dispatcher of src/server/src/calendar.ts on one event.     *)
(* Every replica ticks once a minute, and setInterval does not wait for    *)
(* the tick before: several ticks are under way at once, each with its own *)
(* copy of the row and its own idea of the time.  A step is one awaited    *)
(* statement.                                                              *)
(*                                                                         *)
(* Left out: run-now (it dispatches for the current millisecond and never  *)
(* touches the series), what a reminder says, weekdays and month lengths   *)
(* (an occurrence is a multiple of the period), the broadcast of each      *)
(* change (Outbox).                                                        *)
(***************************************************************************)
EXTENDS Integers

CONSTANTS
    Tickers,        \* executions of tickCalendar that may overlap
    Starts,         \* values of start_at
    Rules,          \* recurrence rules: period and count of firings
    Catchup,        \* MAX_CATCHUP_MS
    Lead,           \* reminder_minutes_before, 0 without a reminder
    Horizon,        \* bound on the clock
    MaxFaults, MaxEdits     \* bounds on failures and on PATCH requests

Times == 0..Horizon
Never == -1         \* last_fired_at IS NULL

ASSUME CalendarAssumption ==
    /\ Catchup \in Nat /\ Lead \in Nat /\ Horizon \in Nat
    /\ MaxFaults \in Nat /\ MaxEdits \in Nat
    /\ Starts \subseteq Times
    /\ Rules \subseteq [every : Nat, count : Nat \ {0}]

VARIABLES
    clock,
    event,      \* the calendar_events row; reach (ghost): the latest last_fired_at it had
    disp,       \* disp[s]: status of the calendar_dispatches row of slot s
    rem,        \* rem[s]: status of the calendar_reminders row of slot s
    posts,      \* posts[s]: messages posted for slot s
    notified,   \* notified[s]: reminders sent out for slot s
    tick,       \* tick[t]: where it is, the slot it works on, whether its copy of the
                \* row recurs; outdated (ghost): the schedule was edited since
    faults, edits

vars == <<clock, event, disp, rem, posts, notified, tick, faults, edits>>

\* "deleted" stands for the row that is gone.
Statuses == {"active", "paused", "done", "cancelled"}
Event == [status : Statuses \cup {"deleted"}, start : Times, rule : Rules,
          last : Times \cup {Never}, reach : Times \cup {Never}]

Phases == {"idle", "finish", "expire", "forward", "remind", "notify", "claim",
           "resolve", "post", "mark", "failing", "settle"}
Tick == [at : Phases, slot : Times, recurs : BOOLEAN, outdated : BOOLEAN]

TypeOK ==
    /\ clock \in Times
    /\ event \in Event /\ event.last <= clock
    /\ disp \in [Times -> {"none", "pending", "dispatched", "skipped", "failed"}]
    /\ rem \in [Times -> {"none", "sent", "failed"}]
    /\ posts \in [Times -> Nat] /\ notified \in [Times -> Nat]
    /\ tick \in [Tickers -> Tick]
    /\ faults \in Nat /\ edits \in Nat

NoTick == [at |-> "idle", slot |-> 0, recurs |-> FALSE, outdated |-> FALSE]

Init ==
    /\ clock = 0
    /\ \E start \in Starts, rule \in Rules :
          event = [status |-> "active", start |-> start, rule |-> rule,
                   last |-> Never, reach |-> Never]
    /\ disp = [s \in Times |-> "none"] /\ rem = [s \in Times |-> "none"]
    /\ posts = [s \in Times |-> 0] /\ notified = [s \in Times |-> 0]
    /\ tick = [t \in Tickers |-> NoTick]
    /\ faults = 0 /\ edits = 0

-----------------------------------------------------------------------------
(* recurrence.ts: every occurrence is computed from the seed by its index. *)

Recurs(e) == e.rule.every > 0

Occurrences(e) == {e.start + k * e.rule.every : k \in 0..(e.rule.count - 1)}

\* nextOccurrenceOnOrAfter returns s, or nothing.
NextSlot(e, after, s) ==
    /\ s \in Occurrences(e) /\ s >= after
    /\ \A r \in Occurrences(e) : r >= after => s <= r

Ended(e, after) == \A s \in Occurrences(e) : s < after

\* One millisecond past the last firing.
After(e) == IF e.last = Never THEN e.start ELSE e.last + 1

-----------------------------------------------------------------------------
(* What a tick decides on the row it reads, at now = clock; it acts on it later. *)

Goto(t, phase) == tick' = [tick EXCEPT ![t].at = phase]
Return(t) == tick' = [tick EXCEPT ![t] = NoTick]

Plan(t, phase, s) ==
    tick' = [tick EXCEPT ![t] = [NoTick EXCEPT !.at = phase, !.slot = s, !.recurs = Recurs(event)]]

\* The next occurrence after the last firing, and how late it is.
First(s) == NextSlot(event, After(event), s)
TooOld(s) == clock - s > Catchup

Backlog == \E s \in Times : First(s) /\ TooOld(s)
InWindow(s) == NextSlot(event, clock - Catchup, s)

\* The series is over.
Exhausted(t) == Ended(event, After(event)) /\ Plan(t, "finish", 0)

\* Before the slot, in the window of its reminder.
Ahead(t) ==
    \E s \in Times :
        First(s) /\ s > clock /\ clock >= s - Lead /\ Plan(t, "remind", s)

\* A slot is due: the next one, or the one of the catch-up window behind a backlog.
Due(t) ==
    \E s \in Times :
        /\ s <= clock
        /\ \/ First(s) /\ ~TooOld(s)
           \/ Backlog /\ Recurs(event) /\ InWindow(s)
        /\ Plan(t, "claim", s)

\* Mutant: an occurrence that is too old is left where it is.
WaitForNext(t) == FALSE

\* A backlog with nothing to come: a one-shot, or a series that ended meanwhile.
Expired(t) ==
    \E s \in Times :
        /\ First(s) /\ TooOld(s)
        /\ Recurs(event) => Ended(event, clock - Catchup)
        /\ Plan(t, "expire", s)

\* Mutant: last_fired_at moves on to the slot that is still to come.
ForwardToNext(t) ==
    /\ Backlog /\ Recurs(event)
    /\ \E s \in Occurrences(event) : InWindow(s) /\ s > clock /\ Plan(t, "forward", s)

\* Mutant: the backlog is dropped whole, with the slot of the catch-up window.
ForwardAnyway(t) == Backlog /\ Recurs(event) /\ Plan(t, "forward", clock)

\* A backlog, and the slot to come is in the future: last_fired_at = now.
Behind(t) ==
    /\ Backlog /\ Recurs(event)
    /\ \E s \in Occurrences(event) : InWindow(s) /\ s > clock
    /\ Plan(t, "forward", clock)

\* tickCalendar(now = new Date()) and its query for the active rows.
Begin(t) ==
    /\ tick[t].at = "idle" /\ event.status = "active"
    /\ Exhausted(t) \/ Ahead(t) \/ Due(t) \/ Expired(t) \/ Behind(t)
    /\ UNCHANGED <<clock, event, disp, rem, posts, notified, faults, edits>>

\* UPDATE calendar_events ... WHERE id, whatever the row has become meanwhile: a slow
\* tick may set last_fired_at back.
Update(e) ==
    event' = IF event.status = "deleted" THEN event
             ELSE [e EXCEPT !.reach = IF e.last > @ THEN e.last ELSE @]

Slot(t) == tick[t].slot

\* The series leaves the backlog behind, or is done.
Skip(t) ==
    /\ \/ tick[t].at = "finish" /\ Update([event EXCEPT !.status = "done"])
       \/ tick[t].at = "expire" /\ Update([event EXCEPT !.last = Slot(t), !.status = "done"])
       \/ tick[t].at = "forward" /\ Update([event EXCEPT !.last = Slot(t)])
    /\ Return(t)
    /\ UNCHANGED <<clock, disp, rem, posts, notified, faults, edits>>

-----------------------------------------------------------------------------
(* dispatchEvent. *)

Fault == faults < MaxFaults /\ faults' = faults + 1

\* UPDATE calendar_dispatches ... WHERE id: nothing once the event is deleted.
Record(t, status) ==
    disp' = IF disp[Slot(t)] = "none" THEN disp ELSE [disp EXCEPT ![Slot(t)] = status]

\* Mutant: no unique index on (event_id, scheduled_for).
ClaimAnyway(t) ==
    /\ tick[t].at = "claim"
    /\ disp' = [disp EXCEPT ![Slot(t)] = "pending"]
    /\ Goto(t, "resolve")
    /\ UNCHANGED <<clock, event, rem, posts, notified, faults, edits>>

\* INSERT ... ON CONFLICT DO NOTHING.  It throws for a deleted event, and when the
\* connection fails, before or after the row is there; then nothing is posted.
Claim(t) ==
    /\ tick[t].at = "claim"
    /\ \/ /\ event.status # "deleted" /\ disp[Slot(t)] = "none"
          /\ disp' = [disp EXCEPT ![Slot(t)] = "pending"]
          /\ Goto(t, "resolve") /\ UNCHANGED faults
       \/ /\ disp[Slot(t)] # "none"
          /\ Return(t) /\ UNCHANGED <<disp, faults>>
       \/ /\ IF event.status = "deleted" THEN UNCHANGED <<disp, faults>>
             ELSE /\ Fault
                  /\ \/ UNCHANGED disp
                     \/ disp[Slot(t)] = "none" /\ disp' = [disp EXCEPT ![Slot(t)] = "pending"]
          /\ Goto(t, "settle")
    /\ UNCHANGED <<clock, event, rem, posts, notified, edits>>

\* A personal event, no assignee or no conversation to post in: skipped.
Resolve(t) ==
    /\ tick[t].at = "resolve"
    /\ \/ Record(t, "skipped") /\ Goto(t, "settle") /\ UNCHANGED faults
       \/ Goto(t, "post") /\ UNCHANGED <<disp, faults>>
       \/ Fault /\ Goto(t, "failing") /\ UNCHANGED disp
    /\ UNCHANGED <<clock, event, rem, posts, notified, edits>>

\* Mutant: the error of the transaction is swallowed.
PostSwallows(t) ==
    /\ tick[t].at = "post"
    /\ \/ posts' = [posts EXCEPT ![Slot(t)] = @ + 1]
       \/ UNCHANGED posts
    /\ Goto(t, "mark")
    /\ UNCHANGED <<clock, event, disp, rem, notified, faults, edits>>

\* postDispatchMessage, one transaction.  It throws when the conversation or the
\* membership is gone, and when the answer to its COMMIT is lost.
Post(t) ==
    /\ tick[t].at = "post"
    /\ \/ posts' = [posts EXCEPT ![Slot(t)] = @ + 1] /\ Goto(t, "mark") /\ UNCHANGED faults
       \/ Goto(t, "failing") /\ UNCHANGED <<posts, faults>>
       \/ Fault /\ posts' = [posts EXCEPT ![Slot(t)] = @ + 1] /\ Goto(t, "failing")
    /\ UNCHANGED <<clock, event, disp, rem, notified, edits>>

Mark(t) ==
    /\ tick[t].at = "mark"
    /\ \/ Record(t, "dispatched") /\ Goto(t, "settle") /\ UNCHANGED faults
       \/ Fault /\ Goto(t, "failing") /\ UNCHANGED disp
    /\ UNCHANGED <<clock, event, rem, posts, notified, edits>>

MarkFailed(t) ==
    /\ tick[t].at = "failing"
    /\ Record(t, "failed") /\ Goto(t, "settle")
    /\ UNCHANGED <<clock, event, rem, posts, notified, faults, edits>>

\* dispatched, skipped or failed: the series moves on, a one-shot is done.
Settle(t) ==
    /\ tick[t].at = "settle"
    /\ Update([event EXCEPT !.last = Slot(t),
                            !.status = IF tick[t].recurs THEN @ ELSE "done"])
    /\ Return(t)
    /\ UNCHANGED <<clock, disp, rem, posts, notified, faults, edits>>

-----------------------------------------------------------------------------
(* sendReminder: the row that claims the slot says 'sent' from the start. *)

Remind(t) ==
    /\ tick[t].at = "remind"
    /\ IF event.status # "deleted" /\ rem[Slot(t)] = "none"
       THEN rem' = [rem EXCEPT ![Slot(t)] = "sent"] /\ Goto(t, "notify")
       ELSE Return(t) /\ UNCHANGED rem
    /\ UNCHANGED <<clock, event, disp, posts, notified, faults, edits>>

\* Toast and e-mail; the row becomes 'failed' when one of the two threw.
Notify(t) ==
    /\ tick[t].at = "notify"
    /\ \/ notified' = [notified EXCEPT ![Slot(t)] = @ + 1] /\ UNCHANGED rem
       \/ /\ \E n \in {0, 1} : notified' = [notified EXCEPT ![Slot(t)] = @ + n]
          /\ rem' = IF rem[Slot(t)] = "none" THEN rem ELSE [rem EXCEPT ![Slot(t)] = "failed"]
    /\ Return(t)
    /\ UNCHANGED <<clock, event, disp, posts, faults, edits>>

-----------------------------------------------------------------------------
(* The environment. *)

\* A statement outside the try blocks throws, or the replica dies.
Abort(t) ==
    /\ tick[t].at # "idle"
    /\ Fault /\ Return(t)
    /\ UNCHANGED <<clock, event, disp, rem, posts, notified, edits>>

PassTime ==
    /\ clock < Horizon
    /\ clock' = clock + 1
    /\ UNCHANGED <<event, disp, rem, posts, notified, tick, faults, edits>>

\* PATCH and `cumora calendar update` leave last_fired_at alone.
Patch ==
    /\ edits < MaxEdits /\ event.status # "deleted"
    /\ \/ \E status \in Statuses : event' = [event EXCEPT !.status = status]
       \/ \E start \in Starts, rule \in Rules :
             event' = [event EXCEPT !.start = start, !.rule = rule]
    /\ tick' = [t \in Tickers |-> IF tick[t].at = "idle" THEN NoTick
                                  ELSE [tick[t] EXCEPT !.outdated = TRUE]]
    /\ edits' = edits + 1
    /\ UNCHANGED <<clock, disp, rem, posts, notified, faults>>

\* DELETE cascades to the rows of the dispatches and reminders.
Delete ==
    /\ edits < MaxEdits /\ event.status # "deleted"
    /\ event' = [event EXCEPT !.status = "deleted"]
    /\ disp' = [s \in Times |-> "none"] /\ rem' = [s \in Times |-> "none"]
    /\ edits' = edits + 1
    /\ UNCHANGED <<clock, posts, notified, tick, faults>>

-----------------------------------------------------------------------------
Dispatch(t) ==
    Claim(t) \/ Resolve(t) \/ Post(t) \/ Mark(t) \/ MarkFailed(t) \/ Settle(t)

Work(t) == Skip(t) \/ Dispatch(t) \/ Remind(t) \/ Notify(t)

Next ==
    \/ \E t \in Tickers : Begin(t) \/ Work(t) \/ Abort(t)
    \/ PassTime \/ Patch \/ Delete

Spec == Init /\ [][Next]_vars

\* Statements return and the timer of every replica fires again, after a restart too.
FairSpec ==
    Spec /\ WF_vars(PassTime) /\ \A t \in Tickers : WF_vars(Begin(t)) /\ WF_vars(Work(t))

-----------------------------------------------------------------------------
(* Properties *)

\* Whatever ticks overlap, lag, die and start over, no occurrence is posted twice
\* and nobody is reminded of one twice (the unique rows that claim a slot).
OncePerOccurrence == \A s \in Times : posts[s] <= 1 /\ notified[s] <= 1

\* The history shown in the editor: a dispatch it calls dispatched has its message
\* in the conversation, one it calls skipped has none.
HistoryHonest ==
    \A s \in Times :
        /\ disp[s] = "dispatched" => posts[s] = 1
        /\ disp[s] = "skipped" => posts[s] = 0

\* When last_fired_at first gets past an occurrence that nobody dispatched, this is
\* older than the catch-up window, or the tick that moves it tried this very
\* occurrence, or works with a schedule edited meanwhile.
NoSilentSkip ==
    [][\A s \in Times \cap Occurrences(event) :
          /\ event.reach < s /\ s <= event'.last
          /\ disp[s] = "none"
          => \/ clock - s > Catchup
             \/ \E t \in Tickers :
                   /\ tick'[t] # tick[t]
                   /\ \/ tick[t].at = "settle" /\ Slot(t) = s
                      \/ tick[t].outdated]_vars

\* A claim whose tick died stays pending, and every later tick leaves it alone; yet
\* a series never stands still for good behind an occurrence, dispatched or not:
\* once it is older than the catch-up window, with no later one inside that
\* window, the ticks get past it.
StandsStill ==
    /\ event.status = "active"
    /\ \A s \in Occurrences(event) : s > clock \/ clock - s > Catchup
    /\ \/ Ended(event, After(event))
       \/ \E s \in Times : NextSlot(event, After(event), s) /\ s <= clock

SeriesMovesOn == <>[]~StandsStill
=============================================================================
