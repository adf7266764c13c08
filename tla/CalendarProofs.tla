--------------------------- MODULE CalendarProofs ---------------------------
(***************************************************************************)
(* Proofs about Calendar, for any number of overlapping ticks, failures    *)
(* and edits: the type invariant, that no occurrence is posted or reminded *)
(* of twice, that the history tells the truth, and that none is skipped    *)
(* without a reason.                                                       *)
(***************************************************************************)
EXTENDS Calendar, TLAPS

LEMMA ZeroIsATime == 0 \in Times
  BY CalendarAssumption DEF Times

LEMMA TimesAreNaturals == Times \subseteq Nat
  BY CalendarAssumption DEF Times

LEMMA NoTickType == NoTick \in Tick
  BY ZeroIsATime DEF NoTick, Tick, Phases

-----------------------------------------------------------------------------
(* Types. *)

LEMMA GotoType ==
  ASSUME TypeOK, NEW t \in Tickers, NEW phase \in Phases, Goto(t, phase)
  PROVE  tick' \in [Tickers -> Tick]
  BY DEF TypeOK, Goto, Tick

LEMMA ReturnType ==
  ASSUME TypeOK, NEW t \in Tickers, Return(t)
  PROVE  tick' \in [Tickers -> Tick]
  BY NoTickType DEF TypeOK, Return

LEMMA PlanType ==
  ASSUME TypeOK, NEW t \in Tickers, NEW phase \in Phases, NEW s \in Times, Plan(t, phase, s)
  PROVE  tick' \in [Tickers -> Tick]
<1>1. Recurs(event) \in BOOLEAN
  BY DEF Recurs
<1>2. [NoTick EXCEPT !.at = phase, !.slot = s, !.recurs = Recurs(event)] \in Tick
  BY <1>1, NoTickType DEF Tick
<1> QED
  BY <1>2 DEF TypeOK, Plan

\* Ticks act on slots that had come, except for reminders.
Past(t) == tick[t].at \in {"remind", "notify"} \/ Slot(t) <= clock

Arrived == \A t \in Tickers : Past(t)

LEMMA SlotType ==
  ASSUME TypeOK, NEW t \in Tickers
  PROVE  Slot(t) \in Times
  BY DEF TypeOK, Slot, Tick

\* What UPDATE makes of a row that is still there.
LEMMA Updated ==
  ASSUME NEW e \in Event, Update(e), event.status # "deleted"
  PROVE  /\ event' \in Event /\ event'.status = e.status /\ event'.last = e.last
         /\ event'.start = e.start /\ event'.rule = e.rule
         /\ event'.reach = IF e.last > e.reach THEN e.last ELSE e.reach
<1> DEFINE r == IF e.last > e.reach THEN e.last ELSE e.reach
<1>1. r \in Times \cup {Never}
  BY DEF Event
<1>2. event' = [e EXCEPT !.reach = r]
  BY DEF Update
<1> HIDE DEF r
<1>3. event' \in Event
  BY <1>1, <1>2 DEF Event
<1>4. event'.status = e.status /\ event'.last = e.last /\ event'.start = e.start /\ event'.rule = e.rule
  BY <1>2 DEF Event
<1>5. event'.reach = r
  BY <1>2 DEF Event
<1> QED
  BY <1>3, <1>4, <1>5 DEF r

LEMMA UpdateType ==
  ASSUME TypeOK, NEW e \in Event, e.last <= clock, Update(e), UNCHANGED clock
  PROVE  event' \in Event /\ event'.last <= clock'
<1>1. CASE event.status = "deleted"
  BY <1>1 DEF TypeOK, Update
<1>2. CASE event.status # "deleted"
  BY <1>2, Updated
<1> QED
  BY <1>1, <1>2

LEMMA MovedType ==
  ASSUME TypeOK, NEW s \in Times, NEW st \in Statuses \cup {"deleted"}
  PROVE  [event EXCEPT !.last = s, !.status = st] \in Event
  BY DEF TypeOK, Event

LEMMA RecordType ==
  ASSUME TypeOK, NEW t \in Tickers, NEW st \in {"dispatched", "skipped", "failed"}, Record(t, st)
  PROVE  disp' \in [Times -> {"none", "pending", "dispatched", "skipped", "failed"}]
  BY SlotType DEF TypeOK, Record

LEMMA FaultType ==
  ASSUME TypeOK, Fault \/ UNCHANGED faults
  PROVE  faults' \in Nat
  BY DEF TypeOK, Fault

LEMMA InitTyped ==
  ASSUME Init PROVE TypeOK /\ Arrived
<1> PICK start \in Starts, rule \in Rules :
          event = [status |-> "active", start |-> start, rule |-> rule,
                   last |-> Never, reach |-> Never]
  BY DEF Init
<1>1. event \in Event
  BY CalendarAssumption DEF Event, Statuses
<1>2. event.last <= clock
  BY DEF Init, Never
<1>3. tick \in [Tickers -> Tick]
  BY NoTickType DEF Init
<1>4. clock \in Times
  BY ZeroIsATime DEF Init
<1>5. TypeOK
  BY <1>1, <1>2, <1>3, <1>4 DEF Init, TypeOK
<1>6. ASSUME NEW t \in Tickers PROVE Past(t)
  <2>1. tick[t] = NoTick /\ clock = 0
    BY DEF Init
  <2>2. tick[t].slot = 0
    BY <2>1 DEF NoTick
  <2> QED
    BY <2>1, <2>2 DEF Past, Slot
<1> QED
  BY <1>5, <1>6 DEF Arrived

\* Steps of a tick that leave the calendar_events row alone.
LEMMA TickTyped ==
  ASSUME TypeOK, tick' \in [Tickers -> Tick], UNCHANGED <<clock, event, edits>>,
         disp' \in [Times -> {"none", "pending", "dispatched", "skipped", "failed"}],
         rem' \in [Times -> {"none", "sent", "failed"}],
         posts' \in [Times -> Nat], notified' \in [Times -> Nat], faults' \in Nat
  PROVE  TypeOK'
  BY DEF TypeOK

LEMMA BeginTyped ==
  ASSUME TypeOK, NEW t \in Tickers, Begin(t)
  PROVE  TypeOK'
<1>1. clock \in Times /\ 0 \in Times
  BY ZeroIsATime DEF TypeOK
<1>2. \E phase \in Phases, s \in Times : Plan(t, phase, s)
  <2>1. CASE Exhausted(t)
    BY <1>1, <2>1 DEF Exhausted, Phases
  <2>2. CASE Ahead(t)
    BY <2>2 DEF Ahead, Phases
  <2>3. CASE Due(t)
    BY <2>3 DEF Due, Phases
  <2>4. CASE Expired(t)
    BY <2>4 DEF Expired, Phases
  <2>5. CASE Behind(t)
    BY <1>1, <2>5 DEF Behind, Phases
  <2> QED
    BY <2>1, <2>2, <2>3, <2>4, <2>5 DEF Begin
<1>3. tick' \in [Tickers -> Tick]
  BY <1>2, PlanType
<1> QED
  BY <1>3, TickTyped DEF Begin, TypeOK

LEMMA SkipTyped ==
  ASSUME TypeOK, Arrived, NEW t \in Tickers, Skip(t)
  PROVE  TypeOK'
<1>1. tick' \in [Tickers -> Tick]
  BY ReturnType DEF Skip
<1>2. Slot(t) \in Times
  BY SlotType
<1>3. event' \in Event /\ event'.last <= clock'
  <2>1. CASE tick[t].at = "finish" /\ Update([event EXCEPT !.status = "done"])
    <3>1. [event EXCEPT !.status = "done"] \in Event
      BY DEF TypeOK, Event, Statuses
    <3>2. [event EXCEPT !.status = "done"].last <= clock
      BY DEF TypeOK, Event
    <3> QED
      BY <2>1, <3>1, <3>2, UpdateType DEF Skip
  <2>2. CASE tick[t].at = "expire" /\ Update([event EXCEPT !.last = Slot(t), !.status = "done"])
    <3>1. Slot(t) <= clock
      BY <2>2 DEF Arrived, Past
    <3>2. [event EXCEPT !.last = Slot(t), !.status = "done"] \in Event
      BY <1>2, MovedType DEF Statuses
    <3>3. [event EXCEPT !.last = Slot(t), !.status = "done"].last <= clock
      BY <3>1 DEF TypeOK, Event
    <3> QED
      BY <2>2, <3>2, <3>3, UpdateType DEF Skip
  <2>3. CASE tick[t].at = "forward" /\ Update([event EXCEPT !.last = Slot(t)])
    <3>1. Slot(t) <= clock
      BY <2>3 DEF Arrived, Past
    <3>2. [event EXCEPT !.last = Slot(t)] \in Event
      BY <1>2 DEF TypeOK, Event
    <3>3. [event EXCEPT !.last = Slot(t)].last <= clock
      BY <3>1 DEF TypeOK, Event
    <3> QED
      BY <2>3, <3>2, <3>3, UpdateType DEF Skip
  <2> QED
    BY <2>1, <2>2, <2>3 DEF Skip
<1> QED
  BY <1>1, <1>3 DEF Skip, TypeOK

LEMMA SettleTyped ==
  ASSUME TypeOK, Arrived, NEW t \in Tickers, Settle(t)
  PROVE  TypeOK'
<1>1. tick' \in [Tickers -> Tick]
  BY ReturnType DEF Settle
<1>2. Slot(t) \in Times /\ Slot(t) <= clock
  BY SlotType DEF Settle, Arrived, Past
<1> DEFINE st == IF tick[t].recurs THEN event.status ELSE "done"
           e == [event EXCEPT !.last = Slot(t), !.status = st]
<1>3. st \in Statuses \cup {"deleted"}
  BY DEF TypeOK, Event, Statuses
<1>4. e \in Event
  BY <1>2, <1>3, MovedType
<1>5. e.last <= clock
  BY <1>2 DEF TypeOK, Event
<1>6. Update(e) /\ UNCHANGED clock
  BY DEF Settle
<1>7. event' \in Event /\ event'.last <= clock'
  BY <1>4, <1>5, <1>6, UpdateType
<1> QED
  BY <1>1, <1>7 DEF Settle, TypeOK

LEMMA ClaimTyped ==
  ASSUME TypeOK, NEW t \in Tickers, Claim(t)
  PROVE  TypeOK'
<1>1. tick' \in [Tickers -> Tick]
  BY GotoType, ReturnType DEF Claim, Phases
<1>2. faults' \in Nat
  BY FaultType DEF Claim
<1>3. disp' \in [Times -> {"none", "pending", "dispatched", "skipped", "failed"}]
  BY SlotType DEF Claim, TypeOK
<1> QED
  BY <1>1, <1>2, <1>3, TickTyped DEF Claim, TypeOK

LEMMA ResolveTyped ==
  ASSUME TypeOK, NEW t \in Tickers, Resolve(t)
  PROVE  TypeOK'
<1>1. tick' \in [Tickers -> Tick]
  BY GotoType DEF Resolve, Phases
<1>2. faults' \in Nat
  BY FaultType DEF Resolve
<1>3. disp' \in [Times -> {"none", "pending", "dispatched", "skipped", "failed"}]
  BY RecordType DEF Resolve, TypeOK
<1> QED
  BY <1>1, <1>2, <1>3, TickTyped DEF Resolve, TypeOK

LEMMA PostTyped ==
  ASSUME TypeOK, NEW t \in Tickers, Post(t)
  PROVE  TypeOK'
<1>1. tick' \in [Tickers -> Tick]
  BY GotoType DEF Post, Phases
<1>2. faults' \in Nat
  BY FaultType DEF Post
<1>3. posts' \in [Times -> Nat]
  BY SlotType DEF Post, TypeOK
<1> QED
  BY <1>1, <1>2, <1>3, TickTyped DEF Post, TypeOK

LEMMA MarkTyped ==
  ASSUME TypeOK, NEW t \in Tickers, Mark(t) \/ MarkFailed(t)
  PROVE  TypeOK'
<1>1. tick' \in [Tickers -> Tick]
  BY GotoType DEF Mark, MarkFailed, Phases
<1>2. faults' \in Nat
  BY FaultType DEF Mark, MarkFailed
<1>3. disp' \in [Times -> {"none", "pending", "dispatched", "skipped", "failed"}]
  BY RecordType DEF Mark, MarkFailed, TypeOK
<1> QED
  BY <1>1, <1>2, <1>3, TickTyped DEF Mark, MarkFailed, TypeOK

LEMMA RemindTyped ==
  ASSUME TypeOK, NEW t \in Tickers, Remind(t)
  PROVE  TypeOK'
<1>1. tick' \in [Tickers -> Tick]
  BY GotoType, ReturnType DEF Remind, Phases
<1>2. rem' \in [Times -> {"none", "sent", "failed"}]
  BY SlotType DEF Remind, TypeOK
<1> QED
  BY <1>1, <1>2, TickTyped DEF Remind, TypeOK

LEMMA NotifyTyped ==
  ASSUME TypeOK, NEW t \in Tickers, Notify(t)
  PROVE  TypeOK'
<1>1. tick' \in [Tickers -> Tick]
  BY ReturnType DEF Notify
<1>2. rem' \in [Times -> {"none", "sent", "failed"}]
  BY SlotType DEF Notify, TypeOK
<1>3. notified' \in [Times -> Nat]
  BY SlotType DEF Notify, TypeOK
<1> QED
  BY <1>1, <1>2, <1>3, TickTyped DEF Notify, TypeOK

LEMMA AbortTyped ==
  ASSUME TypeOK, NEW t \in Tickers, Abort(t)
  PROVE  TypeOK'
  BY ReturnType, FaultType, TickTyped DEF Abort, TypeOK

LEMMA PassTimeTyped ==
  ASSUME TypeOK, PassTime
  PROVE  TypeOK'
<1>1. clock' \in Times /\ clock <= clock' /\ clock \in Int
  BY CalendarAssumption DEF PassTime, TypeOK, Times
<1>2. event.last \in Int
  <2>1. event.last \in Times \cup {Never}
    BY DEF TypeOK, Event
  <2>2. Never \in Int
    BY DEF Never
  <2>3. Times \subseteq Int
    BY DEF Times
  <2> QED
    BY <2>1, <2>2, <2>3
<1>3. event.last <= clock'
  BY <1>1, <1>2, TimesAreNaturals DEF TypeOK
<1> QED
  BY <1>1, <1>3 DEF PassTime, TypeOK

LEMMA PatchTyped ==
  ASSUME TypeOK, Patch
  PROVE  TypeOK'
<1>1. ASSUME NEW t \in Tickers
      PROVE  (IF tick[t].at = "idle" THEN NoTick ELSE [tick[t] EXCEPT !.outdated = TRUE]) \in Tick
  <2>1. tick[t] \in Tick
    BY DEF TypeOK
  <2> QED
    BY <2>1, NoTickType DEF Tick
<1>2. tick' \in [Tickers -> Tick]
  BY <1>1 DEF Patch
<1>3. event' \in Event /\ event'.last = event.last
  <2>1. CASE \E status \in Statuses : event' = [event EXCEPT !.status = status]
    BY <2>1 DEF TypeOK, Event
  <2>2. CASE \E start \in Starts, rule \in Rules :
               event' = [event EXCEPT !.start = start, !.rule = rule]
    BY <2>2, CalendarAssumption DEF TypeOK, Event
  <2> QED
    BY <2>1, <2>2 DEF Patch
<1>4. UNCHANGED <<clock, disp, rem, posts, notified, faults>>
  BY DEF Patch
<1>5. event'.last <= clock'
  BY <1>3, <1>4 DEF TypeOK
<1>6. edits' \in Nat
  <2>1. edits \in Nat
    BY DEF TypeOK
  <2>2. edits' = edits + 1
    BY DEF Patch
  <2> QED
    BY <2>1, <2>2
<1> QED
  BY <1>2, <1>3, <1>4, <1>5, <1>6 DEF TypeOK

LEMMA DeleteTyped ==
  ASSUME TypeOK, Delete
  PROVE  TypeOK'
<1>1. event' \in Event /\ event'.last = event.last
  BY DEF Delete, TypeOK, Event
<1> QED
  BY <1>1 DEF Delete, TypeOK

-----------------------------------------------------------------------------
(* Slots of dispatches have come. *)

LEMMA ClockType ==
  ASSUME TypeOK
  PROVE  clock \in Nat
  BY TimesAreNaturals DEF TypeOK

LEMMA ArrivedByGoto ==
  ASSUME TypeOK, Arrived, NEW t \in Tickers, NEW phase \in Phases, Goto(t, phase), UNCHANGED clock,
         tick[t].at \notin {"remind", "notify"} \/ phase \in {"remind", "notify"}
  PROVE  Arrived'
<1>1. ASSUME NEW u \in Tickers PROVE Past(u)'
  <2>1. tick'[u].slot = tick[u].slot
    BY DEF Goto, TypeOK, Tick
  <2>2. tick'[u].at = IF u = t THEN phase ELSE tick[u].at
    BY DEF Goto, TypeOK, Tick
  <2>3. Past(u)
    BY DEF Arrived
  <2> QED
    BY <2>1, <2>2, <2>3 DEF Past, Slot
<1> QED
  BY <1>1 DEF Arrived

LEMMA ArrivedByReturn ==
  ASSUME TypeOK, Arrived, NEW t \in Tickers, Return(t), UNCHANGED clock
  PROVE  Arrived'
<1>1. ASSUME NEW u \in Tickers PROVE Past(u)'
  <2>1. CASE u = t
    <3>1. tick'[u].slot = 0
      BY <2>1 DEF Return, TypeOK, NoTick
    <3>2. 0 <= clock'
      BY ClockType
    <3> QED
      BY <3>1, <3>2 DEF Past, Slot
  <2>2. CASE u # t
    <3>1. tick'[u] = tick[u]
      BY <2>2 DEF Return, TypeOK
    <3>2. Past(u)
      BY DEF Arrived
    <3> QED
      BY <3>1, <3>2 DEF Past, Slot
  <2> QED
    BY <2>1, <2>2
<1> QED
  BY <1>1 DEF Arrived

LEMMA ArrivedByPlan ==
  ASSUME TypeOK, Arrived, NEW t \in Tickers, NEW phase \in Phases, NEW s \in Times,
         Plan(t, phase, s), phase = "remind" \/ s <= clock, UNCHANGED clock
  PROVE  Arrived'
<1>1. ASSUME NEW u \in Tickers PROVE Past(u)'
  <2>1. CASE u = t
    <3>1. tick'[u] = [NoTick EXCEPT !.at = phase, !.slot = s, !.recurs = Recurs(event)]
      BY <2>1 DEF Plan, TypeOK
    <3>2. tick'[u].slot = s /\ tick'[u].at = phase
      BY <3>1 DEF NoTick
    <3> QED
      BY <3>2 DEF Past, Slot
  <2>2. CASE u # t
    <3>1. tick'[u] = tick[u]
      BY <2>2 DEF Plan, TypeOK
    <3>2. Past(u)
      BY DEF Arrived
    <3> QED
      BY <3>1, <3>2 DEF Past, Slot
  <2> QED
    BY <2>1, <2>2
<1> QED
  BY <1>1 DEF Arrived

LEMMA BeginArrived ==
  ASSUME TypeOK, Arrived, NEW t \in Tickers, Begin(t)
  PROVE  Arrived'
<1>1. clock \in Times /\ 0 \in Times /\ clock \in Nat /\ Catchup \in Nat
  BY ZeroIsATime, ClockType, CalendarAssumption DEF TypeOK
<1>2. \E phase \in Phases, s \in Times : Plan(t, phase, s) /\ (phase = "remind" \/ s <= clock)
  <2>1. CASE Exhausted(t)
    BY <1>1, <2>1 DEF Exhausted, Phases
  <2>2. CASE Ahead(t)
    BY <2>2 DEF Ahead, Phases
  <2>3. CASE Due(t)
    BY <2>3 DEF Due, Phases
  <2>4. CASE Expired(t)
    <3>1. PICK s \in Times : TooOld(s) /\ Plan(t, "expire", s)
      BY <2>4 DEF Expired
    <3>2. s <= clock
      BY <1>1, <3>1, TimesAreNaturals DEF TooOld
    <3> QED
      BY <3>1, <3>2 DEF Phases
  <2>5. CASE Behind(t)
    BY <1>1, <2>5 DEF Behind, Phases
  <2> QED
    BY <2>1, <2>2, <2>3, <2>4, <2>5 DEF Begin
<1>3. PICK phase \in Phases, s \in Times : Plan(t, phase, s) /\ (phase = "remind" \/ s <= clock)
  BY <1>2
<1>4. UNCHANGED clock
  BY DEF Begin
<1> QED
  BY <1>3, <1>4, ArrivedByPlan

LEMMA WorkArrived ==
  ASSUME TypeOK, Arrived, NEW t \in Tickers, Work(t)
  PROVE  Arrived'
<1>1. CASE Skip(t) \/ Settle(t) \/ Notify(t)
  BY <1>1, ArrivedByReturn DEF Skip, Settle, Notify
<1>2. CASE Claim(t)
  <2>1. tick[t].at = "claim" /\ UNCHANGED clock
    BY <1>2 DEF Claim
  <2>2. Goto(t, "resolve") \/ Return(t) \/ Goto(t, "settle")
    BY <1>2 DEF Claim
  <2> QED
    BY <2>1, <2>2, ArrivedByGoto, ArrivedByReturn DEF Phases
<1>3. CASE Resolve(t)
  <2>1. tick[t].at = "resolve" /\ UNCHANGED clock
    BY <1>3 DEF Resolve
  <2>2. Goto(t, "post") \/ Goto(t, "failing") \/ Goto(t, "settle")
    BY <1>3 DEF Resolve
  <2> QED
    BY <2>1, <2>2, ArrivedByGoto DEF Phases
<1>4. CASE Post(t)
  <2>1. tick[t].at = "post" /\ UNCHANGED clock
    BY <1>4 DEF Post
  <2>2. Goto(t, "mark") \/ Goto(t, "failing")
    BY <1>4 DEF Post
  <2> QED
    BY <2>1, <2>2, ArrivedByGoto DEF Phases
<1>5. CASE Mark(t)
  <2>1. tick[t].at = "mark" /\ UNCHANGED clock
    BY <1>5 DEF Mark
  <2>2. Goto(t, "settle") \/ Goto(t, "failing")
    BY <1>5 DEF Mark
  <2> QED
    BY <2>1, <2>2, ArrivedByGoto DEF Phases
<1>6. CASE MarkFailed(t)
  <2>1. tick[t].at = "failing" /\ UNCHANGED clock /\ Goto(t, "settle")
    BY <1>6 DEF MarkFailed
  <2> QED
    BY <2>1, ArrivedByGoto DEF Phases
<1>7. CASE Remind(t)
  <2>1. UNCHANGED clock
    BY <1>7 DEF Remind
  <2>2. Goto(t, "notify") \/ Return(t)
    BY <1>7 DEF Remind
  <2> QED
    BY <2>1, <2>2, ArrivedByGoto, ArrivedByReturn DEF Phases
<1> QED
  BY <1>1, <1>2, <1>3, <1>4, <1>5, <1>6, <1>7 DEF Work, Dispatch

LEMMA PassTimeArrived ==
  ASSUME TypeOK, Arrived, PassTime
  PROVE  Arrived'
<1>1. ASSUME NEW u \in Tickers PROVE Past(u)'
  <2>1. tick'[u] = tick[u] /\ clock' = clock + 1
    BY DEF PassTime
  <2>2. Past(u)
    BY DEF Arrived
  <2>3. clock \in Nat /\ tick[u].slot \in Nat
    BY ClockType, SlotType, TimesAreNaturals DEF Slot
  <2>4. tick[u].slot <= clock => tick[u].slot <= clock + 1
    BY <2>3
  <2> QED
    BY <2>1, <2>2, <2>4 DEF Past, Slot
<1> QED
  BY <1>1 DEF Arrived

LEMMA PatchArrived ==
  ASSUME TypeOK, Arrived, Patch
  PROVE  Arrived'
<1>1. ASSUME NEW u \in Tickers PROVE Past(u)'
  <2>1. Past(u) /\ UNCHANGED clock
    BY DEF Arrived, Patch
  <2>2. CASE tick[u].at = "idle"
    <3>1. tick'[u].slot = 0
      BY <2>2 DEF Patch, NoTick
    <3>2. 0 <= clock'
      BY <2>1, ClockType
    <3> QED
      BY <3>1, <3>2 DEF Past, Slot
  <2>3. CASE tick[u].at # "idle"
    <3>1. tick'[u] = [tick[u] EXCEPT !.outdated = TRUE]
      BY <2>3 DEF Patch
    <3>2. tick[u] \in Tick
      BY DEF TypeOK
    <3>3. tick'[u].at = tick[u].at /\ tick'[u].slot = tick[u].slot
      BY <3>1, <3>2 DEF Tick
    <3> QED
      BY <2>1, <3>3 DEF Past, Slot
  <2> QED
    BY <2>2, <2>3
<1> QED
  BY <1>1 DEF Arrived

LEMMA StepTyped ==
  ASSUME TypeOK, Arrived, [Next]_vars
  PROVE  TypeOK' /\ Arrived'
<1>1. CASE \E t \in Tickers : Begin(t)
  BY <1>1, BeginTyped, BeginArrived
<1>2. CASE \E t \in Tickers : Work(t)
  <2> PICK t \in Tickers : Work(t)
    BY <1>2
  <2>1. Arrived'
    BY WorkArrived
  <2>2. TypeOK'
    BY SkipTyped, ClaimTyped, ResolveTyped, PostTyped, MarkTyped, SettleTyped, RemindTyped, NotifyTyped
       DEF Work, Dispatch
  <2> QED
    BY <2>1, <2>2
<1>3. CASE \E t \in Tickers : Abort(t)
  BY <1>3, AbortTyped, ArrivedByReturn DEF Abort
<1>4. CASE PassTime
  BY <1>4, PassTimeTyped, PassTimeArrived
<1>5. CASE Patch
  BY <1>5, PatchTyped, PatchArrived
<1>6. CASE Delete
  <2>1. Arrived'
    BY <1>6 DEF Delete, Arrived, Past, Slot
  <2> QED
    BY <1>6, <2>1, DeleteTyped
<1>7. CASE UNCHANGED vars
  <2>1. Arrived'
    BY <1>7 DEF vars, Arrived, Past, Slot
  <2>2. TypeOK'
    BY <1>7 DEF vars, TypeOK
  <2> QED
    BY <2>1, <2>2
<1> QED
  BY <1>1, <1>2, <1>3, <1>4, <1>5, <1>6, <1>7 DEF Next

\* In every reachable state the event, the rows and the ticks have their types, and
\* last_fired_at is never in the future (every UPDATE of calendar_events in tickCalendar).
THEOREM TypeCorrect == Spec => []TypeOK
<1>1. Spec => [](TypeOK /\ Arrived)
  BY InitTyped, StepTyped, PTL DEF Spec
<1> QED
  BY <1>1, PTL

-----------------------------------------------------------------------------
(* Dispatches.  The tick whose INSERT made the row of a slot owns the slot until it *)
(* records the outcome.                                                             *)

Gone == event.status = "deleted"

Owns(t) == tick[t].at \in {"resolve", "post", "mark", "failing"}

\* The row of an owned slot is pending; no slot has two owners.
ClaimsPending == \A t \in Tickers : Owns(t) => disp[Slot(t)] = "pending" \/ Gone

ClaimsApart == \A t, u \in Tickers : t # u /\ Owns(t) /\ Owns(u) => Slot(t) # Slot(u)

\* What an owner knows of its slot.
NotYetPosted == \A t \in Tickers : tick[t].at \in {"resolve", "post"} => posts[Slot(t)] = 0

JustPosted == \A t \in Tickers : tick[t].at = "mark" => posts[Slot(t)] = 1

\* What the row of a slot says of its messages.
AtMostOne == \A s \in Times : posts[s] \in {0, 1}

UnclaimedUnposted == \A s \in Times : disp[s] = "none" => posts[s] = 0 \/ Gone

GoneEmpty == Gone => \A s \in Times : disp[s] = "none"

DInv ==
    /\ ClaimsPending /\ ClaimsApart /\ NotYetPosted /\ JustPosted
    /\ AtMostOne /\ UnclaimedUnposted /\ GoneEmpty /\ HistoryHonest

LEMMA InitD ==
  ASSUME Init PROVE DInv
<1>1. \A t \in Tickers : tick[t].at = "idle"
  BY DEF Init, NoTick
<1>2. \A s \in Times : disp[s] = "none" /\ posts[s] = 0
  BY DEF Init
<1>3. ~Gone
  BY DEF Init, Gone
<1>4. ClaimsPending /\ ClaimsApart /\ NotYetPosted /\ JustPosted
  BY <1>1 DEF ClaimsPending, ClaimsApart, NotYetPosted, JustPosted, Owns
<1>5. AtMostOne /\ UnclaimedUnposted /\ GoneEmpty /\ HistoryHonest
  BY <1>2, <1>3 DEF AtMostOne, UnclaimedUnposted, GoneEmpty, HistoryHonest
<1> QED
  BY <1>4, <1>5 DEF DInv

\* A step that gives no tick a slot and leaves rows and messages alone.
LEMMA DIdle ==
  ASSUME DInv, UNCHANGED <<disp, posts>>, Gone' <=> Gone,
         \A u \in Tickers : Owns(u)' => tick'[u].at = tick[u].at /\ tick'[u].slot = tick[u].slot
  PROVE  DInv'
<1>1. \A u \in Tickers : Owns(u)' => Owns(u) /\ Slot(u)' = Slot(u)
  BY DEF Owns, Slot
<1>2. ClaimsPending'
  BY <1>1 DEF DInv, ClaimsPending
<1>3. ClaimsApart'
  BY <1>1 DEF DInv, ClaimsApart
<1>4. NotYetPosted' /\ JustPosted'
  BY <1>1 DEF DInv, NotYetPosted, JustPosted, Owns
<1>5. AtMostOne' /\ UnclaimedUnposted' /\ GoneEmpty' /\ HistoryHonest'
  BY DEF DInv, AtMostOne, UnclaimedUnposted, GoneEmpty, HistoryHonest
<1> QED
  BY <1>2, <1>3, <1>4, <1>5 DEF DInv

\* A step of the only tick concerned with slot s.
LEMMA DStep ==
  ASSUME DInv, NEW t \in Tickers, NEW s \in Times, Slot(t) = s, Slot(t)' = s, Gone' <=> Gone,
         \A u \in Tickers : u # t => tick'[u] = tick[u],
         \A u \in Tickers : u # t /\ Owns(u) => Slot(u) # s,
         \A r \in Times : r # s => disp'[r] = disp[r] /\ posts'[r] = posts[r],
         \A u \in Tickers : Slot(u) \in Times,
         Owns(t)' => disp'[s] = "pending" \/ Gone,
         tick'[t].at \in {"resolve", "post"} => posts'[s] = 0,
         tick'[t].at = "mark" => posts'[s] = 1,
         posts'[s] \in {0, 1},
         disp'[s] = "none" => posts'[s] = 0 \/ Gone,
         Gone => disp'[s] = "none",
         disp'[s] = "dispatched" => posts'[s] = 1,
         disp'[s] = "skipped" => posts'[s] = 0
  PROVE  DInv'
<1>1. \A u \in Tickers : u # t => (Owns(u)' <=> Owns(u)) /\ Slot(u)' = Slot(u)
  BY DEF Owns, Slot
<1>2. \A u \in Tickers : u # t /\ Owns(u) =>
          disp'[Slot(u)] = disp[Slot(u)] /\ posts'[Slot(u)] = posts[Slot(u)]
  OBVIOUS
<1>3. ClaimsPending'
  <2>1. ASSUME NEW u \in Tickers, Owns(u)'
        PROVE  disp'[Slot(u)'] = "pending" \/ Gone'
    <3>1. CASE u = t
      BY <2>1, <3>1
    <3>2. CASE u # t
      BY <1>1, <1>2, <2>1, <3>2 DEF DInv, ClaimsPending
    <3> QED
      BY <3>1, <3>2
  <2> QED
    BY <2>1 DEF ClaimsPending
<1>4. ClaimsApart'
  <2>1. ASSUME NEW u \in Tickers, NEW v \in Tickers, u # v, Owns(u)', Owns(v)'
        PROVE  Slot(u)' # Slot(v)'
    <3>1. CASE u = t
      BY <1>1, <2>1, <3>1
    <3>2. CASE v = t
      BY <1>1, <2>1, <3>2
    <3>3. CASE u # t /\ v # t
      BY <1>1, <2>1, <3>3 DEF DInv, ClaimsApart
    <3> QED
      BY <3>1, <3>2, <3>3
  <2> QED
    BY <2>1 DEF ClaimsApart
<1>5. NotYetPosted'
  <2>1. ASSUME NEW u \in Tickers, tick'[u].at \in {"resolve", "post"}
        PROVE  posts'[Slot(u)'] = 0
    <3>1. CASE u = t
      BY <2>1, <3>1
    <3>2. CASE u # t
      <4>1. tick[u].at \in {"resolve", "post"} /\ Owns(u)
        BY <2>1, <3>2 DEF Owns
      <4>2. posts[Slot(u)] = 0
        BY <4>1 DEF DInv, NotYetPosted
      <4> QED
        BY <1>1, <1>2, <3>2, <4>1, <4>2
    <3> QED
      BY <3>1, <3>2
  <2> QED
    BY <2>1 DEF NotYetPosted
<1>6. JustPosted'
  <2>1. ASSUME NEW u \in Tickers, tick'[u].at = "mark"
        PROVE  posts'[Slot(u)'] = 1
    <3>1. CASE u = t
      BY <2>1, <3>1
    <3>2. CASE u # t
      <4>1. tick[u].at = "mark" /\ Owns(u)
        BY <2>1, <3>2 DEF Owns
      <4>2. posts[Slot(u)] = 1
        BY <4>1 DEF DInv, JustPosted
      <4> QED
        BY <1>1, <1>2, <3>2, <4>1, <4>2
    <3> QED
      BY <3>1, <3>2
  <2> QED
    BY <2>1 DEF JustPosted
<1>7. AtMostOne'
  BY DEF DInv, AtMostOne
<1>8. UnclaimedUnposted'
  BY DEF DInv, UnclaimedUnposted
<1>9. GoneEmpty'
  BY DEF DInv, GoneEmpty
<1>10. HistoryHonest'
  BY DEF DInv, HistoryHonest
<1> QED
  BY <1>3, <1>4, <1>5, <1>6, <1>7, <1>8, <1>9, <1>10 DEF DInv

LEMMA Going ==
  ASSUME TypeOK, NEW t \in Tickers, NEW phase, Goto(t, phase)
  PROVE  /\ tick'[t].at = phase /\ tick'[t].slot = tick[t].slot
         /\ \A u \in Tickers : u # t => tick'[u] = tick[u]
<1>1. tick[t] \in Tick
  BY DEF TypeOK
<1>2. tick'[t] = [tick[t] EXCEPT !.at = phase] /\ \A u \in Tickers : u # t => tick'[u] = tick[u]
  BY DEF Goto, TypeOK
<1> QED
  BY <1>1, <1>2 DEF Tick

LEMMA Returning ==
  ASSUME TypeOK, NEW t \in Tickers, Return(t)
  PROVE  tick'[t].at = "idle" /\ \A u \in Tickers : u # t => tick'[u] = tick[u]
  BY DEF Return, TypeOK, NoTick

\* A step of one tick to a phase that owns nothing.
LEMMA DLeave ==
  ASSUME TypeOK, DInv, NEW t \in Tickers, UNCHANGED <<disp, posts>>, Gone' <=> Gone,
         \A u \in Tickers : u # t => tick'[u] = tick[u],
         tick'[t].at \notin {"resolve", "post", "mark", "failing"}
  PROVE  DInv'
<1>1. \A u \in Tickers : Owns(u)' => tick'[u].at = tick[u].at /\ tick'[u].slot = tick[u].slot
  BY DEF Owns
<1> QED
  BY <1>1, DIdle

LEMMA BeginD ==
  ASSUME TypeOK, DInv, NEW t \in Tickers, Begin(t)
  PROVE  DInv'
<1>1. \E phase \in {"finish", "remind", "claim", "expire", "forward"}, s \in Times : Plan(t, phase, s)
  <2>1. clock \in Times /\ 0 \in Times
    BY ZeroIsATime DEF TypeOK
  <2> QED
    BY <2>1 DEF Begin, Exhausted, Ahead, Due, Expired, Behind
<1>2. PICK phase \in {"finish", "remind", "claim", "expire", "forward"}, s \in Times : Plan(t, phase, s)
  BY <1>1
<1>3. tick'[t] = [NoTick EXCEPT !.at = phase, !.slot = s, !.recurs = Recurs(event)]
  BY <1>2 DEF Plan, TypeOK
<1>4. tick'[t].at = phase
  BY <1>3 DEF NoTick
<1>5. \A u \in Tickers : u # t => tick'[u] = tick[u]
  BY <1>2 DEF Plan, TypeOK
<1>6. UNCHANGED <<disp, posts>> /\ (Gone' <=> Gone)
  BY DEF Begin, Gone
<1> QED
  BY <1>2, <1>4, <1>5, <1>6, DLeave

\* What the ticks write to the calendar_events row.
LEMMA RowMoves ==
  ASSUME TypeOK, NEW t \in Tickers, Skip(t) \/ Settle(t)
  PROVE  /\ event'.status \in {event.status, "done"} /\ (Gone => event' = event)
         /\ event'.start = event.start /\ event'.rule = event.rule
         /\ \/ event'.last = event.last
            \/ event'.last = Slot(t) /\ tick[t].at \in {"expire", "forward", "settle"}
         /\ \/ event' = event
            \/ event'.reach = IF event'.last > event.reach THEN event'.last ELSE event.reach
<1>1. CASE Gone
  BY <1>1 DEF Skip, Settle, Update, Gone
<1>2. CASE ~Gone
  <2>1. event \in Event /\ Slot(t) \in Times /\ event.status \in Statuses \cup {"deleted"}
    BY SlotType DEF TypeOK, Event
  <2> DEFINE st == IF tick[t].recurs THEN event.status ELSE "done"
  <2>2. \/ Update([event EXCEPT !.status = "done"])
        \/ /\ tick[t].at \in {"expire", "forward", "settle"}
           /\ \/ Update([event EXCEPT !.last = Slot(t), !.status = "done"])
              \/ Update([event EXCEPT !.last = Slot(t)])
              \/ Update([event EXCEPT !.last = Slot(t), !.status = st])
    BY DEF Skip, Settle
  <2>3. CASE Update([event EXCEPT !.status = "done"])
    <3> DEFINE e == [event EXCEPT !.status = "done"]
    <3>1. e \in Event /\ e.status = "done" /\ e.start = event.start /\ e.rule = event.rule
          /\ e.last = event.last /\ e.reach = event.reach
      BY <2>1 DEF Event, Statuses
    <3>2. Update(e) /\ event.status # "deleted"
      BY <1>2, <2>3 DEF Gone
    <3> HIDE DEF e
    <3>3. /\ event'.status = e.status /\ event'.last = e.last
          /\ event'.start = e.start /\ event'.rule = e.rule
          /\ event'.reach = IF e.last > e.reach THEN e.last ELSE e.reach
      BY <3>1, <3>2, Updated
    <3> QED
      BY <1>2, <3>1, <3>3
  <2>4. ASSUME NEW c \in {"done", event.status}, tick[t].at \in {"expire", "forward", "settle"},
               Update([event EXCEPT !.last = Slot(t), !.status = c])
        PROVE  /\ event'.status \in {event.status, "done"}
               /\ event'.start = event.start /\ event'.rule = event.rule
               /\ event'.last = Slot(t)
               /\ event'.reach = IF event'.last > event.reach THEN event'.last ELSE event.reach
    <3> DEFINE e == [event EXCEPT !.last = Slot(t), !.status = c]
    <3>1. c \in Statuses \cup {"deleted"}
      BY <2>1 DEF Statuses
    <3>2. e \in Event
      BY <2>1, <3>1, MovedType
    <3>3. e.status = c /\ e.start = event.start /\ e.rule = event.rule
          /\ e.last = Slot(t) /\ e.reach = event.reach
      BY <2>1 DEF Event
    <3>4. Update(e) /\ event.status # "deleted"
      BY <1>2, <2>4 DEF Gone
    <3> HIDE DEF e
    <3>5. /\ event'.status = e.status /\ event'.last = e.last
          /\ event'.start = e.start /\ event'.rule = e.rule
          /\ event'.reach = IF e.last > e.reach THEN e.last ELSE e.reach
      BY <3>2, <3>4, Updated
    <3> QED
      BY <3>3, <3>5
  <2>5. CASE Update([event EXCEPT !.last = Slot(t)]) /\ tick[t].at \in {"expire", "forward", "settle"}
    <3>1. [event EXCEPT !.last = Slot(t)] = [event EXCEPT !.last = Slot(t), !.status = event.status]
      BY <2>1 DEF Event
    <3>2. Update([event EXCEPT !.last = Slot(t), !.status = event.status])
      BY <2>5, <3>1
    <3> QED
      BY <1>2, <2>4, <2>5, <3>2
  <2>6. st \in {"done", event.status}
    OBVIOUS
  <2> QED
    BY <1>2, <2>2, <2>3, <2>4, <2>5, <2>6
<1> QED
  BY <1>1, <1>2

LEMMA SkipGone ==
  ASSUME TypeOK, NEW t \in Tickers, Skip(t)
  PROVE  Gone' <=> Gone
  BY RowMoves DEF Gone

LEMMA SkipD ==
  ASSUME TypeOK, DInv, NEW t \in Tickers, Skip(t)
  PROVE  DInv'
<1>1. Return(t) /\ UNCHANGED <<disp, posts>>
  BY DEF Skip
<1> QED
  BY <1>1, SkipGone, Returning, DLeave

LEMMA SettleGone ==
  ASSUME TypeOK, NEW t \in Tickers, Settle(t)
  PROVE  Gone' <=> Gone
  BY RowMoves DEF Gone

LEMMA SettleD ==
  ASSUME TypeOK, DInv, NEW t \in Tickers, Settle(t)
  PROVE  DInv'
<1>1. Return(t) /\ UNCHANGED <<disp, posts>>
  BY DEF Settle
<1> QED
  BY <1>1, SettleGone, Returning, DLeave

LEMMA OwnerApart ==
  ASSUME DInv, NEW t \in Tickers, Owns(t)
  PROVE  \A u \in Tickers : u # t /\ Owns(u) => Slot(u) # Slot(t)
  BY DEF DInv, ClaimsApart

LEMMA ClaimD ==
  ASSUME TypeOK, DInv, NEW t \in Tickers, Claim(t)
  PROVE  DInv'
<1> DEFINE s == Slot(t)
<1>1. s \in Times /\ \A u \in Tickers : Slot(u) \in Times
  BY SlotType
<1>2. UNCHANGED posts /\ (Gone' <=> Gone)
  BY DEF Claim, Gone
<1>3. posts[s] \in {0, 1} /\ (disp[s] = "none" => posts[s] = 0 \/ Gone)
  BY <1>1 DEF DInv, AtMostOne, UnclaimedUnposted
<1>4. ~Gone /\ disp[s] = "none" => \A u \in Tickers : u # t /\ Owns(u) => Slot(u) # s
  BY DEF DInv, ClaimsPending
<1>5. CASE ~Gone /\ disp[s] = "none" /\ disp' = [disp EXCEPT ![s] = "pending"]
           /\ (Goto(t, "resolve") \/ Goto(t, "settle"))
  <2>1. \E phase \in {"resolve", "settle"} : Goto(t, phase)
    BY <1>5
  <2>2. PICK phase \in {"resolve", "settle"} : Goto(t, phase)
    BY <2>1
  <2>3. tick'[t].at = phase /\ Slot(t)' = s /\ \A u \in Tickers : u # t => tick'[u] = tick[u]
    BY <2>2, Going DEF Slot
  <2>4. disp'[s] = "pending" /\ \A r \in Times : r # s => disp'[r] = disp[r]
    BY <1>1, <1>5 DEF TypeOK
  <2>5. posts'[s] = 0
    BY <1>2, <1>3, <1>5
  <2> QED
    BY <1>1, <1>2, <1>4, <1>5, <2>2, <2>3, <2>4, <2>5, DStep
<1>6. CASE UNCHANGED disp /\ Return(t)
  BY <1>2, <1>6, Returning, DLeave
<1>7. CASE UNCHANGED disp /\ Goto(t, "settle")
  BY <1>2, <1>7, Going, DLeave
<1> QED
  BY <1>5, <1>6, <1>7 DEF Claim, Gone

LEMMA ResolveD ==
  ASSUME TypeOK, DInv, NEW t \in Tickers, Resolve(t)
  PROVE  DInv'
<1> DEFINE s == Slot(t)
<1>1. s \in Times /\ \A u \in Tickers : Slot(u) \in Times
  BY SlotType
<1>2. UNCHANGED posts /\ (Gone' <=> Gone)
  BY DEF Resolve, Gone
<1>3. tick[t].at = "resolve" /\ Owns(t)
  BY DEF Resolve, Owns
<1>4. posts[s] = 0
  BY <1>3 DEF DInv, NotYetPosted
<1>5. disp[s] = "pending" \/ (Gone /\ disp[s] = "none")
  BY <1>1, <1>3 DEF DInv, ClaimsPending, GoneEmpty
<1>6. \A u \in Tickers : u # t /\ Owns(u) => Slot(u) # s
  BY <1>3, OwnerApart
<1>7. CASE Record(t, "skipped") /\ Goto(t, "settle")
  <2>1. tick'[t].at = "settle" /\ Slot(t)' = s /\ \A u \in Tickers : u # t => tick'[u] = tick[u]
    BY <1>7, Going DEF Slot
  <2>2. \A r \in Times : r # s => disp'[r] = disp[r]
    BY <1>1, <1>7 DEF Record, TypeOK
  <2>3. disp'[s] = "skipped" \/ (Gone /\ disp'[s] = "none")
    BY <1>1, <1>5, <1>7 DEF Record, TypeOK
  <2>4. Gone => disp'[s] = "none"
    BY <1>1, <1>7 DEF Record, DInv, GoneEmpty
  <2>5. ~Owns(t)'
    BY <2>1 DEF Owns
  <2> QED
    BY <1>1, <1>2, <1>4, <1>6, <2>1, <2>2, <2>3, <2>4, <2>5, DStep
<1>8. CASE UNCHANGED disp /\ (Goto(t, "post") \/ Goto(t, "failing"))
  <2>1. tick'[t].at \in {"post", "failing"} /\ Slot(t)' = s
        /\ \A u \in Tickers : u # t => tick'[u] = tick[u]
    BY <1>8, Going DEF Slot
  <2>2. Gone => disp[s] = "none"
    BY <1>1 DEF DInv, GoneEmpty
  <2> QED
    BY <1>1, <1>2, <1>4, <1>5, <1>6, <1>8, <2>1, <2>2, DStep
<1> QED
  BY <1>7, <1>8 DEF Resolve

LEMMA PostD ==
  ASSUME TypeOK, DInv, NEW t \in Tickers, Post(t)
  PROVE  DInv'
<1> DEFINE s == Slot(t)
<1>1. s \in Times /\ \A u \in Tickers : Slot(u) \in Times
  BY SlotType
<1>2. UNCHANGED disp /\ (Gone' <=> Gone)
  BY DEF Post, Gone
<1>3. tick[t].at = "post" /\ Owns(t)
  BY DEF Post, Owns
<1>4. posts[s] = 0
  BY <1>3 DEF DInv, NotYetPosted
<1>5. disp[s] = "pending" \/ (Gone /\ disp[s] = "none")
  BY <1>1, <1>3 DEF DInv, ClaimsPending, GoneEmpty
<1>6. \A u \in Tickers : u # t /\ Owns(u) => Slot(u) # s
  BY <1>3, OwnerApart
<1>7. \A r \in Times : r # s => posts'[r] = posts[r]
  BY <1>1 DEF Post, TypeOK
<1>8. posts'[s] = posts[s] + 1 \/ posts'[s] = posts[s]
  BY <1>1 DEF Post, TypeOK
<1>9. posts'[s] \in {0, 1}
  BY <1>4, <1>8
<1>10. Gone => disp[s] = "none"
  BY <1>1 DEF DInv, GoneEmpty
<1>11. CASE Goto(t, "mark")
  <2>1. tick'[t].at = "mark" /\ Slot(t)' = s /\ \A u \in Tickers : u # t => tick'[u] = tick[u]
    BY <1>11, Going DEF Slot
  <2>2. ~Goto(t, "failing")
    BY <2>1, Going
  <2>3. posts' = [posts EXCEPT ![s] = posts[s] + 1]
    BY <2>2 DEF Post
  <2>4. posts'[s] = posts[s] + 1
    BY <1>1, <2>3 DEF TypeOK
  <2>5. posts'[s] = 1
    BY <1>4, <2>4
  <2> QED
    BY <1>1, <1>2, <1>5, <1>6, <1>7, <1>10, <2>1, <2>5, DStep
<1>12. CASE Goto(t, "failing")
  <2>1. tick'[t].at = "failing" /\ Slot(t)' = s /\ \A u \in Tickers : u # t => tick'[u] = tick[u]
    BY <1>12, Going DEF Slot
  <2> QED
    BY <1>1, <1>2, <1>5, <1>6, <1>7, <1>9, <1>10, <2>1, DStep
<1> QED
  BY <1>11, <1>12 DEF Post

LEMMA MarkD ==
  ASSUME TypeOK, DInv, NEW t \in Tickers, Mark(t)
  PROVE  DInv'
<1> DEFINE s == Slot(t)
<1>1. s \in Times /\ \A u \in Tickers : Slot(u) \in Times
  BY SlotType
<1>2. UNCHANGED posts /\ (Gone' <=> Gone)
  BY DEF Mark, Gone
<1>3. tick[t].at = "mark" /\ Owns(t)
  BY DEF Mark, Owns
<1>4. posts[s] = 1
  BY <1>3 DEF DInv, JustPosted
<1>5. disp[s] = "pending" \/ (Gone /\ disp[s] = "none")
  BY <1>1, <1>3 DEF DInv, ClaimsPending, GoneEmpty
<1>6. \A u \in Tickers : u # t /\ Owns(u) => Slot(u) # s
  BY <1>3, OwnerApart
<1>7. CASE Record(t, "dispatched") /\ Goto(t, "settle")
  <2>1. tick'[t].at = "settle" /\ Slot(t)' = s /\ \A u \in Tickers : u # t => tick'[u] = tick[u]
    BY <1>7, Going DEF Slot
  <2>2. \A r \in Times : r # s => disp'[r] = disp[r]
    BY <1>1, <1>7 DEF Record, TypeOK
  <2>3. disp'[s] = "dispatched" \/ (Gone /\ disp'[s] = "none")
    BY <1>1, <1>5, <1>7 DEF Record, TypeOK
  <2>4. Gone => disp'[s] = "none"
    BY <1>1, <1>7 DEF Record, DInv, GoneEmpty
  <2>5. ~Owns(t)'
    BY <2>1 DEF Owns
  <2> QED
    BY <1>1, <1>2, <1>4, <1>6, <2>1, <2>2, <2>3, <2>4, <2>5, DStep
<1>8. CASE UNCHANGED disp /\ Goto(t, "failing")
  <2>1. tick'[t].at = "failing" /\ Slot(t)' = s /\ \A u \in Tickers : u # t => tick'[u] = tick[u]
    BY <1>8, Going DEF Slot
  <2>2. Gone => disp[s] = "none"
    BY <1>1 DEF DInv, GoneEmpty
  <2> QED
    BY <1>1, <1>2, <1>4, <1>5, <1>6, <1>8, <2>1, <2>2, DStep
<1> QED
  BY <1>7, <1>8 DEF Mark

LEMMA MarkFailedD ==
  ASSUME TypeOK, DInv, NEW t \in Tickers, MarkFailed(t)
  PROVE  DInv'
<1> DEFINE s == Slot(t)
<1>1. s \in Times /\ \A u \in Tickers : Slot(u) \in Times
  BY SlotType
<1>2. UNCHANGED posts /\ (Gone' <=> Gone) /\ Record(t, "failed") /\ Goto(t, "settle")
  BY DEF MarkFailed, Gone
<1>3. tick[t].at = "failing" /\ Owns(t)
  BY DEF MarkFailed, Owns
<1>4. posts[s] \in {0, 1}
  BY <1>1 DEF DInv, AtMostOne
<1>5. disp[s] = "pending" \/ (Gone /\ disp[s] = "none")
  BY <1>1, <1>3 DEF DInv, ClaimsPending, GoneEmpty
<1>6. \A u \in Tickers : u # t /\ Owns(u) => Slot(u) # s
  BY <1>3, OwnerApart
<1>7. tick'[t].at = "settle" /\ Slot(t)' = s /\ \A u \in Tickers : u # t => tick'[u] = tick[u]
  BY <1>2, Going DEF Slot
<1>8. \A r \in Times : r # s => disp'[r] = disp[r]
  BY <1>1, <1>2 DEF Record, TypeOK
<1>9. disp'[s] = "failed" \/ (Gone /\ disp'[s] = "none")
  BY <1>1, <1>2, <1>5 DEF Record, TypeOK
<1>10. Gone => disp'[s] = "none"
  BY <1>1, <1>2 DEF Record, DInv, GoneEmpty
<1>11. ~Owns(t)'
  BY <1>7 DEF Owns
<1> QED
  BY <1>1, <1>2, <1>4, <1>6, <1>7, <1>8, <1>9, <1>10, <1>11, DStep

LEMMA RestD ==
  ASSUME TypeOK, DInv, NEW t \in Tickers, Remind(t) \/ Notify(t) \/ Abort(t)
  PROVE  DInv'
<1>1. UNCHANGED <<disp, posts>> /\ (Gone' <=> Gone)
  BY DEF Remind, Notify, Abort, Gone
<1>2. Goto(t, "notify") \/ Return(t)
  BY DEF Remind, Notify, Abort
<1>3. tick'[t].at \in {"notify", "idle"} /\ \A u \in Tickers : u # t => tick'[u] = tick[u]
  BY <1>2, Going, Returning
<1> QED
  BY <1>1, <1>3, DLeave

LEMMA PatchGone ==
  ASSUME TypeOK, Patch
  PROVE  Gone' <=> Gone
<1>1. ~Gone /\ event \in Event
  BY DEF Patch, Gone, TypeOK
<1>2. event'.status \in Statuses \/ event'.status = event.status
  BY <1>1 DEF Patch, Event
<1> QED
  BY <1>1, <1>2 DEF Gone, Statuses

LEMMA PatchSlots ==
  ASSUME TypeOK, Patch, NEW u \in Tickers, tick'[u].at # "idle"
  PROVE  tick'[u].at = tick[u].at /\ tick'[u].slot = tick[u].slot
<1>1. tick[u].at # "idle"
  BY DEF Patch, NoTick
<1>2. tick'[u] = [tick[u] EXCEPT !.outdated = TRUE] /\ tick[u] \in Tick
  BY <1>1 DEF Patch, TypeOK
<1> QED
  BY <1>2 DEF Tick

LEMMA PatchD ==
  ASSUME TypeOK, DInv, Patch
  PROVE  DInv'
<1>1. \A u \in Tickers : Owns(u)' => tick'[u].at = tick[u].at /\ tick'[u].slot = tick[u].slot
  BY PatchSlots DEF Owns
<1>2. UNCHANGED <<disp, posts>>
  BY DEF Patch
<1> QED
  BY <1>1, <1>2, PatchGone, DIdle

LEMMA DeleteD ==
  ASSUME TypeOK, DInv, Delete
  PROVE  DInv'
<1>1. Gone'
  BY DEF Delete, Gone, TypeOK, Event
<1>2. UNCHANGED <<tick, posts>> /\ \A s \in Times : disp'[s] = "none"
  BY DEF Delete
<1>3. ClaimsPending' /\ UnclaimedUnposted' /\ GoneEmpty' /\ HistoryHonest'
  BY <1>1, <1>2 DEF ClaimsPending, UnclaimedUnposted, GoneEmpty, HistoryHonest
<1>4. ClaimsApart'
  BY <1>2 DEF DInv, ClaimsApart, Owns, Slot
<1>5. NotYetPosted' /\ JustPosted' /\ AtMostOne'
  BY <1>2 DEF DInv, NotYetPosted, JustPosted, AtMostOne, Slot
<1> QED
  BY <1>3, <1>4, <1>5 DEF DInv

LEMMA StepD ==
  ASSUME TypeOK, DInv, [Next]_vars
  PROVE  DInv'
<1>1. CASE \E t \in Tickers : Begin(t) \/ Work(t) \/ Abort(t)
  BY <1>1, BeginD, SkipD, ClaimD, ResolveD, PostD, MarkD, MarkFailedD, SettleD, RestD
     DEF Work, Dispatch
<1>2. CASE PassTime \/ UNCHANGED vars
  <2>1. UNCHANGED <<event, tick, disp, posts>>
    BY <1>2 DEF PassTime, vars
  <2>2. Gone' <=> Gone
    BY <2>1 DEF Gone
  <2> QED
    BY <2>1, <2>2, DIdle
<1>3. CASE Patch
  BY <1>3, PatchD
<1>4. CASE Delete
  BY <1>4, DeleteD
<1> QED
  BY <1>1, <1>2, <1>3, <1>4 DEF Next

\* A dispatch the history calls dispatched has its message, one it calls skipped has
\* none, through every overlap, failure and deletion (the status updates of dispatchEvent).
THEOREM HistoryIsHonest == Spec => []HistoryHonest
<1>1. TypeOK /\ DInv => HistoryHonest
  BY DEF DInv
<1>2. Spec => []TypeOK
  BY TypeCorrect
<1>3. Spec => []DInv
  <2>1. TypeOK /\ DInv /\ [Next]_vars => DInv'
    BY StepD
  <2> QED
    BY <1>2, <2>1, InitD, PTL DEF Spec
<1> QED
  BY <1>1, <1>2, <1>3, PTL

-----------------------------------------------------------------------------
(* Reminders, in the same way: the tick whose INSERT made the row sends it out. *)

Sending(t) == tick[t].at = "notify"

SendersApart == \A t, u \in Tickers : t # u /\ Sending(t) /\ Sending(u) => Slot(t) # Slot(u)

NotYetSent ==
    \A t \in Tickers : Sending(t) => notified[Slot(t)] = 0 /\ (rem[Slot(t)] # "none" \/ Gone)

AtMostOneSent == \A s \in Times : notified[s] \in {0, 1}

UnclaimedUnsent == \A s \in Times : rem[s] = "none" => notified[s] = 0 \/ Gone

RInv == SendersApart /\ NotYetSent /\ AtMostOneSent /\ UnclaimedUnsent

LEMMA InitR ==
  ASSUME Init PROVE RInv
<1>1. \A t \in Tickers : tick[t].at = "idle"
  BY DEF Init, NoTick
<1>2. \A s \in Times : notified[s] = 0
  BY DEF Init
<1> QED
  BY <1>1, <1>2 DEF RInv, SendersApart, NotYetSent, AtMostOneSent, UnclaimedUnsent, Sending

\* A step after which nobody sends that did not send before.
LEMMA RIdle ==
  ASSUME RInv, UNCHANGED <<rem, notified>>, Gone' <=> Gone,
         \A u \in Tickers : Sending(u)' => tick'[u].at = tick[u].at /\ tick'[u].slot = tick[u].slot
  PROVE  RInv'
<1>1. \A u \in Tickers : Sending(u)' => Sending(u) /\ Slot(u)' = Slot(u)
  BY DEF Sending, Slot
<1>2. SendersApart' /\ NotYetSent'
  BY <1>1 DEF RInv, SendersApart, NotYetSent
<1>3. AtMostOneSent' /\ UnclaimedUnsent'
  BY DEF RInv, AtMostOneSent, UnclaimedUnsent
<1> QED
  BY <1>2, <1>3 DEF RInv

LEMMA RLeave ==
  ASSUME RInv, NEW t \in Tickers, UNCHANGED <<rem, notified>>, Gone' <=> Gone,
         \A u \in Tickers : u # t => tick'[u] = tick[u], tick'[t].at # "notify"
  PROVE  RInv'
<1>1. \A u \in Tickers : Sending(u)' => tick'[u].at = tick[u].at /\ tick'[u].slot = tick[u].slot
  BY DEF Sending
<1> QED
  BY <1>1, RIdle

LEMMA BeginR ==
  ASSUME TypeOK, RInv, NEW t \in Tickers, Begin(t)
  PROVE  RInv'
<1>1. \E phase \in {"finish", "remind", "claim", "expire", "forward"}, s \in Times : Plan(t, phase, s)
  <2>1. clock \in Times /\ 0 \in Times
    BY ZeroIsATime DEF TypeOK
  <2> QED
    BY <2>1 DEF Begin, Exhausted, Ahead, Due, Expired, Behind
<1>2. PICK phase \in {"finish", "remind", "claim", "expire", "forward"}, s \in Times : Plan(t, phase, s)
  BY <1>1
<1>3. tick'[t] = [NoTick EXCEPT !.at = phase, !.slot = s, !.recurs = Recurs(event)]
  BY <1>2 DEF Plan, TypeOK
<1>4. tick'[t].at = phase
  BY <1>3 DEF NoTick
<1>5. \A u \in Tickers : u # t => tick'[u] = tick[u]
  BY <1>2 DEF Plan, TypeOK
<1>6. UNCHANGED <<rem, notified>> /\ (Gone' <=> Gone)
  BY DEF Begin, Gone
<1> QED
  BY <1>2, <1>4, <1>5, <1>6, RLeave

LEMMA DispatchR ==
  ASSUME TypeOK, RInv, NEW t \in Tickers, Skip(t) \/ Dispatch(t) \/ Abort(t)
  PROVE  RInv'
<1>1. UNCHANGED <<rem, notified>>
  BY DEF Skip, Dispatch, Claim, Resolve, Post, Mark, MarkFailed, Settle, Abort
<1>2. Gone' <=> Gone
  <2>1. CASE Skip(t)
    BY <2>1, SkipGone
  <2>2. CASE Settle(t)
    BY <2>2, SettleGone
  <2>3. CASE Claim(t) \/ Resolve(t) \/ Post(t) \/ Mark(t) \/ MarkFailed(t) \/ Abort(t)
    BY <2>3 DEF Claim, Resolve, Post, Mark, MarkFailed, Abort, Gone
  <2> QED
    BY <2>1, <2>2, <2>3 DEF Dispatch
<1>3. Return(t) \/ \E phase \in {"resolve", "settle", "post", "mark", "failing"} : Goto(t, phase)
  BY DEF Skip, Dispatch, Claim, Resolve, Post, Mark, MarkFailed, Settle, Abort
<1>4. tick'[t].at # "notify" /\ \A u \in Tickers : u # t => tick'[u] = tick[u]
  BY <1>3, Going, Returning
<1> QED
  BY <1>1, <1>2, <1>4, RLeave

LEMMA RemindR ==
  ASSUME TypeOK, RInv, NEW t \in Tickers, Remind(t)
  PROVE  RInv'
<1> DEFINE s == Slot(t)
<1>1. s \in Times /\ \A u \in Tickers : Slot(u) \in Times
  BY SlotType
<1>2. UNCHANGED notified /\ (Gone' <=> Gone)
  BY DEF Remind, Gone
<1>3. CASE ~Gone /\ rem[s] = "none" /\ rem' = [rem EXCEPT ![s] = "sent"] /\ Goto(t, "notify")
  <2>1. tick'[t].at = "notify" /\ Slot(t)' = s /\ \A u \in Tickers : u # t => tick'[u] = tick[u]
    BY <1>3, Going DEF Slot
  <2>2. rem'[s] = "sent" /\ \A r \in Times : r # s => rem'[r] = rem[r]
    BY <1>1, <1>3 DEF TypeOK
  <2>3. notified[s] = 0
    BY <1>1, <1>3 DEF RInv, UnclaimedUnsent
  <2>4. \A u \in Tickers : u # t => (Sending(u)' <=> Sending(u)) /\ Slot(u)' = Slot(u)
    BY <2>1 DEF Sending, Slot
  <2>5. \A u \in Tickers : u # t /\ Sending(u) => Slot(u) # s
    BY <1>3 DEF RInv, NotYetSent
  <2>6. SendersApart'
    <3>1. ASSUME NEW u \in Tickers, NEW v \in Tickers, u # v, Sending(u)', Sending(v)'
          PROVE  Slot(u)' # Slot(v)'
      <4>1. CASE u = t
        BY <2>1, <2>4, <2>5, <3>1, <4>1
      <4>2. CASE v = t
        BY <2>1, <2>4, <2>5, <3>1, <4>2
      <4>3. CASE u # t /\ v # t
        BY <2>4, <3>1, <4>3 DEF RInv, SendersApart
      <4> QED
        BY <4>1, <4>2, <4>3
    <3> QED
      BY <3>1 DEF SendersApart
  <2>7. NotYetSent'
    <3>1. ASSUME NEW u \in Tickers, Sending(u)'
          PROVE  notified'[Slot(u)'] = 0 /\ (rem'[Slot(u)'] # "none" \/ Gone')
      <4>1. CASE u = t
        BY <1>2, <2>1, <2>2, <2>3, <4>1
      <4>2. CASE u # t
        <5>1. Sending(u) /\ Slot(u)' = Slot(u) /\ Slot(u) # s /\ Slot(u) \in Times
          BY <1>1, <2>4, <2>5, <3>1, <4>2
        <5>2. notified[Slot(u)] = 0 /\ (rem[Slot(u)] # "none" \/ Gone)
          BY <5>1 DEF RInv, NotYetSent
        <5> QED
          BY <1>2, <2>2, <5>1, <5>2
      <4> QED
        BY <4>1, <4>2
    <3> QED
      BY <3>1 DEF NotYetSent
  <2>8. AtMostOneSent' /\ UnclaimedUnsent'
    BY <1>2, <2>2, <2>3 DEF RInv, AtMostOneSent, UnclaimedUnsent
  <2> QED
    BY <2>6, <2>7, <2>8 DEF RInv
<1>4. CASE UNCHANGED rem /\ Return(t)
  <2>1. tick'[t].at # "notify" /\ \A u \in Tickers : u # t => tick'[u] = tick[u]
    BY <1>4, Returning
  <2> QED
    BY <1>2, <1>4, <2>1, RLeave
<1> QED
  BY <1>3, <1>4 DEF Remind, Gone

LEMMA NotifyR ==
  ASSUME TypeOK, RInv, NEW t \in Tickers, Notify(t)
  PROVE  RInv'
<1> DEFINE s == Slot(t)
<1>1. s \in Times /\ \A u \in Tickers : Slot(u) \in Times
  BY SlotType
<1>2. (Gone' <=> Gone) /\ Sending(t) /\ Return(t)
  BY DEF Notify, Gone, Sending
<1>3. tick'[t].at = "idle" /\ \A u \in Tickers : u # t => tick'[u] = tick[u]
  BY <1>2, Returning
<1>4. notified[s] = 0 /\ (rem[s] # "none" \/ Gone)
  BY <1>2 DEF RInv, NotYetSent
<1>5. \A r \in Times : r # s => notified'[r] = notified[r] /\ rem'[r] = rem[r]
  BY <1>1 DEF Notify, TypeOK
<1>6. notified'[s] \in {0, 1}
  <2>1. notified'[s] = notified[s] + 1 \/ \E n \in {0, 1} : notified'[s] = notified[s] + n
    BY <1>1 DEF Notify, TypeOK
  <2> QED
    BY <1>4, <2>1
<1>7. rem'[s] # "none" \/ rem'[s] = rem[s]
  BY <1>1 DEF Notify, TypeOK
<1>8. \A u \in Tickers : Sending(u)' => u # t /\ Sending(u) /\ Slot(u)' = Slot(u)
  BY <1>3 DEF Sending, Slot
<1>9. \A u \in Tickers : u # t /\ Sending(u) => Slot(u) # s
  BY <1>2 DEF RInv, SendersApart
<1>10. SendersApart'
  BY <1>8 DEF RInv, SendersApart
<1>11. NotYetSent'
  <2>1. ASSUME NEW u \in Tickers, Sending(u)'
        PROVE  notified'[Slot(u)'] = 0 /\ (rem'[Slot(u)'] # "none" \/ Gone')
    <3>1. Sending(u) /\ Slot(u)' = Slot(u) /\ Slot(u) # s /\ Slot(u) \in Times
      BY <1>1, <1>8, <1>9, <2>1
    <3>2. notified[Slot(u)] = 0 /\ (rem[Slot(u)] # "none" \/ Gone)
      BY <3>1 DEF RInv, NotYetSent
    <3> QED
      BY <1>2, <1>5, <3>1, <3>2
  <2> QED
    BY <2>1 DEF NotYetSent
<1>12. AtMostOneSent'
  BY <1>5, <1>6 DEF RInv, AtMostOneSent
<1>13. UnclaimedUnsent'
  BY <1>2, <1>4, <1>5, <1>7 DEF RInv, UnclaimedUnsent
<1> QED
  BY <1>10, <1>11, <1>12, <1>13 DEF RInv

LEMMA DeleteR ==
  ASSUME TypeOK, RInv, Delete
  PROVE  RInv'
<1>1. Gone'
  BY DEF Delete, Gone, TypeOK, Event
<1>2. UNCHANGED <<tick, notified>>
  BY DEF Delete
<1> QED
  BY <1>1, <1>2 DEF RInv, SendersApart, NotYetSent, AtMostOneSent, UnclaimedUnsent, Sending, Slot

LEMMA StepR ==
  ASSUME TypeOK, RInv, [Next]_vars
  PROVE  RInv'
<1>1. CASE \E t \in Tickers : Begin(t) \/ Work(t) \/ Abort(t)
  BY <1>1, BeginR, DispatchR, RemindR, NotifyR DEF Work
<1>2. CASE PassTime \/ UNCHANGED vars
  <2>1. UNCHANGED <<event, tick, rem, notified>>
    BY <1>2 DEF PassTime, vars
  <2>2. Gone' <=> Gone
    BY <2>1 DEF Gone
  <2> QED
    BY <2>1, <2>2, RIdle
<1>3. CASE Patch
  <2>1. \A u \in Tickers : Sending(u)' => tick'[u].at = tick[u].at /\ tick'[u].slot = tick[u].slot
    BY <1>3, PatchSlots DEF Sending
  <2>2. UNCHANGED <<rem, notified>>
    BY <1>3 DEF Patch
  <2> QED
    BY <1>3, <2>1, <2>2, PatchGone, RIdle
<1>4. CASE Delete
  BY <1>4, DeleteR
<1> QED
  BY <1>1, <1>2, <1>3, <1>4 DEF Next

\* Whatever ticks overlap, lag, fail and start over, each occurrence is posted at most
\* once and reminded of at most once (the unique rows of dispatchEvent and sendReminder).
THEOREM FiresOnce == Spec => []OncePerOccurrence
<1>1. TypeOK /\ DInv /\ RInv => OncePerOccurrence
  <2> SUFFICES ASSUME DInv, RInv, NEW s \in Times
               PROVE  posts[s] <= 1 /\ notified[s] <= 1
    BY DEF OncePerOccurrence
  <2>1. posts[s] \in {0, 1}
    BY DEF DInv, AtMostOne
  <2>2. notified[s] \in {0, 1}
    BY DEF RInv, AtMostOneSent
  <2> QED
    BY <2>1, <2>2
<1>2. Spec => []TypeOK
  BY TypeCorrect
<1>3. Spec => []DInv
  <2>1. TypeOK /\ DInv /\ [Next]_vars => DInv'
    BY StepD
  <2> QED
    BY <1>2, <2>1, InitD, PTL DEF Spec
<1>4. Spec => []RInv
  <2>1. TypeOK /\ RInv /\ [Next]_vars => RInv'
    BY StepR
  <2> QED
    BY <1>2, <2>1, InitR, PTL DEF Spec
<1> QED
  BY <1>1, <1>2, <1>3, <1>4, PTL
-----------------------------------------------------------------------------
(* Nothing is skipped in silence: what a tick passes over was too late when it read   *)
(* the row, and time only makes it later.                                             *)

ReachAhead == event.last <= event.reach

\* The occurrences before the slot of t that last_fired_at never reached.
Covered(t) ==
    \A s \in Times \cap Occurrences(event) :
        /\ event.reach < s
        /\ s < Slot(t) \/ (s = Slot(t) /\ tick[t].at \in {"expire", "forward"})
        => TooOld(s)

Moves(t) == tick[t].at \notin {"idle", "finish", "remind", "notify"} /\ ~tick[t].outdated

Planned == \A t \in Tickers : Moves(t) => Covered(t)

SInv == ReachAhead /\ Planned

LEMMA InitS ==
  ASSUME Init PROVE SInv
<1>1. event.last = Never /\ event.reach = Never
  BY DEF Init
<1>2. \A t \in Tickers : tick[t].at = "idle"
  BY DEF Init, NoTick
<1> QED
  BY <1>1, <1>2 DEF SInv, ReachAhead, Planned, Moves, Never

LEMMA EventTyped ==
  ASSUME TypeOK
  PROVE  /\ event.start \in Nat /\ event.rule.every \in Nat /\ event.rule.count \in Nat
         /\ event.last \in Int /\ event.reach \in Int
<1>1. event \in Event
  BY DEF TypeOK
<1>2. event.start \in Times /\ event.rule \in Rules /\ event.last \in Times \cup {Never}
      /\ event.reach \in Times \cup {Never}
  BY <1>1 DEF Event
<1>3. event.rule.every \in Nat /\ event.rule.count \in Nat
  BY <1>2, CalendarAssumption
<1>4. event.last \in Int /\ event.reach \in Int
  BY <1>2 DEF Never, Times
<1> QED
  BY <1>2, <1>3, <1>4, TimesAreNaturals

LEMMA OccurrencesCount ==
  ASSUME TypeOK, NEW s \in Occurrences(event)
  PROVE  s \in Nat /\ s >= event.start
<1>1. PICK k \in 0..(event.rule.count - 1) : s = event.start + k * event.rule.every
  BY DEF Occurrences
<1>2. k \in Nat /\ event.rule.every \in Nat /\ event.start \in Nat
  BY EventTyped
<1>3. k * event.rule.every \in Nat
  BY <1>2
<1> QED
  BY <1>1, <1>2, <1>3

\* An occurrence that last_fired_at has not reached is one the scan looks at.
LEMMA AfterTheLast ==
  ASSUME TypeOK, ReachAhead, NEW s \in Occurrences(event), event.reach < s
  PROVE  s >= After(event)
<1>1. s \in Nat /\ s >= event.start /\ event.start \in Nat /\ event.last \in Int /\ event.reach \in Int
  BY EventTyped, OccurrencesCount
<1>2. event.last < s
  BY <1>1 DEF ReachAhead
<1> QED
  BY <1>1, <1>2 DEF After

\* What a row that is read fresh says of the occurrences before the slot.
LEMMA PlanCovers ==
  ASSUME TypeOK, ReachAhead, NEW t \in Tickers, Begin(t)
  PROVE  (Moves(t) => Covered(t))'
<1>1. UNCHANGED <<clock, event>> /\ clock \in Nat /\ Catchup \in Nat
  BY ClockType, CalendarAssumption DEF Begin
<1>2. ASSUME NEW phase \in Phases, NEW p \in Times, Plan(t, phase, p)
      PROVE  tick'[t].at = phase /\ tick'[t].slot = p
  <2>1. tick'[t] = [NoTick EXCEPT !.at = phase, !.slot = p, !.recurs = Recurs(event)]
    BY <1>2 DEF Plan, TypeOK
  <2> QED
    BY <2>1 DEF NoTick
<1>3. ASSUME NEW p \in Times, NEW s \in Times \cap Occurrences(event), First(p), event.reach < s
      PROVE  p <= s
  BY <1>3, AfterTheLast DEF First, NextSlot
<1>4. ASSUME NEW p, NEW s \in Times \cap Occurrences(event), InWindow(p), s < p, p \in Int
      PROVE  TooOld(s)
  <2>1. s \in Nat
    BY TimesAreNaturals
  <2>2. ~(s >= clock - Catchup)
    BY <1>4, <2>1 DEF InWindow, NextSlot
  <2> QED
    BY <1>1, <2>1, <2>2 DEF TooOld
<1>5. ASSUME NEW p \in Times, NEW phase \in Phases, Plan(t, phase, p),
             \A s \in Times \cap Occurrences(event) :
                 event.reach < s /\ (s < p \/ (s = p /\ phase \in {"expire", "forward"})) => TooOld(s)
      PROVE  Covered(t)'
  <2>1. tick'[t].at = phase /\ tick'[t].slot = p
    BY <1>2, <1>5
  <2> QED
    BY <1>1, <1>5, <2>1 DEF Covered, Slot, TooOld
<1>6. CASE Exhausted(t)
  <2>1. tick'[t].at = "finish"
    BY <1>2, <1>6, ZeroIsATime DEF Exhausted, Phases
  <2> QED
    BY <2>1 DEF Moves
<1>7. CASE Ahead(t)
  <2>1. tick'[t].at = "remind"
    BY <1>2, <1>7 DEF Ahead, Phases
  <2> QED
    BY <2>1 DEF Moves
<1>8. CASE Due(t)
  <2>1. PICK p \in Times : (First(p) \/ InWindow(p)) /\ Plan(t, "claim", p)
    BY <1>8 DEF Due
  <2>2. ASSUME NEW s \in Times \cap Occurrences(event), event.reach < s, s < p
        PROVE  TooOld(s)
    <3>1. s \in Int /\ p \in Int
      BY TimesAreNaturals
    <3>2. ~First(p)
      BY <1>3, <2>2, <3>1
    <3> QED
      BY <1>4, <2>1, <2>2, <3>1, <3>2
  <2> QED
    BY <1>5, <2>1, <2>2 DEF Phases
<1>9. CASE Expired(t)
  <2>1. PICK p \in Times : First(p) /\ TooOld(p) /\ Plan(t, "expire", p)
    BY <1>9 DEF Expired
  <2>2. ASSUME NEW s \in Times \cap Occurrences(event), event.reach < s, s < p \/ s = p
        PROVE  TooOld(s)
    <3>1. s \in Int /\ p \in Int /\ p <= s
      BY <1>3, <2>1, <2>2, TimesAreNaturals
    <3>2. s = p
      BY <2>2, <3>1
    <3> QED
      BY <2>1, <3>2
  <2> QED
    BY <1>5, <2>1, <2>2 DEF Phases
<1>10. CASE Behind(t)
  <2>1. PICK p \in Occurrences(event) : InWindow(p) /\ p > clock
    BY <1>10 DEF Behind
  <2>2. clock \in Times /\ Plan(t, "forward", clock) /\ p \in Nat
    BY <1>10, OccurrencesCount DEF Behind, TypeOK
  <2>3. ASSUME NEW s \in Times \cap Occurrences(event), event.reach < s, s < clock \/ s = clock
        PROVE  TooOld(s)
    <3>1. s \in Int
      BY TimesAreNaturals
    <3>2. s < p
      BY <1>1, <2>1, <2>2, <2>3, <3>1
    <3> QED
      BY <1>4, <2>1, <2>2, <3>2
  <2> QED
    BY <1>5, <2>2, <2>3 DEF Phases
<1> QED
  BY <1>6, <1>7, <1>8, <1>9, <1>10 DEF Begin

LEMMA LaterStill ==
  ASSUME NEW c \in Int, NEW d \in Int, c <= d, NEW s \in Int, NEW w \in Int, c - s > w
  PROVE  d - s > w
  OBVIOUS

\* The occurrences stay, last_fired_at has reached no less, and it is later.
LEMMA CoverStays ==
  ASSUME TypeOK, TypeOK', NEW t \in Tickers, Covered(t), clock <= clock',
         event'.start = event.start, event'.rule = event.rule, event.reach <= event'.reach,
         tick'[t].slot = tick[t].slot,
         tick'[t].at \in {"expire", "forward"} => tick'[t].at = tick[t].at
  PROVE  Covered(t)'
<1>1. Occurrences(event)' = Occurrences(event)
  BY DEF Occurrences
<1>2. ASSUME NEW s \in Times \cap Occurrences(event), event'.reach < s,
             s < tick'[t].slot \/ (s = tick'[t].slot /\ tick'[t].at \in {"expire", "forward"})
      PROVE  TooOld(s)'
  <2>1. event.reach \in Int /\ event'.reach \in Int
    BY EventTyped, TypeOK' DEF TypeOK, Event, Never, Times
  <2>2. s \in Int /\ clock \in Int /\ clock' \in Int /\ Catchup \in Int
    BY CalendarAssumption DEF TypeOK, Times
  <2>3. event.reach < s
    BY <1>2, <2>1, <2>2
  <2>4. TooOld(s)
    BY <1>2, <2>3 DEF Covered, Slot
  <2>5. clock - s > Catchup
    BY <2>4 DEF TooOld
  <2>6. clock' - s > Catchup
    BY <2>2, <2>5, LaterStill
  <2> QED
    BY <2>6 DEF TooOld
<1> QED
  BY <1>1, <1>2 DEF Covered, Slot

\* A step that starts no tick and edits no schedule.
LEMMA StepCovers ==
  ASSUME TypeOK, TypeOK', Planned, clock <= clock', event'.start = event.start,
         event'.rule = event.rule, event.reach <= event'.reach,
         \A t \in Tickers : Moves(t)' =>
             /\ Moves(t) /\ tick'[t].slot = tick[t].slot
             /\ tick'[t].at \in {"expire", "forward"} => tick'[t].at = tick[t].at
  PROVE  Planned'
<1>1. ASSUME NEW t \in Tickers, Moves(t)' PROVE Covered(t)'
  BY <1>1, CoverStays DEF Planned
<1> QED
  BY <1>1 DEF Planned

LEMMA GoingOn ==
  ASSUME TypeOK, NEW t \in Tickers, NEW phase, Goto(t, phase)
  PROVE  tick'[t].outdated = tick[t].outdated
<1>1. tick[t] \in Tick
  BY DEF TypeOK
<1> QED
  BY <1>1 DEF Goto, TypeOK, Tick

\* The steps of a tick that has begun.
LEMMA TicksCover ==
  ASSUME TypeOK, TypeOK', SInv, NEW t \in Tickers, Work(t) \/ Abort(t)
  PROVE  SInv'
<1>1. clock' = clock /\ clock \in Nat
  BY ClockType DEF Work, Skip, Dispatch, Claim, Resolve, Post, Mark, MarkFailed, Settle, Remind,
                   Notify, Abort
<1>2. /\ event'.start = event.start /\ event'.rule = event.rule
      /\ event.reach <= event'.reach /\ event'.last <= event'.reach
  <2>1. event.last <= event.reach /\ event.last \in Int /\ event.reach \in Int
    BY EventTyped DEF SInv, ReachAhead
  <2>2. CASE Skip(t) \/ Settle(t)
    <3>1. Slot(t) \in Int
      BY SlotType DEF Times
    <3>2. /\ event'.start = event.start /\ event'.rule = event.rule
          /\ event'.last = event.last \/ event'.last = Slot(t)
          /\ \/ event' = event
             \/ event'.reach = IF event'.last > event.reach THEN event'.last ELSE event.reach
      BY <2>2, RowMoves
    <3> QED
      BY <2>1, <3>1, <3>2
  <2>3. CASE ~(Skip(t) \/ Settle(t))
    <3>1. event' = event
      BY <2>3 DEF Work, Dispatch, Claim, Resolve, Post, Mark, MarkFailed, Remind, Notify, Abort
    <3> QED
      BY <2>1, <3>1
  <2> QED
    BY <2>2, <2>3
<1>3. \/ Return(t) \/ Goto(t, "notify")
      \/ /\ tick[t].at \in {"claim", "resolve", "post", "mark", "failing"}
         /\ \E phase \in {"resolve", "settle", "post", "mark", "failing"} : Goto(t, phase)
  BY DEF Work, Skip, Dispatch, Claim, Resolve, Post, Mark, MarkFailed, Settle, Remind, Notify, Abort
<1>4. ASSUME NEW u \in Tickers, Moves(u)'
      PROVE  /\ Moves(u) /\ tick'[u].slot = tick[u].slot
             /\ tick'[u].at \in {"expire", "forward"} => tick'[u].at = tick[u].at
  <2>1. CASE u # t
    <3>1. tick'[u] = tick[u]
      BY <1>3, <2>1, Going, Returning
    <3> QED
      BY <1>4, <3>1 DEF Moves
  <2>2. CASE u = t
    <3>1. ~Return(t) /\ ~Goto(t, "notify")
      BY <1>4, <2>2, Going, Returning DEF Moves
    <3>2. PICK phase \in {"resolve", "settle", "post", "mark", "failing"} : Goto(t, phase)
      BY <1>3, <3>1
    <3>3. tick'[t].at = phase /\ tick'[t].slot = tick[t].slot /\ tick'[t].outdated = tick[t].outdated
      BY <3>2, Going, GoingOn
    <3>4. tick[t].at \in {"claim", "resolve", "post", "mark", "failing"}
      BY <1>3, <3>1
    <3> QED
      BY <1>4, <2>2, <3>3, <3>4 DEF Moves
  <2> QED
    BY <2>1, <2>2
<1>5. Planned'
  BY <1>1, <1>2, <1>4, StepCovers DEF SInv
<1> QED
  BY <1>2, <1>5 DEF SInv, ReachAhead

LEMMA BeginS ==
  ASSUME TypeOK, SInv, NEW t \in Tickers, Begin(t)
  PROVE  SInv'
<1>1. UNCHANGED <<clock, event>>
  BY DEF Begin
<1>2. \A u \in Tickers : u # t => tick'[u] = tick[u]
  <2>1. \E phase, s : Plan(t, phase, s)
    BY DEF Begin, Exhausted, Ahead, Due, Expired, Behind
  <2> QED
    BY <2>1 DEF Plan, TypeOK
<1>3. ASSUME NEW u \in Tickers, u # t PROVE (Moves(u) => Covered(u))'
  BY <1>1, <1>2, <1>3 DEF SInv, Planned, Moves, Covered, Slot, TooOld
<1>4. (Moves(t) => Covered(t))'
  BY PlanCovers DEF SInv
<1> QED
  BY <1>1, <1>3, <1>4 DEF SInv, ReachAhead, Planned

LEMMA PatchS ==
  ASSUME TypeOK, SInv, Patch
  PROVE  SInv'
<1>1. event \in Event /\ tick \in [Tickers -> Tick]
  BY DEF TypeOK
<1>2. event'.last = event.last /\ event'.reach = event.reach
  BY <1>1 DEF Patch, Event
<1>3. ASSUME NEW t \in Tickers PROVE ~Moves(t)'
  <2>1. tick'[t] = NoTick \/ tick'[t] = [tick[t] EXCEPT !.outdated = TRUE]
    BY DEF Patch
  <2>2. tick'[t].at = "idle" \/ tick'[t].outdated
    BY <1>1, <2>1 DEF Tick, NoTick
  <2> QED
    BY <2>2 DEF Moves
<1> QED
  BY <1>2, <1>3 DEF SInv, ReachAhead, Planned

LEMMA StepS ==
  ASSUME TypeOK, TypeOK', SInv, [Next]_vars
  PROVE  SInv'
<1>1. CASE \E t \in Tickers : Begin(t) \/ Work(t) \/ Abort(t)
  BY <1>1, BeginS, TicksCover
<1>2. CASE PassTime \/ Delete \/ UNCHANGED vars
  <2>1. event \in Event /\ clock \in Nat
    BY ClockType DEF TypeOK
  <2>2. tick' = tick /\ clock <= clock'
    BY <1>2, <2>1 DEF PassTime, Delete, vars
  <2>3. event'.start = event.start /\ event'.rule = event.rule /\ event'.reach = event.reach
        /\ event'.last = event.last
    BY <1>2, <2>1 DEF PassTime, Delete, vars, Event
  <2>4. event.reach \in Int
    BY EventTyped
  <2>5. Planned'
    BY <2>2, <2>3, <2>4, StepCovers DEF SInv, Moves
  <2> QED
    BY <2>3, <2>5 DEF SInv, ReachAhead
<1>3. CASE Patch
  BY <1>3, PatchS
<1> QED
  BY <1>1, <1>2, <1>3 DEF Next

\* A step that takes last_fired_at past s is a late s, a tick that tried s, or a tick
\* whose schedule was edited.
LEMMA SkipsTold ==
  ASSUME TypeOK, SInv, [Next]_vars, NEW s \in Times \cap Occurrences(event),
         event.reach < s, s <= event'.last
  PROVE  \/ clock - s > Catchup
         \/ \E t \in Tickers :
               /\ tick'[t] # tick[t]
               /\ (tick[t].at = "settle" /\ Slot(t) = s) \/ tick[t].outdated
<1>1. event.last <= event.reach /\ event.last \in Int /\ event.reach \in Int /\ s \in Int
  BY EventTyped, TimesAreNaturals DEF SInv, ReachAhead
<1>2. event'.last # event.last
  BY <1>1
<1>3. PICK t \in Tickers : Skip(t) \/ Settle(t)
  <2>1. event \in Event
    BY DEF TypeOK
  <2>2. ~Patch /\ ~Delete
    BY <1>2, <2>1 DEF Patch, Delete, Event
  <2>3. ~PassTime /\ ~UNCHANGED vars
    BY <1>2 DEF PassTime, vars
  <2>4. \E t \in Tickers : Begin(t) \/ Work(t) \/ Abort(t)
    BY <2>2, <2>3 DEF Next
  <2> QED
    BY <1>2, <2>4 DEF Begin, Work, Dispatch, Claim, Resolve, Post, Mark, MarkFailed, Remind, Notify,
                      Abort
<1>4. event'.last = Slot(t) /\ tick[t].at \in {"expire", "forward", "settle"}
  BY <1>2, <1>3, RowMoves
<1>5. tick'[t] # tick[t]
  <2>1. Return(t)
    BY <1>3 DEF Skip, Settle
  <2>2. tick'[t].at = "idle"
    BY <2>1, Returning
  <2> QED
    BY <1>4, <2>2
<1>6. CASE tick[t].outdated
  BY <1>5, <1>6
<1>7. CASE tick[t].at = "settle" /\ Slot(t) = s
  BY <1>5, <1>7
<1>8. CASE ~tick[t].outdated /\ ~(tick[t].at = "settle" /\ Slot(t) = s)
  <2>1. Covered(t)
    BY <1>4, <1>8 DEF SInv, Planned, Moves
  <2>2. Slot(t) \in Int
    BY SlotType DEF Times
  <2>3. s < Slot(t) \/ (s = Slot(t) /\ tick[t].at \in {"expire", "forward"})
    BY <1>1, <1>4, <1>8, <2>2
  <2> QED
    BY <2>1, <2>3 DEF Covered, TooOld
<1> QED
  BY <1>6, <1>7, <1>8

\* Whatever ticks overlap, lag and fail, when last_fired_at first gets past an occurrence
\* nobody dispatched, it was too late for it, or it was tried, or the schedule was edited
\* under a tick (the three updates of last_fired_at in tickCalendar).
THEOREM NothingSkippedInSilence == Spec => NoSilentSkip
<1>1. TypeOK /\ SInv /\ [Next]_vars =>
        [\A s \in Times \cap Occurrences(event) :
            /\ event.reach < s /\ s <= event'.last
            /\ disp[s] = "none"
            => \/ clock - s > Catchup
               \/ \E t \in Tickers :
                     /\ tick'[t] # tick[t]
                     /\ \/ tick[t].at = "settle" /\ Slot(t) = s
                        \/ tick[t].outdated]_vars
  BY SkipsTold
<1>2. Spec => []TypeOK
  BY TypeCorrect
<1>3. Spec => []SInv
  <2>1. TypeOK /\ TypeOK' /\ SInv /\ [Next]_vars => SInv'
    BY StepS
  <2> QED
    BY <1>2, <2>1, InitS, PTL DEF Spec
<1> QED
  BY <1>1, <1>2, <1>3, PTL DEF Spec, NoSilentSkip
=============================================================================
