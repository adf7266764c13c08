--------------------------- MODULE RoutingClaims ---------------------------
(***************************************************************************)
(* The election of one agent for an unaddressed human group message:       *)
(* claimAndWake and wake of scheduler.ts, electLineup, and the claim row   *)
(* with its sweep in routing-claims.ts, for one message.                   *)
(*                                                                         *)
(* A round is the time a candidate holds the wake: round k begins when the *)
(* row's cursor becomes k (candidates are counted from 1).  The sweep      *)
(* compares the start of a run with the time its round began, so turn[a]   *)
(* keeps the round in which the last run of a started, and 0 for a run     *)
(* before the election, which every agent has.                             *)
(***************************************************************************)
EXTENDS Integers, Sequences, FiniteSets, SequencesExt

CONSTANTS
    Order,          \* the agents of the room, in lexicographic order of id
    Muted,          \* those who muted the room
    MidTurn,        \* those in a run from before the election while it goes on
    NoProposal,     \* the router proposes nobody
    NoRow,          \* there is no claim row
    Deliveries,     \* bound: deliveries of the message's event (the outbox may repeat it)
    Passes,         \* bound: sweep passes of all replicas that overlap
    MaxMishaps      \* bound: passes or handlers that die or meet a failing statement,
                    \* and leases that lapse under a pass at work on the row

Room == ToSet(Order)
Recipients == Room \ Muted
Handlers == 1 .. Deliveries
Sweeps == Deliveries + 1 .. Deliveries + Passes
Wakers == Handlers \cup Sweeps
Round == 0 .. Len(Order)

\* A row: its lineup is an order of the recipients.
Status == {"pending", "served", "exhausted"}
ClaimRow == [status : Status, lineup : SetToSeqs(Recipients),
             cursor : 1 .. Cardinality(Recipients)]

ASSUME RoutingAssumption ==
    /\ Order \in Seq(Room) /\ IsInjective(Order)
    /\ Muted \subseteq Room /\ MidTurn \subseteq Room
    /\ NoRow \notin ClaimRow
    /\ {Deliveries, Passes, MaxMishaps} \subseteq Nat

VARIABLES
    claim,      \* the row of agent_routing_claims: NoRow, or status, lineup and cursor
    lease,      \* lease_expires_at: "live" or "over"
    wakeKey,    \* cumora:wake-claim:<message> is set
    handler,    \* where each delivery is
    sweep,      \* each pass: its step and the round it copied from the row
    wakes,      \* wakes[p]: what handler or pass p still has to wake, in memory
    turn,       \* turn[a]: the round in which the last run of a started
    passed,     \* agents whose read cursor in the room went past the message through a
                \* run from before the election
    called,     \* agents woken for the message (ghost)
    rounds,     \* how often a pass decided to wake the candidate of a round (ghost)
    mishaps     \* what went wrong so far (ghost)

claimVars == <<claim, lease, wakeKey, handler, sweep, wakes, turn, passed, called,
               rounds, mishaps>>

\* What no statement on the row changes.
agentVars == <<turn, passed, called>>

\* compareIds.
ById(a, b) == \E i, j \in DOMAIN Order : i < j /\ Order[i] = a /\ Order[j] = b

\* orderCandidates: the available ones before the busy ones, each class by id.
Ahead(a, b, busy) == IF (a \in busy) = (b \in busy) THEN ById(a, b) ELSE b \in busy

\* electLineup: the proposal if it is available, else the first of the order, who
\* is available unless the whole room is busy: then the proposal again.
Primary(proposal, busy) ==
    IF proposal \in Recipients /\ (proposal \notin busy \/ Recipients \subseteq busy)
    THEN proposal
    ELSE CHOOSE a \in Recipients : \A b \in Recipients \ {a} : Ahead(a, b, busy)

\* The primary, and the others in their order: one lineup.
ElectLineup(proposal, busy) ==
    {lineup \in SetToSeqs(Recipients) :
        /\ lineup[1] = Primary(proposal, busy)
        /\ \A i, j \in 2 .. Len(lineup) : i < j => Ahead(lineup[i], lineup[j], busy)}

ClaimsTypeOK ==
    /\ claim \in ClaimRow \cup {NoRow}
    /\ lease \in {"live", "over"} /\ wakeKey \in BOOLEAN
    /\ handler \in [Handlers -> {"none", "heard", "waking", "done"}]
    /\ sweep \in [Sweeps -> [pc : {"idle", "check", "lagging", "waking"}, at : Round]]
    /\ wakes \in [Wakers -> SUBSET Room]
    /\ turn \in [Room -> Round]
    /\ {passed, called} \subseteq SUBSET Room
    /\ rounds \in [Round -> 0 .. 2]
    /\ mishaps \in [faults : Nat, overruns : Nat, lost : SUBSET Room]

ClaimsInit ==
    /\ claim = NoRow /\ lease = "live" /\ wakeKey = FALSE
    /\ handler = [h \in Handlers |-> "none"]
    /\ sweep = [s \in Sweeps |-> [pc |-> "idle", at |-> 0]]
    /\ wakes = [p \in Wakers |-> {}]
    /\ turn = [a \in Room |-> 0]
    /\ passed = {} /\ called = {}
    /\ rounds = [k \in Round |-> 0]
    /\ mishaps = [faults |-> 0, overruns |-> 0, lost |-> {}]

MayFail == mishaps.faults + mishaps.overruns < MaxMishaps

Pending == claim # NoRow /\ claim.status = "pending"

-----------------------------------------------------------------------------
(* claimAndWake and wake *)

\* SET cumora:wake-claim:<message> NX EX 60: one replica handles the event, and
\* a delivery that finds the key does nothing.
Hear(h) ==
    /\ handler[h] = "none" /\ \A g \in 1 .. h - 1 : handler[g] # "none"
    /\ ~wakeKey
    /\ handler' = [handler EXCEPT ![h] = "heard"]
    /\ wakeKey' = TRUE
    /\ UNCHANGED <<claim, lease, sweep, wakes, agentVars, rounds, mishaps>>

\* After 60 s, with the handler at work or not (of no effect if no delivery is
\* to come).
KeyLapses ==
    /\ wakeKey /\ \E h \in Handlers : handler[h] = "none"
    /\ wakeKey' = FALSE
    /\ UNCHANGED <<claim, lease, handler, sweep, wakes, agentVars, rounds, mishaps>>

StartWaking(h, agents) ==
    /\ wakes' = [wakes EXCEPT ![h] = agents]
    /\ handler' = [handler EXCEPT ![h] = "waking"]

\* The router says "each", or the row cannot be written: the whole room.
FanOut(h) ==
    /\ handler[h] = "heard"
    /\ StartWaking(h, Recipients)
    /\ UNCHANGED <<claim, lease, wakeKey, sweep, agentVars, rounds, mishaps>>

\* claimPrimary: INSERT ... ON CONFLICT DO NOTHING, the row of an earlier
\* delivery is honoured.
Elect(h) ==
    /\ handler[h] = "heard" /\ Recipients # {}
    /\ IF claim = NoRow
       THEN /\ \E proposal \in Room \cup {NoProposal}, busy \in SUBSET Recipients :
                 \E lineup \in ElectLineup(proposal, busy) :
                    /\ claim' = [status |-> "pending", lineup |-> lineup, cursor |-> 1]
                    /\ StartWaking(h, {Head(lineup)})
            /\ lease' = "live"
       ELSE /\ StartWaking(h, IF Pending THEN {claim.lineup[claim.cursor]} ELSE {})
            /\ UNCHANGED <<claim, lease>>
    /\ UNCHANGED <<wakeKey, sweep, agentVars, rounds, mishaps>>

HandlerDone(h) ==
    /\ handler[h] = "waking" /\ wakes[h] = {}
    /\ handler' = [handler EXCEPT ![h] = "done"]
    /\ UNCHANGED <<claim, lease, wakeKey, sweep, wakes, agentVars, rounds, mishaps>>

\* fanOutWake or wakeAgent, of a handler or of a pass: each recipient by itself,
\* in any order, and a pass only when it is through with the other due rows and
\* the old terminal ones.  A wake that is not delivered waits in the inbox.
Wake(p) ==
    /\ \E a \in wakes[p] :
         /\ wakes' = [wakes EXCEPT ![p] = @ \ {a}]
         /\ called' = called \cup {a}
    /\ UNCHANGED <<claim, lease, wakeKey, handler, sweep, turn, passed, rounds, mishaps>>

-----------------------------------------------------------------------------
(* sweepRoutingClaimsOnce *)

PassGoes(s, step) == sweep' = [sweep EXCEPT ![s].pc = step]

\* Mutant: the row is taken without a new lease.
NotRenewed == lease

Renewed == "live"

\* UPDATE ... WHERE pending AND lease_expires_at < NOW() RETURNING.
Take(s) ==
    /\ sweep[s].pc = "idle" /\ \A t \in Sweeps : t < s => sweep[t].pc # "idle"
    /\ Pending /\ lease = "over"
    /\ lease' = Renewed
    /\ sweep' = [sweep EXCEPT ![s] = [pc |-> "check", at |-> claim.cursor]]
    /\ UNCHANGED <<claim, wakeKey, handler, wakes, agentVars, rounds, mishaps>>

\* Mutant: any run counts, whenever it started.
HasRun(a, since) == turn[a] >= 0

HasRunSince(a, since) == turn[a] >= since

\* The primary started a turn: UPDATE ... SET status = 'served' WHERE message_id.
Serve(s) ==
    /\ sweep[s].pc = "check"
    /\ HasRunSince(claim.lineup[sweep[s].at], sweep[s].at)
    /\ claim' = [claim EXCEPT !.status = "served"]
    /\ PassGoes(s, "lagging")
    /\ UNCHANGED <<lease, wakeKey, handler, wakes, agentVars, rounds, mishaps>>

\* The read cursor of an agent that has not run, or never reads the room, unless its
\* own doings there moved it.
Behind(a) == a \notin passed /\ (turn[a] = 0 \/ a \in Muted)

\* findLaggingMembers, of all agents of the room: those behind, and runs that
\* started and have not acknowledged yet.
Lagging(s) ==
    /\ sweep[s].pc = "lagging"
    /\ \E running \in SUBSET {a \in Recipients \ passed : turn[a] > 0} :
         wakes' = [wakes EXCEPT ![s] =
                     ({a \in Room : Behind(a)} \cup running) \ {claim.lineup[sweep[s].at]}]
    /\ PassGoes(s, "waking")
    /\ UNCHANGED <<claim, lease, wakeKey, handler, turn, passed, called, rounds, mishaps>>

\* What is gone with a pass: the wakes in its memory, or those it was about to look up.
ToWake(s) == IF sweep[s].pc = "lagging" THEN {a \in Recipients : Behind(a)} ELSE wakes[s]

\* The query fails: caught, and nobody is woken.
LaggingFails(s) ==
    /\ sweep[s].pc = "lagging"
    /\ MayFail
    /\ mishaps' = [mishaps EXCEPT !.faults = @ + 1, !.lost = @ \cup ToWake(s)]
    /\ PassGoes(s, "waking")
    /\ UNCHANGED <<claim, lease, wakeKey, handler, wakes, agentVars, rounds>>

LastRound(s) == sweep[s].at >= Len(claim.lineup)

\* Mutant: nobody is woken any more.
NoFallback(lineup) == {}

Fallback(lineup) == ToSet(lineup)

\* No candidate is left: status = 'exhausted', and the whole lineup is woken.
Exhaust(s) ==
    /\ sweep[s].pc = "check"
    /\ ~HasRunSince(claim.lineup[sweep[s].at], sweep[s].at)
    /\ LastRound(s)
    /\ claim' = [claim EXCEPT !.status = "exhausted"]
    /\ wakes' = [wakes EXCEPT ![s] = Fallback(claim.lineup)]
    /\ PassGoes(s, "waking")
    /\ UNCHANGED <<lease, wakeKey, handler, agentVars, rounds, mishaps>>

\* UPDATE ... SET cursor, lease WHERE message_id AND cursor: nobody looks whether
\* it found the row, the next candidate is woken in any case.
Move(s) ==
    /\ sweep[s].pc = "check"
    /\ ~HasRunSince(claim.lineup[sweep[s].at], sweep[s].at)
    /\ ~LastRound(s)
    /\ LET next == sweep[s].at + 1
       IN  /\ IF claim.cursor = sweep[s].at
              THEN claim' = [claim EXCEPT !.cursor = next] /\ lease' = "live"
              ELSE UNCHANGED <<claim, lease>>
           /\ wakes' = [wakes EXCEPT ![s] = {claim.lineup[next]}]
           /\ rounds' = [rounds EXCEPT ![next] = IF @ = 2 THEN 2 ELSE @ + 1]
    /\ PassGoes(s, "waking")
    /\ UNCHANGED <<wakeKey, handler, agentVars, mishaps>>

\* The pass is over: its caller starts the wakes in the background.
PassDone(s) ==
    /\ sweep[s].pc = "waking" /\ wakes[s] = {}
    /\ sweep' = [sweep EXCEPT ![s] = [pc |-> "idle", at |-> 0]]
    /\ UNCHANGED <<claim, lease, wakeKey, handler, wakes, agentVars, rounds, mishaps>>

\* A pass deletes the row a day after its verdict, when the outbox has dropped
\* the event: no delivery is to come.
Reap ==
    /\ claim # NoRow /\ ~Pending
    /\ \A h \in Handlers : handler[h] \in {"none", "done"}
    /\ \A s \in Sweeps : sweep[s].pc = "idle"
    /\ claim' = NoRow
    /\ handler' = [h \in Handlers |-> "done"]
    /\ UNCHANGED <<lease, wakeKey, sweep, wakes, agentVars, rounds, mishaps>>

-----------------------------------------------------------------------------
(* Faults, time and the agents *)

\* The process dies, or a statement throws: what the pass decided for this and
\* all other rows is gone.  A pending row comes up again, a terminal one does not.
PassFails(s) ==
    /\ sweep[s].pc # "idle"
    /\ MayFail
    /\ mishaps' = [mishaps EXCEPT !.faults = @ + 1,
                    !.lost = IF Pending THEN @ ELSE @ \cup ToWake(s)]
    /\ sweep' = [sweep EXCEPT ![s] = [pc |-> "idle", at |-> 0]]
    /\ wakes' = [wakes EXCEPT ![s] = {}]
    /\ UNCHANGED <<claim, lease, wakeKey, handler, agentVars, rounds>>

\* What is gone with a handler: the whole message as long as there is no row.
Unserved(h) == IF handler[h] = "heard" /\ claim = NoRow THEN Recipients ELSE wakes[h]

\* The event was taken from the outbox: nobody delivers it again for sure, and
\* only the sweep of a pending row makes up for it.
HandlerFails(h) ==
    /\ handler[h] \in {"heard", "waking"}
    /\ MayFail
    /\ mishaps' = [mishaps EXCEPT !.faults = @ + 1,
                    !.lost = IF Pending THEN @ ELSE @ \cup Unserved(h)]
    /\ handler' = [handler EXCEPT ![h] = "done"]
    /\ wakes' = [wakes EXCEPT ![h] = {}]
    /\ UNCHANGED <<claim, lease, wakeKey, sweep, agentVars, rounds>>

AtWork == {s \in Sweeps : sweep[s].pc = "check"}

\* 90 s pass; under a pass at work on the row that is a mishap.
LeaseLapses ==
    /\ Pending /\ lease = "live"
    /\ lease' = "over"
    /\ IF AtWork = {} THEN UNCHANGED mishaps
       ELSE /\ MayFail
            /\ mishaps' = [mishaps EXCEPT !.overruns = @ + 1]
    /\ UNCHANGED <<claim, wakeKey, handler, sweep, wakes, agentVars, rounds>>

\* A run of agent_runs starts, for this room or another; it reads the inbox,
\* which has nothing from a muted room.
TurnStarts(a) ==
    /\ claim # NoRow /\ turn[a] < claim.cursor
    /\ turn' = [turn EXCEPT ![a] = claim.cursor]
    /\ UNCHANGED <<claim, lease, wakeKey, handler, sweep, wakes, passed, called, rounds,
                   mishaps>>

\* A run from before the election, whose inbox had nothing of the message, posts in the
\* room: last_read_at is NOW(), and no later run of the agent has it in its inbox.
PassesBy(a) ==
    /\ claim # NoRow /\ a \in MidTurn \ passed /\ turn[a] = 0
    /\ passed' = passed \cup {a}
    /\ UNCHANGED <<claim, lease, wakeKey, handler, sweep, wakes, turn, called, rounds,
                   mishaps>>

-----------------------------------------------------------------------------
HandlerSteps(h) == FanOut(h) \/ Elect(h) \/ Wake(h) \/ HandlerDone(h)

SweepSteps(s) ==
    \/ Serve(s) \/ Lagging(s) \/ Exhaust(s) \/ Move(s) \/ Wake(s) \/ PassDone(s)

ClaimsNext ==
    \/ \E h \in Handlers : Hear(h) \/ HandlerSteps(h) \/ HandlerFails(h)
    \/ \E s \in Sweeps : Take(s) \/ SweepSteps(s) \/ LaggingFails(s) \/ PassFails(s)
    \/ \E a \in Recipients : TurnStarts(a)
    \/ \E a \in MidTurn : PassesBy(a)
    \/ KeyLapses \/ LeaseLapses \/ Reap

ClaimsSpec == ClaimsInit /\ [][ClaimsNext]_claimVars

Progress ==
    \/ \E h \in Handlers : HandlerSteps(h)
    \/ \E s \in Sweeps : Take(s) \/ SweepSteps(s)
    \/ LeaseLapses

\* Awaited statements return, the timer of the sweep fires and time passes (all of
\* them take finitely many steps, so fairness to their union does); no agent has
\* to run, no event has to be repeated.
ClaimsFairness == WF_claimVars(Progress)

-----------------------------------------------------------------------------
(* Properties *)

\* A claim is served only if a candidate who had been given the wake started a
\* turn in its round or later, and exhausted only when every candidate had its
\* round (header of routing-claims.ts), whatever passes overlap on old copies.
VerdictHonest ==
    /\ claim # NoRow /\ claim.status = "served" =>
         \E k \in 1 .. claim.cursor : turn[claim.lineup[k]] >= k
    /\ claim # NoRow /\ claim.status = "exhausted" => claim.cursor = Len(claim.lineup)

\* "exactly one replica advances each round" (header of routing-claims.ts), as
\* long as no lease lapses under the pass that renewed it.
OneAdvancePerRound == mishaps.overruns = 0 => \A k \in Round : rounds[k] <= 1

Heard == \E h \in Handlers : handler[h] # "none"

\* Woken, or in a run that began with the message in the inbox.
Reached(a) == a \in called \/ turn[a] > 0

\* Once a replica has heard of the message, everybody it is for is woken or started a
\* run that reads it (sweepRoutingClaimsOnce and its caller), whatever no-shows there
\* are.  Two kinds of agents are excepted, one by one: those whose cursor a run from
\* before the election moved past the message, who have it in no inbox any more ("not
\* deferred, gone", scheduler.ts:1034); and those whose wake was only in the memory of
\* a handler or a pass that died, or of a query that failed, when no pending row stood
\* for it any more (lost).
NobodyLeftOut ==
    \A a \in Recipients :
        Heard ~> (Reached(a) \/ a \in passed \/ a \in mishaps.lost)
=============================================================================
