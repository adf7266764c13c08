------------------------------ MODULE WakeBus ------------------------------
(***************************************************************************)
(* The wake streams of one agent (server/src/agents/runtime/wake-bus.ts):  *)
(* the subscribers of each server, its one Redis subscription for all of   *)
(* them, and the way of a wake from PUBLISH to the responses.              *)
(* attachComputerControlStream of control-bus.ts is the same without the   *)
(* bound on pending deliveries.                                            *)
(*                                                                         *)
(* A server talks to Redis over one connection: commands are executed, and *)
(* replies and messages come back, in order.                               *)
(***************************************************************************)
EXTENDS Integers, Sequences, Functions

CONSTANTS
    Servers,
    Streams,        \* connections of the daemon or pod, each attached once
    MaxPending,     \* SSE_MAX_PENDING_DELIVERIES
    MaxWakes,       \* bound: wakes published
    MaxBusFaults    \* bound: refusals, full sockets, rejected commands

Unsubscribe == "unsubscribe"

ASSUME BusAssumption ==
    /\ {MaxPending, MaxWakes} \subseteq Nat \ {0} /\ MaxBusFaults \in Nat
    /\ Streams \cap (1 .. MaxWakes) = {} /\ Unsubscribe \notin Streams

VARIABLES
    stream,     \* each subscriber: "early" was told that it is ready, like "ready", but
                \* before the subscription was there (the difference is a ghost);
                \* "shut" is closed, and still in the set
    subs,       \* the set of subscribers of each server
    commands,   \* SUBSCRIBE, for which a stream waits, and UNSUBSCRIBE under way
    subscribed, \* what Redis holds for each server
    wire,       \* wakes, and replies to a stream's SUBSCRIBE, on their way back
    owed,       \* who was ready when each wake was published (ghost)
    got,        \* the wakes written to each response (ghost)
    busFaults   \* what went wrong so far (ghost)

busVars == <<stream, subs, commands, subscribed, wire, owed, got, busFaults>>

BusTypeOK ==
    /\ stream \in [Streams -> [st : {"none", "opening", "early", "ready", "shut", "closed"},
                               on : Servers, pending : Seq(1 .. MaxWakes)]]
    /\ subs \in [Servers -> SUBSET Streams]
    /\ commands \in [Servers -> Seq(Streams \cup {Unsubscribe})]
    /\ subscribed \in [Servers -> BOOLEAN]
    /\ wire \in [Servers -> Seq(Streams \cup (1 .. MaxWakes))]
    /\ owed \in Seq(SUBSET Streams) /\ Len(owed) <= MaxWakes
    /\ got \in [Streams -> Seq(1 .. MaxWakes)]
    /\ busFaults \in Nat

BusInit ==
    /\ stream \in [Streams -> [st : {"none"}, on : Servers, pending : {<<>>}]]
    /\ subs = [v \in Servers |-> {}]
    /\ commands = [v \in Servers |-> <<>>] /\ subscribed = [v \in Servers |-> FALSE]
    /\ wire = [v \in Servers |-> <<>>]
    /\ owed = <<>> /\ got = [s \in Streams |-> <<>>] /\ busFaults = 0

BusFault == busFaults < MaxBusFaults /\ busFaults' = busFaults + 1

Closed(s) == stream[s].st \in {"none", "shut", "closed"}

\* What a closed subscriber has pending is dropped in deliverTo, which nobody sees.
Close(s, as) == [stream[s] EXCEPT !.st = as, !.pending = <<>>]

-----------------------------------------------------------------------------
(* attachWakeStream *)

\* Connections are alike: they attach in a fixed order.
NextStream == CHOOSE s \in Streams : stream[s].st = "none"

Confirmed(v) == subscribed[v] /\ commands[v] = <<>>

\* The first subscriber of a server asks Redis and waits for the reply, the others
\* are told that they are ready at once.
Attach(s) ==
    LET v == stream[s].on
    IN  /\ stream[s].st = "none" /\ s = NextStream
        /\ subs' = [subs EXCEPT ![v] = @ \cup {s}]
        /\ IF subs[v] = {}
           THEN /\ commands' = [commands EXCEPT ![v] = Append(@, s)]
                /\ stream' = [stream EXCEPT ![s].st = "opening"]
           ELSE /\ stream' = [stream EXCEPT ![s].st =
                                IF Confirmed(v) THEN "ready" ELSE "early"]
                /\ UNCHANGED commands
        /\ UNCHANGED <<subscribed, wire, owed, got, busFaults>>

\* Mutant: whoever leaves takes the subscription along.
AnyLeft(v, leaving) == leaving # {}

LastLeft(v, leaving) == subs[v] # {} /\ subs[v] \subseteq leaving

\* cleanup of some subscribers; the last one of a server unsubscribes.
Leave(v, leaving) ==
    /\ subs' = [subs EXCEPT ![v] = @ \ leaving]
    /\ commands' = IF LastLeft(v, leaving)
                   THEN [commands EXCEPT ![v] = Append(@, Unsubscribe)] ELSE commands

\* The client goes away, or the response ends at last.
Disconnect(s) ==
    /\ stream[s].st \in {"opening", "early", "ready", "shut"}
    /\ stream' = [stream EXCEPT ![s] = Close(s, "closed")]
    /\ Leave(stream[s].on, {s})
    /\ UNCHANGED <<subscribed, wire, owed, got, busFaults>>

-----------------------------------------------------------------------------
(* Redis *)

Execute(v) ==
    /\ commands[v] # <<>>
    /\ commands' = [commands EXCEPT ![v] = Tail(@)]
    /\ subscribed' = [subscribed EXCEPT ![v] = Head(commands[v]) # Unsubscribe]
    /\ wire' = IF Head(commands[v]) = Unsubscribe THEN wire
               ELSE [wire EXCEPT ![v] = Append(@, Head(commands[v]))]
    /\ UNCHANGED <<stream, subs, owed, got, busFaults>>

\* A rejected SUBSCRIBE leaves its subscriber in the set, never ready; a rejected
\* UNSUBSCRIBE leaves the subscription.
CommandFails(v) ==
    /\ commands[v] # <<>>
    /\ BusFault
    /\ commands' = [commands EXCEPT ![v] = Tail(@)]
    /\ UNCHANGED <<stream, subs, subscribed, wire, owed, got>>

\* deliver: what Redis counts are the servers that are subscribed.
PublishWake ==
    /\ Len(owed) < MaxWakes
    /\ wire' = [v \in Servers |->
                  IF subscribed[v] THEN Append(wire[v], Len(owed) + 1) ELSE wire[v]]
    /\ owed' = Append(owed, {s \in Streams : stream[s].st = "ready"})
    /\ UNCHANGED <<stream, subs, commands, subscribed, got, busFaults>>

-----------------------------------------------------------------------------
(* The server hears from Redis, and writes *)

\* The reply to the first subscriber, unless it is closed by now; it finds the
\* early ones covered.
BecomeReady(v) ==
    /\ wire[v] # <<>> /\ Head(wire[v]) \in Streams
    /\ LET first == Head(wire[v])
           covered == {s \in subs[v] : stream[s].st = "early" /\ Confirmed(v)}
       IN  stream' = [s \in Streams |->
             IF (s = first /\ ~Closed(s)) \/ s \in covered
             THEN [stream[s] EXCEPT !.st = "ready"] ELSE stream[s]]
    /\ wire' = [wire EXCEPT ![v] = Tail(@)]
    /\ UNCHANGED <<subs, commands, subscribed, owed, got, busFaults>>

Overfull(s) == Len(stream[s].pending) >= MaxPending

\* Every subscriber of the set, ready or not, gets the wake into its queue, or is
\* revoked when that is full.
FanOutWake(v) ==
    /\ wire[v] # <<>> /\ Head(wire[v]) \notin Streams
    /\ LET open    == {s \in subs[v] : ~Closed(s)}
           revoked == {s \in open : Overfull(s)}
       IN  /\ stream' = [s \in Streams |->
                IF s \in revoked THEN Close(s, "closed")
                ELSE IF s \in open
                     THEN [stream[s] EXCEPT !.pending = Append(@, Head(wire[v]))]
                     ELSE stream[s]]
           /\ Leave(v, revoked)
    /\ wire' = [wire EXCEPT ![v] = Tail(@)]
    /\ UNCHANGED <<subscribed, owed, got, busFaults>>

\* deliverTo, to the end of a response that is authorised and not backed up.
DeliverTo(s) ==
    /\ stream[s].pending # <<>>
    /\ stream' = [stream EXCEPT ![s].pending = Tail(@)]
    /\ got' = [got EXCEPT ![s] = Append(@, Head(stream[s].pending))]
    /\ UNCHANGED <<subs, commands, subscribed, wire, owed, busFaults>>

\* The buffer of the socket is full or the write throws: closed, and in the set
\* until the response ends.
Shut(s) ==
    /\ stream[s].pending # <<>>
    /\ BusFault
    /\ stream' = [stream EXCEPT ![s] = Close(s, "shut")]
    /\ UNCHANGED <<subs, commands, subscribed, wire, owed, got>>

\* authorize says no or throws, before a delivery or a ping.
Revoke(s) ==
    /\ ~Closed(s)
    /\ BusFault
    /\ stream' = [stream EXCEPT ![s] = Close(s, "closed")]
    /\ Leave(stream[s].on, {s})
    /\ UNCHANGED <<subscribed, wire, owed, got>>

-----------------------------------------------------------------------------
BusNext ==
    \/ PublishWake
    \/ \E s \in Streams : Attach(s) \/ Disconnect(s) \/ DeliverTo(s) \/ Shut(s) \/ Revoke(s)
    \/ \E v \in Servers : Execute(v) \/ CommandFails(v) \/ BecomeReady(v) \/ FanOutWake(v)

BusSpec == BusInit /\ [][BusNext]_busVars

-----------------------------------------------------------------------------
(* Properties *)

OnTheWay(n, s) ==
    n \in Range(wire[stream[s].on]) \cup Range(stream[s].pending) \cup Range(got[s])

\* A stream that is ready gets every wake published from then on, in their order and
\* once, until it is closed, and never behind its back: not when another stream of
\* its server comes or goes, is revoked or backed up (header of wake-bus.ts: "Events
\* fan out to all live local subscribers").  Only a stream that was told it is ready
\* before the subscription of its server was there may miss some.  Nor does more than
\* the bound wait in memory for a client that does not read.
NoGapUntilClosed ==
    /\ \A n \in DOMAIN owed : \A s \in owed[n] : Closed(s) \/ OnTheWay(n, s)
    /\ \A s \in Streams : \A i, j \in DOMAIN got[s] : i < j => got[s][i] < got[s][j]
    /\ \A s \in Streams : Len(stream[s].pending) <= MaxPending
=============================================================================
